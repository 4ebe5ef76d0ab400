---------------------------- MODULE RotationProofs ----------------------------
(***************************************************************************)
(* Proofs about OperatorRotation and the AccessControl it extends, and     *)
(* about AssetMonitor, for every value of their constants.  For the        *)
(* operators, what is granted plays no part: whoever may cancel, their set *)
(* keeps its promises.  The monitor shares no state with them.             *)
(***************************************************************************)
EXTENDS OperatorRotation, SumTheorems, TLAPS

CONSTANTS
    ADMIN, Supers, RoleHolders, ConfigManagers, Limits, CanBlock, LastTick,
    SignerId, Message, MaxNonce, SignatureExpiries, Thresholds,
    Bridges, Pairs, MismatchAssets, RetentionPolicies, RetentionOverrides, Budgets,
    DefaultPolicy, ExpirationPolicies, DefaultExpiration, MaxRecords,
    Assets, Scores, Components, HealthWeights, RiskConfigs, Checkpointing,
    DefaultCheckpointing, Extensions, MaxHistory, MaxLocks, Sources, MaxBatch

VARIABLES
    clock, blocked, rate_limit, usage, signer, nonce, sig_cache, sig_threshold, taken,
    records, archived, keys, liq_depth, policy, retention_override, last_cleanup,
    expiration, written, monitored, health, price, result, price_history, lock,
    lock_history, source, weights, risk, checkpointing, last_checkpoint, snapshots

Monitor == INSTANCE AssetMonitor WITH
    now <- clock, MaxNow <- LastTick, Expiries <- SignatureExpiries

-----------------------------------------------------------------------------
\* At most one rotation is pending.
Single == \A p, q \in pending : p = q

\* The inductive invariant.
IInv ==
    /\ operators \in [Operators -> Operator]
    /\ SomeoneOperates
    /\ Single

\* Before the first proposal the invariant holds.
LEMMA InitIInv == Init => IInv
BY DEF Init, IInv, Operator, SomeoneOperates, Single

\* Reactivating or adding an operator leaves someone active.
LEMMA AddKeeps ==
    ASSUME IInv, NEW a \in Operators, ApplyAdd(a)
    PROVE  operators' \in [Operators -> Operator] /\ SomeoneOperates'
<1>1. operators' \in [Operators -> Operator] /\ operators'[a] = "active"
  BY DEF IInv, ApplyAdd, Operator
<1>2. QED
  BY <1>1 DEF SomeoneOperates, IsOperator

\* The last active operator is not removed.
LEMMA RemoveKeeps ==
    ASSUME IInv, NEW a \in Operators, ApplyRemove(a)
    PROVE  operators' \in [Operators -> Operator] /\ SomeoneOperates'
<1>1. PICK b \in Operators \ {a} : IsOperator(b)
  BY DEF ApplyRemove
<1>2. operators' \in [Operators -> Operator] /\ operators'[b] = "active"
  BY <1>1 DEF IInv, ApplyRemove, Operator, IsOperator
<1>3. QED
  BY <1>1, <1>2 DEF SomeoneOperates, IsOperator

\* Executing the one pending rotation makes exactly its change, in time.
LEMMA ExecutedAsProposed ==
    ASSUME IInv, NEW caller \in Address, ExecuteRotation(caller), NEW p \in pending
    PROVE  /\ now \in p.executes_at .. p.expires_at
           /\ IF p.add THEN ApplyAdd(p.operator) ELSE ApplyRemove(p.operator)
           /\ pending' = {}
<1>1. PICK q \in pending :
          /\ now \in q.executes_at .. q.expires_at
          /\ IF q.add THEN ApplyAdd(q.operator) ELSE ApplyRemove(q.operator)
  BY DEF ExecuteRotation
<1>2. q = p
  BY <1>1 DEF IInv, Single
<1>3. QED
  BY <1>1, <1>2 DEF ExecuteRotation

\* The operator a rotation names is one of those the model follows.
OperatorKnown == \A p \in pending : p.operator \in Operators

\* Every step keeps the invariant.
LEMMA StepIInv ==
    ASSUME IInv, OperatorKnown, [Next]_vars
    PROVE  IInv' /\ OperatorKnown'
<1>1. CASE UNCHANGED vars
  BY <1>1 DEF vars, IInv, OperatorKnown, SomeoneOperates, IsOperator, Single
<1>2. CASE AclNext /\ UNCHANGED rotationVars
  BY <1>2 DEF rotationVars, IInv, OperatorKnown, SomeoneOperates, IsOperator, Single
<1>3. ASSUME NEW caller \in Address, Rotate(caller)
      PROVE  IInv' /\ OperatorKnown'
  <2>1. ASSUME NEW a \in Operators, AddOperator(caller, a)
        PROVE  IInv' /\ OperatorKnown'
    BY <2>1, AddKeeps DEF AddOperator, IInv, OperatorKnown, Single
  <2>2. ASSUME NEW a \in Operators, RemoveOperator(caller, a)
        PROVE  IInv' /\ OperatorKnown'
    BY <2>2, RemoveKeeps DEF RemoveOperator, IInv, OperatorKnown, Single
  <2>3. ASSUME NEW timing \in Timings, SetRotationConfig(caller, timing)
        PROVE  IInv' /\ OperatorKnown'
    BY <2>3 DEF SetRotationConfig, IInv, OperatorKnown, SomeoneOperates, IsOperator, Single
  <2>4. ASSUME NEW a \in Operators, NEW add \in BOOLEAN, ProposeRotation(caller, add, a)
        PROVE  IInv' /\ OperatorKnown'
    BY <2>4 DEF ProposeRotation, IInv, OperatorKnown, SomeoneOperates, IsOperator, Single
  <2>5. CASE ExecuteRotation(caller)
    <3>1. PICK p \in pending : TRUE
      BY <2>5 DEF ExecuteRotation
    <3>2. ApplyAdd(p.operator) \/ ApplyRemove(p.operator)
      BY <2>5, <3>1, ExecutedAsProposed
    <3>3. p.operator \in Operators
      BY <3>1 DEF OperatorKnown
    <3>4. operators' \in [Operators -> Operator] /\ SomeoneOperates'
      BY <3>2, <3>3, AddKeeps, RemoveKeeps
    <3>5. pending' = {}
      BY <2>5 DEF ExecuteRotation
    <3>6. QED
      BY <3>4, <3>5 DEF IInv, OperatorKnown, Single
  <2>6. CASE CancelRotation(caller)
    BY <2>6 DEF CancelRotation, IInv, OperatorKnown, SomeoneOperates, IsOperator, Single
  <2>7. QED
    BY <1>3, <2>1, <2>2, <2>3, <2>4, <2>5, <2>6 DEF Rotate
<1>4. QED
  BY <1>1, <1>2, <1>3 DEF Next

\* The invariant holds in every reachable state.
THEOREM SpecIInv == Spec => [](IInv /\ OperatorKnown)
<1>1. Init => OperatorKnown
  BY DEF Init, OperatorKnown
<1>2. QED
  BY <1>1, InitIInv, StepIInv, PTL DEF Spec

\* Once there was an operator there always is an active one.
THEOREM AlwaysOperated == Spec => []SomeoneOperates
<1>1. IInv => SomeoneOperates
  BY DEF IInv
<1>2. QED
  BY <1>1, SpecIInv, PTL

\* A rotation ends whole, inside its window, and is never replaced.
THEOREM RotationsWhole == Spec => RotationWhole
<1> DEFINE A == \A p \in pending :
                   pending' # pending =>
                       /\ pending' = {}
                       /\ \/ UNCHANGED operators
                          \/ /\ now \in p.executes_at .. p.expires_at
                             /\ operators' = [operators EXCEPT ![p.operator] =
                                                 IF p.add THEN "active" ELSE "removed"]
<1>1. IInv /\ [Next]_vars => [A]_vars
  <2> SUFFICES ASSUME IInv, Next, NEW p \in pending, pending' # pending
               PROVE  /\ pending' = {}
                      /\ \/ UNCHANGED operators
                         \/ /\ now \in p.executes_at .. p.expires_at
                            /\ operators' = [operators EXCEPT ![p.operator] =
                                                IF p.add THEN "active" ELSE "removed"]
    OBVIOUS
  <2>1. PICK caller \in Address : Rotate(caller)
    BY DEF Next, rotationVars
  <2>2. ExecuteRotation(caller) \/ CancelRotation(caller)
    BY <2>1 DEF Rotate, AddOperator, RemoveOperator, SetRotationConfig, ProposeRotation
  <2>3. CASE ExecuteRotation(caller)
    <3>1. /\ now \in p.executes_at .. p.expires_at
          /\ IF p.add THEN ApplyAdd(p.operator) ELSE ApplyRemove(p.operator)
          /\ pending' = {}
      BY <2>3, ExecutedAsProposed
    <3>2. QED
      BY <3>1 DEF ApplyAdd, ApplyRemove
  <2>4. CASE CancelRotation(caller)
    BY <2>4 DEF CancelRotation
  <2>5. QED
    BY <2>2, <2>3, <2>4
<1>2. QED
  BY <1>1, SpecIInv, PTL DEF Spec, RotationWhole

-----------------------------------------------------------------------------
(***************************************************************************)
(* Grants: what a call with a list of entries stores.                      *)
(***************************************************************************)

\* What may be stored, and what the entries of a call are.
Expiry == Nat \cup {NoGrant}
Held == Role \cup Permission
Grants == [Address -> [Held -> Expiry]]
EntryLists(n) ==
    [1 .. n -> [grantee : Address, held : Held, expires_at : Nat]]

\* One entry written into g.
Stored(g, e, expiry) == [g EXCEPT ![e.grantee][e.held] = expiry]

\* The tables by which the two folds are defined.
GrantTable(entries) ==
    CHOOSE t : t = [s \in SUBSET DOMAIN entries |->
        IF s = {} THEN grants
        ELSE Stored(t[s \ {Max(s)}], entries[Max(s)], entries[Max(s)].expires_at)]
RevokeTable(entries) ==
    CHOOSE t : t = [s \in SUBSET DOMAIN entries |->
        IF s = {} THEN grants ELSE Stored(t[s \ {Max(s)}], entries[Max(s)], NoGrant)]

\* The folds over the granted and the revoked entries, as recursive functions.
LEMMA GrantedUnfolded ==
    ASSUME NEW entries
    PROVE  /\ Granted(entries) = GrantTable(entries)[DOMAIN entries]
           /\ Revoked(entries) = RevokeTable(entries)[DOMAIN entries]
BY DEF Granted, Revoked, FoldLeft, MapThenFoldSet, GrantTable, RevokeTable, Stored

\* The last index of a set of indexes is one of them.
LEMMA MaxIsLargest ==
    ASSUME NEW n \in Nat, NEW s \in SUBSET (1 .. n), s # {}
    PROVE  Max(s) \in s /\ \A k \in s : Max(s) >= k
<1>1. \E m \in s : \A k \in s : m >= k
  BY LargestNumber
<1> QED
  BY <1>1 DEF Max

\* The value at h of a is that of the last of the first k entries for them, if there is one.
LastStays(g, entries, to, a, h, k) ==
    LET for == {i \in 1 .. k : entries[i].grantee = a /\ entries[i].held = h}
    IN  \/ \E i \in for : (\A j \in for : j <= i) /\ g[a][h] = to[i]
        \/ for = {} /\ g[a][h] = grants[a][h]

\* The table of entries whose expiries are to.
Writes(t, entries, to, n) ==
    t = [s \in SUBSET (1 .. n) |->
            IF s = {} THEN grants ELSE Stored(t[s \ {Max(s)}], entries[Max(s)], to[Max(s)])]

\* An entry written is a grant, and changes nothing else.
LEMMA StoredTyped ==
    ASSUME NEW g \in Grants, NEW a \in Address, NEW h \in Held, NEW expiry \in Expiry,
           NEW e \in [grantee : Address, held : Held, expires_at : Nat]
    PROVE  /\ Stored(g, e, expiry) \in Grants
           /\ Stored(g, e, expiry)[a][h] =
                 IF e.grantee = a /\ e.held = h THEN expiry ELSE g[a][h]
<1>1. g[e.grantee] \in [Held -> Expiry]
  BY DEF Grants
<1>2. [g[e.grantee] EXCEPT ![e.held] = expiry] \in [Held -> Expiry]
  BY <1>1
<1>3. Stored(g, e, expiry) = [g EXCEPT ![e.grantee] = [g[e.grantee] EXCEPT ![e.held] = expiry]]
  BY DEF Stored, Grants
<1> QED
  BY <1>1, <1>2, <1>3 DEF Grants

\* There is such a table, and it holds grants only.
LEMMA WritesExists ==
    ASSUME NEW n \in Nat, NEW entries \in EntryLists(n), NEW to \in [1 .. n -> Expiry],
           grants \in Grants
    PROVE  /\ \E t : Writes(t, entries, to, n)
           /\ \A t : Writes(t, entries, to, n) => \A s \in SUBSET (1 .. n) : t[s] \in Grants
<1> DEFINE S == 1 .. n
           pick == [s \in SUBSET S |-> Max(s)]
           step == [p \in S \X Grants |-> Stored(p[2], entries[p[1]], to[p[1]])]
<1>1. IsFiniteSet(S)
  BY FS_Interval
<1>2. \A s \in SUBSET S : pick[s] = Max(s) /\ (s # {} => pick[s] \in s)
  BY MaxIsLargest
<1>3. step \in [S \X Grants -> Grants]
  <2>1. ASSUME NEW p \in S \X Grants
        PROVE  Stored(p[2], entries[p[1]], to[p[1]]) \in Grants
    <3>1. /\ p[2] \in Grants /\ p[1] \in S /\ to[p[1]] \in Expiry
          /\ entries[p[1]] \in [grantee : Address, held : Held, expires_at : Nat]
      BY DEF EntryLists
    <3> HIDE DEF S
    <3>2. entries[p[1]].grantee \in Address /\ entries[p[1]].held \in Held
      BY <3>1
    <3> QED
      BY <3>1, <3>2, StoredTyped
  <2> QED
    BY <2>1
<1>4. ASSUME NEW k \in S, NEW g \in Grants
      PROVE  step[<<k, g>>] = Stored(g, entries[k], to[k])
  OBVIOUS
<1> HIDE DEF pick, step
<1>5. \E t : Writes(t, entries, to, n)
  <2>1. PICK t \in [SUBSET S -> Grants] : Folds(t, grants, pick, step, S)
    <3>1. Picks(pick, S)
      BY <1>2 DEF Picks
    <3> HIDE DEF S
    <3> QED
      BY <1>1, <1>3, <3>1, FoldTable
  <2>2. ASSUME NEW s \in SUBSET S
        PROVE  t[s] = IF s = {} THEN grants
                      ELSE Stored(t[s \ {Max(s)}], entries[Max(s)], to[Max(s)])
    <3>1. CASE s # {}
      <4>1. Max(s) \in S /\ t[s \ {Max(s)}] \in Grants
        BY <1>2, <2>1, <3>1
      <4>2. t[s] = step[<<Max(s), t[s \ {Max(s)}]>>]
        BY <1>2, <2>1, <3>1 DEF Fold, Folds
      <4> HIDE DEF S
      <4> QED
        BY <1>4, <3>1, <4>1, <4>2
    <3> QED
      BY <2>1, <3>1 DEF Fold, Folds
  <2> QED
    BY <2>1, <2>2 DEF Writes
<1>6. ASSUME NEW t, Writes(t, entries, to, n)
      PROVE  \A s \in SUBSET S : t[s] \in Grants
  <2>1. t[{}] = grants
    BY <1>6 DEF Writes
  <2>2. ASSUME NEW s \in SUBSET S, s # {}, t[s \ {pick[s]}] \in Grants
        PROVE  t[s] = step[<<pick[s], t[s \ {pick[s]}]>>]
    <3>1. pick[s] = Max(s) /\ Max(s) \in S
      BY <1>2, <2>2
    <3>2. t[s] = Stored(t[s \ {Max(s)}], entries[Max(s)], to[Max(s)])
      BY <1>6, <2>2 DEF Writes
    <3> HIDE DEF S
    <3> QED
      BY <1>4, <2>2, <3>1, <3>2
  <2>3. Picks(pick, S) /\ Follows(t, pick, step, S, Grants)
    BY <1>2, <2>2 DEF Picks, Follows
  <2> HIDE DEF S
  <2> QED
    BY <1>1, <1>3, <2>1, <2>3, FoldTyped
<1> QED
  BY <1>5, <1>6


\* The entries are written in their order.
LEMMA LastWriteStays ==
    ASSUME NEW n \in Nat, NEW entries \in EntryLists(n), NEW to \in [1 .. n -> Expiry],
           grants \in Grants, NEW t, Writes(t, entries, to, n)
    PROVE  /\ t[1 .. n] \in Grants
           /\ \A a \in Address, h \in Held : LastStays(t[1 .. n], entries, to, a, h, n)
<1> DEFINE Good == {k \in Nat : k <= n =>
                       \A a \in Address, h \in Held : LastStays(t[1 .. k], entries, to, a, h, k)}
<1>1. \A s \in SUBSET (1 .. n) : t[s] \in Grants
  BY WritesExists
<1>2. 0 \in Good
  <2>1. 1 .. 0 = {} /\ t[{}] = grants
    BY DEF Writes
  <2>2. ASSUME NEW a \in Address, NEW h \in Held
        PROVE  LastStays(t[1 .. 0], entries, to, a, h, 0)
    BY <2>1 DEF LastStays
  <2> QED
    BY <2>2
<1>3. ASSUME NEW k \in Nat, k \in Good
      PROVE  k + 1 \in Good
  <2> SUFFICES ASSUME k + 1 <= n, NEW a \in Address, NEW h \in Held
               PROVE  LastStays(t[1 .. k + 1], entries, to, a, h, k + 1)
    OBVIOUS
  <2> DEFINE e == entries[k + 1]
             g == t[1 .. k]
  <2>1. LastStays(g, entries, to, a, h, k)
    BY <1>3
  <2>2. /\ k + 1 \in 1 .. n /\ 1 .. k + 1 \in SUBSET (1 .. n) /\ 1 .. k \in SUBSET (1 .. n)
        /\ 1 .. k + 1 # {} /\ (1 .. k + 1) \ {k + 1} = 1 .. k
    <3>1. k + 1 \in 1 .. n /\ k + 1 \in 1 .. k + 1
      OBVIOUS
    <3>2. 1 .. k + 1 \subseteq 1 .. n /\ 1 .. k \subseteq 1 .. n
      OBVIOUS
    <3>3. (1 .. k + 1) \ {k + 1} = 1 .. k
      OBVIOUS
    <3> HIDE DEF Good, e, g
    <3> QED
      BY <3>1, <3>2, <3>3
  <2>3. Max(1 .. k + 1) = k + 1
    <3>1. Max(1 .. k + 1) \in 1 .. k + 1 /\ \A j \in 1 .. k + 1 : Max(1 .. k + 1) >= j
      BY <2>2, MaxIsLargest
    <3>2. Max(1 .. k + 1) >= k + 1
      BY <3>1
    <3> QED
      BY <3>1, <3>2
  <2>4. t[1 .. k + 1] = Stored(g, e, to[k + 1])
    BY <2>2, <2>3 DEF Writes
  <2>5. /\ g \in Grants /\ to[k + 1] \in Expiry
        /\ e \in [grantee : Address, held : Held, expires_at : Nat]
    BY <1>1, <2>2 DEF EntryLists
  <2> HIDE DEF g
  <2>6. t[1 .. k + 1][a][h] = IF e.grantee = a /\ e.held = h THEN to[k + 1] ELSE g[a][h]
    <3> HIDE DEF e
    <3> QED
      BY <2>4, <2>5, StoredTyped
  <2>7. CASE e.grantee = a /\ e.held = h
    <3>1. t[1 .. k + 1][a][h] = to[k + 1]
      BY <2>6, <2>7
    <3>2. \A j \in 1 .. k + 1 : j <= k + 1
      OBVIOUS
    <3> QED
      BY <2>7, <3>1, <3>2 DEF LastStays
  <2>8. CASE ~(e.grantee = a /\ e.held = h)
    <3>1. t[1 .. k + 1][a][h] = g[a][h]
      BY <2>6, <2>8
    <3>2. {i \in 1 .. k + 1 : entries[i].grantee = a /\ entries[i].held = h} =
             {i \in 1 .. k : entries[i].grantee = a /\ entries[i].held = h}
      BY <2>8
    <3> QED
      BY <2>1, <3>1, <3>2 DEF LastStays
  <2> QED
    BY <2>7, <2>8
<1>4. n \in Good
  <2> HIDE DEF Good
  <2>1. Nat \subseteq Good
    BY <1>2, <1>3, NumberInduction
  <2> QED
    BY <2>1
<1> QED
  BY <1>1, <1>4

\* The entries a call is given are such lists.
LEMMA EntriesListed ==
    ASSUME NEW kind \in {Roles, Permissions}, NEW entries \in Entries(kind)
    PROVE  \E n \in Nat : entries \in EntryLists(n)
<1>1. PICK n \in 1 .. MaxEntries : entries \in [1 .. n -> Entry(kind)]
  BY DEF Entries
<1>2. n \in Nat /\ kind \subseteq Held /\ Grantees \subseteq Address /\ Expiries \subseteq Nat
  BY AccessAssumption DEF Held
<1>3. Entry(kind) \subseteq [grantee : Address, held : Held, expires_at : Nat]
  BY <1>2 DEF Entry
<1>4. entries \in EntryLists(n)
  BY <1>1, <1>3 DEF EntryLists
<1> QED
  BY <1>2, <1>4

\* What acl_bulk_grant_roles and the like store: for each grantee and each role or
\* permission the expiry of the last entry that names them, and what was stored before if
\* none does.
THEOREM LastGrantStays ==
    ASSUME NEW n \in Nat, NEW entries \in EntryLists(n), grants \in Grants
    PROVE  /\ Granted(entries) \in Grants
           /\ \A a \in Address, h \in Held :
                 LastStays(Granted(entries), entries, [i \in 1 .. n |-> entries[i].expires_at],
                           a, h, n)
<1> DEFINE to == [i \in 1 .. n |-> entries[i].expires_at]
           T == GrantTable(entries)
           Given(t, s) == Stored(t[s \ {Max(s)}], entries[Max(s)], entries[Max(s)].expires_at)
<1>1. DOMAIN entries = 1 .. n /\ \A i \in 1 .. n : entries[i].expires_at \in Nat
  BY DEF EntryLists
<1>2. to \in [1 .. n -> Expiry]
  BY <1>1 DEF Expiry
<1>3. ASSUME NEW t
      PROVE  Writes(t, entries, to, n) <=>
                t = [s \in SUBSET (1 .. n) |-> IF s = {} THEN grants ELSE Given(t, s)]
  <2>1. ASSUME NEW s \in SUBSET (1 .. n), s # {}
        PROVE  to[Max(s)] = entries[Max(s)].expires_at
    BY <2>1, MaxIsLargest
  <2>2. [s \in SUBSET (1 .. n) |-> IF s = {} THEN grants ELSE Given(t, s)] =
           [s \in SUBSET (1 .. n) |->
               IF s = {} THEN grants
               ELSE Stored(t[s \ {Max(s)}], entries[Max(s)], to[Max(s)])]
    <3> HIDE DEF to
    <3> QED
      BY <2>1
  <2> HIDE DEF to, Given
  <2> QED
    BY <2>2 DEF Writes
<1>4. Writes(T, entries, to, n)
  <2> HIDE DEF to
  <2>1. \E t : Writes(t, entries, to, n)
    BY <1>2, WritesExists
  <2>2. \E t : t = [s \in SUBSET (1 .. n) |-> IF s = {} THEN grants ELSE Given(t, s)]
    BY <1>3, <2>1
  <2>3. T = [s \in SUBSET (1 .. n) |-> IF s = {} THEN grants ELSE Given(T, s)]
    BY <1>1, <2>2 DEF GrantTable
  <2> QED
    BY <1>3, <2>3
<1>5. Granted(entries) = T[1 .. n]
  BY <1>1, GrantedUnfolded
<1> HIDE DEF to, T
<1>6. /\ T[1 .. n] \in Grants
      /\ \A a \in Address, h \in Held : LastStays(T[1 .. n], entries, to, a, h, n)
  BY <1>2, <1>4, LastWriteStays
<1> QED
  BY <1>5, <1>6 DEF to

\* The same for acl_bulk_revoke_roles and the like: every pair an entry names is revoked.
THEOREM RevokedStays ==
    ASSUME NEW n \in Nat, NEW entries \in EntryLists(n), grants \in Grants
    PROVE  /\ Revoked(entries) \in Grants
           /\ \A a \in Address, h \in Held :
                 Revoked(entries)[a][h] =
                    IF \E i \in 1 .. n : entries[i].grantee = a /\ entries[i].held = h
                    THEN NoGrant ELSE grants[a][h]
<1> DEFINE to == [i \in 1 .. n |-> NoGrant]
           T == RevokeTable(entries)
           Taken(t, s) == Stored(t[s \ {Max(s)}], entries[Max(s)], NoGrant)
<1>1. DOMAIN entries = 1 .. n
  BY DEF EntryLists
<1>2. to \in [1 .. n -> Expiry]
  BY DEF Expiry
<1>3. ASSUME NEW t
      PROVE  Writes(t, entries, to, n) <=>
                t = [s \in SUBSET (1 .. n) |-> IF s = {} THEN grants ELSE Taken(t, s)]
  <2>1. ASSUME NEW s \in SUBSET (1 .. n), s # {}
        PROVE  to[Max(s)] = NoGrant
    BY <2>1, MaxIsLargest
  <2>2. [s \in SUBSET (1 .. n) |-> IF s = {} THEN grants ELSE Taken(t, s)] =
           [s \in SUBSET (1 .. n) |->
               IF s = {} THEN grants
               ELSE Stored(t[s \ {Max(s)}], entries[Max(s)], to[Max(s)])]
    <3> HIDE DEF to
    <3> QED
      BY <2>1
  <2> HIDE DEF to, Taken
  <2> QED
    BY <2>2 DEF Writes
<1>4. Writes(T, entries, to, n)
  <2> HIDE DEF to
  <2>1. \E t : Writes(t, entries, to, n)
    BY <1>2, WritesExists
  <2>2. \E t : t = [s \in SUBSET (1 .. n) |-> IF s = {} THEN grants ELSE Taken(t, s)]
    BY <1>3, <2>1
  <2>3. T = [s \in SUBSET (1 .. n) |-> IF s = {} THEN grants ELSE Taken(T, s)]
    BY <1>1, <2>2 DEF RevokeTable
  <2> QED
    BY <1>3, <2>3
<1>5. Revoked(entries) = T[1 .. n]
  BY <1>1, GrantedUnfolded
<1>6. \A i \in 1 .. n : to[i] = NoGrant
  OBVIOUS
<1> HIDE DEF to, T
<1>7. /\ T[1 .. n] \in Grants
      /\ \A a \in Address, h \in Held : LastStays(T[1 .. n], entries, to, a, h, n)
  BY <1>2, <1>4, LastWriteStays
<1>8. ASSUME NEW a \in Address, NEW h \in Held
      PROVE  T[1 .. n][a][h] =
                IF \E i \in 1 .. n : entries[i].grantee = a /\ entries[i].held = h
                THEN NoGrant ELSE grants[a][h]
  <2>1. LastStays(T[1 .. n], entries, to, a, h, n)
    BY <1>7
  <2> QED
    BY <1>6, <2>1 DEF LastStays
<1> QED
  BY <1>5, <1>7, <1>8

-----------------------------------------------------------------------------
(***************************************************************************)
(* The whole of the state is typed, so that a grant that is valid now was  *)
(* valid a second ago.                                                     *)
(***************************************************************************)

LEMMA InitTyped == Init => TypeOK
<1> SUFFICES ASSUME Init PROVE TypeOK
  OBVIOUS
<1>1. AclTypeOK
  <2>1. /\ now \in 0 .. MaxNow /\ admin \in Address
        /\ grants \in [Address -> [Role \cup Permission -> Nat \cup {NoGrant}]]
    BY AccessAssumption DEF Init, AclInit
  <2>2. globally_paused \in BOOLEAN
    BY Zenon DEF Init, AclInit
  <2> QED
    BY <2>1, <2>2 DEF AclTypeOK
<1>2. /\ operators \in [Operators -> Operator] /\ rotation_config \in RotationConfig
      /\ pending = {}
  BY RotationAssumption DEF Init, Operator
<1>3. Cardinality(pending) = 0
  BY <1>2, FS_EmptySet
<1> QED
  BY <1>1, <1>2, <1>3 DEF TypeOK

\* A call of the access control, a change of the administrator or of the pause, a second.
LEMMA AclTyped ==
    ASSUME AclTypeOK, AclNext
    PROVE  AclTypeOK'
<1>0. grants \in Grants
  BY DEF AclTypeOK, Grants, Held, Expiry
<1>1. ASSUME NEW caller \in Address, NEW kind \in {Roles, Permissions},
             NEW entries \in Entries(kind), Grant(caller, entries) \/ Revoke(caller, entries)
      PROVE  AclTypeOK'
  <2>1. PICK n \in Nat : entries \in EntryLists(n)
    BY EntriesListed
  <2>2. Granted(entries) \in Grants /\ Revoked(entries) \in Grants
    BY <1>0, <2>1, LastGrantStays, RevokedStays
  <2>3. /\ grants' = Granted(entries) \/ grants' = Revoked(entries)
        /\ UNCHANGED ledgerVars
    BY <1>1 DEF Grant, Revoke
  <2>4. grants' \in [Address -> [Role \cup Permission -> Nat \cup {NoGrant}]]
    BY <2>2, <2>3 DEF Grants, Held, Expiry
  <2> QED
    BY <2>3, <2>4 DEF AclTypeOK, ledgerVars
<1>2. ASSUME NEW successor \in Successors, ChangeAdmin(successor)
      PROVE  AclTypeOK'
  BY <1>2, AccessAssumption DEF ChangeAdmin, AclTypeOK
<1>3. ASSUME NEW paused \in BOOLEAN, SetPause(paused)
      PROVE  AclTypeOK'
  <2>1. globally_paused' \in BOOLEAN
    BY <1>3, Zenon DEF SetPause
  <2>2. UNCHANGED <<now, admin, grants>>
    BY <1>3 DEF SetPause
  <2> QED
    BY <2>1, <2>2 DEF AclTypeOK
<1>4. CASE Tick
  <2>1. now' \in 0 .. MaxNow
    BY <1>4, AccessAssumption DEF Tick, AclTypeOK
  <2>2. UNCHANGED <<admin, globally_paused, grants>>
    BY <1>4 DEF Tick
  <2> QED
    BY <2>1, <2>2 DEF AclTypeOK
<1> QED
  BY <1>1, <1>2, <1>3, <1>4 DEF AclNext

\* A set of at most one.
LEMMA AtMostOne ==
    ASSUME NEW S, \A p, q \in S : p = q
    PROVE  Cardinality(S) <= 1
<1>1. CASE S = {}
  BY <1>1, FS_EmptySet
<1>2. CASE S # {}
  <2>1. PICK p \in S : S = {p}
    BY <1>2
  <2>2. Cardinality({p}) = 1
    BY FS_Singleton
  <2> QED
    BY <2>1, <2>2
<1> QED
  BY <1>1, <1>2

\* A call of the rotation.
LEMMA RotateTyped ==
    ASSUME TypeOK, IInv, OperatorKnown, NEW caller \in Address, Rotate(caller)
    PROVE  TypeOK'
<1>1. IInv' /\ OperatorKnown'
  BY StepIInv DEF Next
<1>2. UNCHANGED <<ledgerVars, grants>>
  BY DEF Rotate, AddOperator, RemoveOperator, SetRotationConfig, ProposeRotation,
         ExecuteRotation, CancelRotation
<1>3. AclTypeOK'
  BY <1>2 DEF TypeOK, AclTypeOK, ledgerVars
<1>4. rotation_config' \in RotationConfig
  <2>1. ASSUME NEW timing \in Timings, SetRotationConfig(caller, timing)
        PROVE  rotation_config' \in RotationConfig
    <3>1. timing \in [delay_secs : Nat, grace_period_secs : Nat]
      BY RotationAssumption
    <3>2. /\ timing.delay_secs > 0 /\ timing.grace_period_secs > 0
          /\ rotation_config' = timing
      BY <2>1 DEF SetRotationConfig
    <3> QED
      BY <3>1, <3>2 DEF RotationConfig
  <2>2. ASSUME ~\E timing \in Timings : SetRotationConfig(caller, timing)
        PROVE  rotation_config' = rotation_config
    BY <2>2 DEF Rotate, AddOperator, RemoveOperator, ProposeRotation, ExecuteRotation,
                CancelRotation
  <2> QED
    BY <2>1, <2>2 DEF TypeOK
<1>5. pending' \in SUBSET PendingRotation
  <2>1. ASSUME NEW a \in Operators, NEW add \in BOOLEAN, ProposeRotation(caller, add, a)
        PROVE  pending' \in SUBSET PendingRotation
    <3> DEFINE from == now + rotation_config.delay_secs
               to == now + rotation_config.delay_secs + rotation_config.grace_period_secs
               p == [add |-> add, operator |-> a, proposed_at |-> now, executes_at |-> from,
                     expires_at |-> to]
    <3>1. now \in Nat /\ from \in Nat /\ to \in Nat
      <4>1. /\ now \in Nat /\ rotation_config.delay_secs \in Nat
            /\ rotation_config.grace_period_secs \in Nat
        BY AccessAssumption DEF TypeOK, AclTypeOK, RotationConfig
      <4> QED
        BY <4>1
    <3>2. pending' = {p}
      BY <2>1 DEF ProposeRotation
    <3> HIDE DEF from, to
    <3>3. p \in PendingRotation
      BY <3>1 DEF PendingRotation
    <3> HIDE DEF p
    <3> QED
      BY <3>2, <3>3
  <2>2. ASSUME ~\E a \in Operators, add \in BOOLEAN : ProposeRotation(caller, add, a)
        PROVE  pending' = pending \/ pending' = {}
    BY <2>2 DEF Rotate, AddOperator, RemoveOperator, SetRotationConfig, ExecuteRotation,
                CancelRotation
  <2> QED
    BY <2>1, <2>2 DEF TypeOK
<1>6. Cardinality(pending') <= 1
  <2>1. \A p, q \in pending' : p = q
    BY <1>1 DEF IInv, Single
  <2> QED
    BY <2>1, AtMostOne
<1> QED
  BY <1>1, <1>3, <1>4, <1>5, <1>6 DEF IInv, TypeOK

\* The grants, the operators, their configuration and the pending rotation have their
\* types, whatever lists of entries are granted and revoked.
THEOREM TypesHold == Spec => []TypeOK
<1>1. TypeOK /\ IInv /\ OperatorKnown /\ [Next]_vars => TypeOK'
  <2> SUFFICES ASSUME TypeOK, IInv, OperatorKnown, [Next]_vars PROVE TypeOK'
    OBVIOUS
  <2>1. CASE UNCHANGED vars
    BY <2>1 DEF vars, TypeOK, AclTypeOK
  <2>2. CASE AclNext /\ UNCHANGED rotationVars
    <3>1. AclTypeOK'
      BY <2>2, AclTyped DEF TypeOK
    <3> QED
      BY <2>2, <3>1 DEF TypeOK, rotationVars
  <2>3. ASSUME NEW caller \in Address, Rotate(caller) PROVE TypeOK'
    BY <2>3, RotateTyped
  <2> QED
    BY <2>1, <2>2, <2>3 DEF Next
<1> QED
  BY <1>1, InitTyped, SpecIInv, PTL DEF Spec

\* A grant that is valid after a step that grants nothing was valid before it.
LEMMA ValidBefore ==
    ASSUME AclTypeOK, UNCHANGED grants, now' \in Nat, now' >= now,
           NEW a \in Address, NEW held \in Held, Valid(a, held)'
    PROVE  Valid(a, held)
<1>1. grants[a][held] \in Nat \cup {NoGrant} /\ now \in Nat
  BY AccessAssumption DEF AclTypeOK, Held
<1>2. grants[a][held] # NoGrant /\ (grants[a][held] = 0 \/ grants[a][held] > now')
  BY DEF Valid
<1>3. grants[a][held] > now' => grants[a][held] > now
  BY <1>1, <1>2
<1> QED
  BY <1>2, <1>3 DEF Valid

\* Nobody gains a permission while the contract is paused, nor by time passing.
THEOREM NothingIsGainedQuietly == Spec => NothingGainedQuietly
<1> DEFINE A == globally_paused \/ now' # now =>
                   \A a \in Address, permission \in Permission :
                       HasPermission(a, permission)' => HasPermission(a, permission)
<1>1. TypeOK /\ [Next]_vars => [A]_vars
  <2> SUFFICES ASSUME TypeOK, Next, globally_paused \/ now' # now,
                      NEW a \in Address, NEW permission \in Permission,
                      HasPermission(a, permission)'
               PROVE  HasPermission(a, permission)
    OBVIOUS
  <2>1. now \in Nat
    BY AccessAssumption DEF TypeOK, AclTypeOK
  <2>2. UNCHANGED grants /\ (now' = now \/ now' = now + 1)
    <3>1. ASSUME NEW caller \in Address, Rotate(caller)
          PROVE  UNCHANGED <<ledgerVars, grants>>
      BY <3>1 DEF Rotate, AddOperator, RemoveOperator, SetRotationConfig, ProposeRotation,
                  ExecuteRotation, CancelRotation
    <3>2. CASE AclNext
      BY <3>2 DEF AclNext, Grant, Revoke, ChangeAdmin, SetPause, Tick, ledgerVars
    <3> QED
      BY <3>1, <3>2 DEF Next, ledgerVars
  <2>3. now' \in Nat /\ now' >= now
    BY <2>1, <2>2
  <2>4. \A held \in Held : Valid(a, held)' => Valid(a, held)
    BY <2>2, <2>3, ValidBefore DEF TypeOK
  <2> QED
    BY <2>4 DEF HasPermission, Held
<1>2. QED
  BY <1>1, TypesHold, PTL DEF Spec, NothingGainedQuietly
-----------------------------------------------------------------------------
\* The payloads that a signature is verified for, by the calls of their own and by the
\* signed submissions.
Payload ==
    Message \cup Monitor!Items \cup {<<<<a, n>>>> : a \in Assets, n \in Scores}
            \cup {<<<<a, n, "price">>>> : a \in Assets, n \in Scores}

\* What a step does to the signers and their signatures.
SignersMove ==
    \/ UNCHANGED Monitor!signerVars
    \/ Monitor!SignersNext
    \/ \E message \in Payload, sig \in Monitor!SignerSignature : Monitor!SignedOnce(message, sig)
    \/ \E message \in Payload, sigs \in Monitor!SignatureLists :
          Monitor!SignedByMany(message, sigs)

\* What a step does to the locks.
LocksMove ==
    \/ UNCHANGED <<lock, lock_history>>
    \/ \E caller \in Address, a \in Assets :
          Monitor!LockAsset(caller, a) \/ Monitor!UnlockAsset(caller, a)

\* The counter of the checkpoints stays, whatever else was recorded.
CountedElsewhere ==
    \/ UNCHANGED written
    \/ \E key \in Bridges \cup Pairs : written' = [written EXCEPT ![key] = @ + 1]

\* What a step does to the checkpoints: none, some are dropped, one is saved, one restored.
SnapshotsMove ==
    \/ /\ \/ UNCHANGED monitored
          \/ \E a \in Assets : monitored' = Append(monitored, a)
       /\ \/ UNCHANGED snapshots /\ CountedElsewhere
          \/ /\ \E before, after : snapshots' = Monitor!Dropped(snapshots, before, after)
             /\ CountedElsewhere
          \/ Monitor!Persisted(0)
    \/ \E caller \in Address, id \in Monitor!CheckpointId :
          Monitor!RestoreFromCheckpoint(caller, id)

Moves == SignersMove /\ LocksMove /\ SnapshotsMove

\* The checkpoint at the end of a call.
LEMMA AutoMoves ==
    ASSUME Monitor!AutoCheckpoint
    PROVE  \/ UNCHANGED snapshots /\ CountedElsewhere
           \/ Monitor!Persisted(0)
BY DEF Monitor!AutoCheckpoint, Monitor!retentionVars, Monitor!checkpointVars, CountedElsewhere

\* A call of the records and their clean-ups.
LEMMA RetentionMoves == Monitor!RetentionStep => Moves
<1> SUFFICES ASSUME Monitor!RetentionStep PROVE Moves
  OBVIOUS
<1>1. ASSUME Monitor!SnapshotsFollow, CountedElsewhere
      PROVE  Moves
  BY <1>1 DEF Monitor!SnapshotsFollow, Monitor!assetVars, Moves, SignersMove, LocksMove,
              SnapshotsMove
<1>2. ASSUME NEW bridge \in Bridges, NEW a \in MismatchAssets,
             Monitor!RecordSupplyMismatch(bridge, a)
      PROVE  CountedElsewhere
  BY <1>2 DEF Monitor!RecordSupplyMismatch, Monitor!Recorded, CountedElsewhere
<1>3. ASSUME NEW pair \in Pairs, Monitor!RecordLiquidityDepth(pair)
      PROVE  CountedElsewhere
  BY <1>3 DEF Monitor!RecordLiquidityDepth, Monitor!Recorded, CountedElsewhere
<1>4. ASSUME NEW caller \in Address, NEW k \in Monitor!Kind, NEW new \in RetentionPolicies,
             Monitor!SetRetentionPolicy(caller, k, new)
      PROVE  CountedElsewhere
  BY <1>4 DEF Monitor!SetRetentionPolicy, CountedElsewhere
<1>5. ASSUME NEW caller \in Address, NEW a, NEW k, NEW secs,
             Monitor!SetAssetRetentionOverride(caller, a, k, secs)
      PROVE  CountedElsewhere
  BY <1>5 DEF Monitor!SetAssetRetentionOverride, CountedElsewhere
<1>6. ASSUME NEW caller \in Address, NEW max, Monitor!CleanupOldData(caller, max)
      PROVE  CountedElsewhere
  BY <1>6 DEF Monitor!CleanupOldData, CountedElsewhere
<1>7. ASSUME NEW caller \in Address, NEW k, NEW max, Monitor!CleanupDataType(caller, k, max)
      PROVE  CountedElsewhere
  BY <1>7 DEF Monitor!CleanupDataType, CountedElsewhere
<1>8. ASSUME NEW caller \in Address, NEW new, Monitor!SetExpirationPolicy(caller, new)
      PROVE  CountedElsewhere
  BY <1>8 DEF Monitor!SetExpirationPolicy, CountedElsewhere
<1>9. ASSUME NEW caller \in Address, NEW max, Monitor!CleanupExpiredData(caller, max)
      PROVE  Moves
  BY <1>9 DEF Monitor!CleanupExpiredData, Monitor!checkpointVars, Moves, SignersMove,
              LocksMove, SnapshotsMove, CountedElsewhere
<1> QED
  BY <1>1, <1>2, <1>3, <1>4, <1>5, <1>6, <1>7, <1>8, <1>9 DEF Monitor!RetentionStep

\* A call that leaves signers and locks alone, and at most adds an asset.
LEMMA WritesMove ==
    ASSUME UNCHANGED Monitor!signerVars, UNCHANGED <<lock, lock_history>>,
           \/ UNCHANGED monitored
           \/ \E a \in Assets : monitored' = Append(monitored, a),
           Monitor!AutoCheckpoint \/ (UNCHANGED snapshots /\ CountedElsewhere)
    PROVE  Moves
BY AutoMoves DEF Moves, SignersMove, LocksMove, SnapshotsMove

\* A submission, signed or not, once its signatures are verified.
LEMMA SubmissionMoves ==
    ASSUME SignersMove,
           \/ \E caller, a, n : Monitor!HealthWritten(caller, a, n) \/ Monitor!PriceWritten(caller, a, n)
           \/ \E caller, items : Monitor!BatchWritten(caller, items)
    PROVE  Moves
<1>1. /\ UNCHANGED <<monitored, lock, lock_history>>
      /\ Monitor!AutoCheckpoint
  BY DEF Monitor!HealthWritten, Monitor!PriceWritten, Monitor!BatchWritten
<1> QED
  BY <1>1, AutoMoves DEF Moves, LocksMove, SnapshotsMove

\* A call by someone on the whole of the monitor.
LEMMA SettingsMove ==
    ASSUME NEW caller \in Address,
           \/ \E config \in Checkpointing : Monitor!SetCheckpointConfig(caller, config)
           \/ Monitor!CreateCheckpoint(caller)
           \/ \E id \in Monitor!CheckpointId : Monitor!RestoreFromCheckpoint(caller, id)
           \/ \E a \in Sources : Monitor!RegisterTrustedSource(caller, a)
                                 \/ Monitor!RevokeTrustedSource(caller, a)
           \/ \E w \in HealthWeights : Monitor!SetHealthWeights(caller, w)
           \/ \E config \in RiskConfigs : Monitor!SetRiskScoreConfig(caller, config)
    PROVE  Moves
<1>1. ASSUME NEW config \in Checkpointing, Monitor!SetCheckpointConfig(caller, config)
      PROVE  Moves
  BY <1>1 DEF Monitor!SetCheckpointConfig, Monitor!assetVars, Moves, SignersMove, LocksMove,
              SnapshotsMove, CountedElsewhere
<1>2. CASE Monitor!CreateCheckpoint(caller)
  BY <1>2 DEF Monitor!CreateCheckpoint, Monitor!assetVars, Moves, SignersMove, LocksMove,
              SnapshotsMove
<1>3. ASSUME NEW id \in Monitor!CheckpointId, Monitor!RestoreFromCheckpoint(caller, id)
      PROVE  Moves
  <2>1. UNCHANGED Monitor!signerVars /\ UNCHANGED <<lock, lock_history>>
    BY <1>3 DEF Monitor!RestoreFromCheckpoint
  <2> QED
    BY <1>3, <2>1 DEF Moves, SignersMove, LocksMove, SnapshotsMove
<1>4. ASSUME NEW a \in Sources,
             Monitor!RegisterTrustedSource(caller, a) \/ Monitor!RevokeTrustedSource(caller, a)
      PROVE  Moves
  BY <1>4, WritesMove DEF Monitor!RegisterTrustedSource, Monitor!RevokeTrustedSource,
                          Monitor!retentionVars, Monitor!checkpointVars, CountedElsewhere
<1>5. ASSUME NEW w \in HealthWeights, Monitor!SetHealthWeights(caller, w)
      PROVE  Moves
  BY <1>5, WritesMove DEF Monitor!SetHealthWeights
<1>6. ASSUME NEW config \in RiskConfigs, Monitor!SetRiskScoreConfig(caller, config)
      PROVE  Moves
  BY <1>6, WritesMove DEF Monitor!SetRiskScoreConfig
<1> QED
  BY <1>1, <1>2, <1>3, <1>4, <1>5, <1>6

\* A call by someone on one asset.
LEMMA AssetMoves ==
    ASSUME NEW caller \in Address, NEW a \in Assets,
           \/ Monitor!RegisterAsset(caller, a) \/ Monitor!PauseAsset(caller, a)
           \/ Monitor!UnpauseAsset(caller, a) \/ Monitor!DeregisterAsset(caller, a)
           \/ Monitor!LockAsset(caller, a) \/ Monitor!UnlockAsset(caller, a)
           \/ \E c, override : Monitor!SubmitCalculatedHealth(caller, a, c, override)
           \/ \E extra : Monitor!ExtendExpiration(caller, a, extra)
    PROVE  Moves
<1>1. CASE Monitor!RegisterAsset(caller, a)
  BY <1>1, WritesMove DEF Monitor!RegisterAsset
<1>2. CASE Monitor!PauseAsset(caller, a) \/ Monitor!UnpauseAsset(caller, a)
           \/ Monitor!DeregisterAsset(caller, a)
  BY <1>2, WritesMove DEF Monitor!PauseAsset, Monitor!UnpauseAsset, Monitor!DeregisterAsset,
                          Monitor!SetStatus
<1>3. CASE Monitor!LockAsset(caller, a) \/ Monitor!UnlockAsset(caller, a)
  <2>1. /\ UNCHANGED Monitor!signerVars /\ UNCHANGED <<monitored, snapshots>>
        /\ CountedElsewhere
    BY <1>3 DEF Monitor!LockAsset, Monitor!UnlockAsset, Monitor!retentionVars,
                Monitor!checkpointVars, CountedElsewhere
  <2> QED
    BY <1>3, <2>1 DEF Moves, SignersMove, LocksMove, SnapshotsMove
<1>4. ASSUME NEW c, NEW override, Monitor!SubmitCalculatedHealth(caller, a, c, override)
      PROVE  Moves
  BY <1>4, WritesMove DEF Monitor!SubmitCalculatedHealth
<1>5. ASSUME NEW extra, Monitor!ExtendExpiration(caller, a, extra)
      PROVE  Moves
  BY <1>5, WritesMove DEF Monitor!ExtendExpiration, Monitor!retentionVars,
                          Monitor!checkpointVars, CountedElsewhere
<1> QED
  BY <1>1, <1>2, <1>3, <1>4, <1>5

\* A submission by someone.
LEMMA SubmitMoves ==
    ASSUME NEW caller \in Address,
           \/ \E items \in Monitor!Items : Monitor!SubmitHealthBatch(caller, items)
           \/ \E items \in Monitor!Items, sigs \in Monitor!SignatureLists :
                 Monitor!SubmitHealthBatchSigned(caller, items, sigs)
           \/ \E a \in Assets, n \in Scores :
                 \/ Monitor!SubmitHealth(caller, a, n) \/ Monitor!SubmitPrice(caller, a, n)
                 \/ \E sig \in Monitor!SignerSignature :
                       \/ Monitor!SubmitHealthSigned(caller, a, n, sig)
                       \/ Monitor!SubmitPriceSigned(caller, a, n, sig)
    PROVE  Moves
<1>1. ASSUME NEW items \in Monitor!Items, Monitor!SubmitHealthBatch(caller, items)
      PROVE  Moves
  BY <1>1, SubmissionMoves DEF Monitor!SubmitHealthBatch, SignersMove
<1>2. ASSUME NEW items \in Monitor!Items, NEW sigs \in Monitor!SignatureLists,
             Monitor!SubmitHealthBatchSigned(caller, items, sigs)
      PROVE  Moves
  <2>1. items \in Payload
    BY DEF Payload
  <2> QED
    BY <1>2, <2>1, SubmissionMoves DEF Monitor!SubmitHealthBatchSigned, SignersMove
<1>3. ASSUME NEW a \in Assets, NEW n \in Scores,
             Monitor!SubmitHealth(caller, a, n) \/ Monitor!SubmitPrice(caller, a, n)
      PROVE  Moves
  BY <1>3, SubmissionMoves DEF Monitor!SubmitHealth, Monitor!SubmitPrice, SignersMove
<1>4. ASSUME NEW a \in Assets, NEW n \in Scores, NEW sig \in Monitor!SignerSignature,
             \/ Monitor!SubmitHealthSigned(caller, a, n, sig)
             \/ Monitor!SubmitPriceSigned(caller, a, n, sig)
      PROVE  Moves
  <2>1. <<<<a, n>>>> \in Payload /\ <<<<a, n, "price">>>> \in Payload
    BY DEF Payload
  <2>2. SignersMove
    BY <1>4, <2>1 DEF Monitor!SubmitHealthSigned, Monitor!SubmitPriceSigned, SignersMove
  <2> QED
    BY <1>4, <2>2, SubmissionMoves DEF Monitor!SubmitHealthSigned, Monitor!SubmitPriceSigned
<1> QED
  BY <1>1, <1>2, <1>3, <1>4

\* Every step is one of these.
LEMMA StepMoves == [Monitor!Next]_(Monitor!vars) => Moves
<1> SUFFICES ASSUME [Monitor!Next]_(Monitor!vars) PROVE Moves
  OBVIOUS
<1>1. CASE UNCHANGED Monitor!vars
  BY <1>1, WritesMove DEF Monitor!vars, Monitor!assetVars, Monitor!retentionVars,
                          Monitor!checkpointVars, CountedElsewhere
<1>2. CASE Monitor!RetentionStep
  BY <1>2, RetentionMoves
<1>3. CASE Monitor!BaseStep
  BY <1>3, WritesMove DEF Monitor!BaseStep, Monitor!assetVars, Monitor!retentionVars,
                          Monitor!checkpointVars, CountedElsewhere
<1>4. CASE Monitor!SignerStep
  <2>1. /\ UNCHANGED <<lock, lock_history>> /\ UNCHANGED <<monitored, snapshots>>
        /\ CountedElsewhere
    BY <1>4 DEF Monitor!SignerStep, Monitor!assetVars, Monitor!retentionVars,
                Monitor!checkpointVars, CountedElsewhere
  <2>2. SignersMove
    BY <1>4 DEF Monitor!SignerStep, SignersMove
  <2> QED
    BY <2>1, <2>2 DEF Moves, LocksMove, SnapshotsMove
<1>5. ASSUME Monitor!Next, ~Monitor!RetentionStep, ~Monitor!BaseStep, ~Monitor!SignerStep
      PROVE  Moves
  BY <1>5, SettingsMove, AssetMoves, SubmitMoves DEF Monitor!Next
<1> QED
  BY <1>1, <1>2, <1>3, <1>4, <1>5
-----------------------------------------------------------------------------
\* What verify_signature works on, while nothing was refused: every nonce taken of a
\* signer is at most the last, they were taken in their order, and of each payload, those
\* in the cache included, the first signature taken was genuine.
Take == [message : Payload, sig : Monitor!SignerSignature]
Book ==
    [nonce : [SignerId -> 0 .. MaxNonce], cache : SUBSET Payload, taken : Seq(Take),
     ok : BOOLEAN]
NoncesSpent(book) ==
    \A i \in DOMAIN book.taken :
        book.taken[i].sig.nonce <= book.nonce[book.taken[i].sig.signer_id]
TakenOnce(book) ==
    \A i, j \in DOMAIN book.taken :
        i < j => \/ book.taken[i].sig.signer_id # book.taken[j].sig.signer_id
                 \/ book.taken[i].sig.nonce < book.taken[j].sig.nonce
Earned(book) ==
    /\ \A message \in book.cache :
          \E i \in DOMAIN book.taken :
              book.taken[i].message = message /\ book.taken[i].sig.genuine
    /\ \A j \in DOMAIN book.taken :
          \E i \in 1 .. j : /\ book.taken[i].message = book.taken[j].message
                            /\ book.taken[i].sig.genuine
Kept(book) == NoncesSpent(book) /\ TakenOnce(book) /\ Earned(book)
SoundBooks == {book \in Book : book.ok => Kept(book)}

\* A signature that verify_signature takes has a nonce above those it took before, and is
\* genuine or of a payload that came with a genuine one; one it refuses spoils the book.
LEMMA VerifiedSound ==
    ASSUME MaxNonce \in Nat, NEW book \in SoundBooks, NEW message \in Payload,
           NEW sig \in Monitor!SignerSignature
    PROVE  Monitor!Verified(book, message, sig) \in SoundBooks
<1> DEFINE t == [message |-> message, sig |-> sig]
<1>1. PICK next : next = Monitor!Verified(book, message, sig)
  OBVIOUS
<1>2. /\ sig.signer_id \in SignerId /\ sig.nonce \in 0 .. MaxNonce /\ sig.genuine \in BOOLEAN
      /\ t \in Take
  BY DEF Monitor!SignerSignature, Take
<1>3. PICK old, n, c : /\ old = book.taken /\ n = book.nonce /\ c = book.cache
                       /\ old \in Seq(Take) /\ n \in [SignerId -> 0 .. MaxNonce]
                       /\ c \subseteq Payload
  BY DEF SoundBooks, Book
<1>4. PICK new : new = Append(old, t)
  OBVIOUS
<1> HIDE DEF t
<1>5. /\ new \in Seq(Take) /\ Len(new) = Len(old) + 1 /\ new[Len(old) + 1] = t
      /\ \A i \in 1 .. Len(old) : new[i] = old[i]
      /\ DOMAIN new = 1 .. Len(old) + 1 /\ DOMAIN old = 1 .. Len(old) /\ Len(old) \in Nat
  BY ONLY <1>2, <1>3, <1>4
<1>6. t.message = message /\ t.sig = sig
  BY DEF t
<1>7. /\ next.nonce = [n EXCEPT ![sig.signer_id] = sig.nonce]
      /\ next.cache = c \cup {message} /\ next.taken = new
      /\ next.ok \in BOOLEAN
      /\ next.ok => /\ book.ok /\ sig.nonce > n[sig.signer_id]
                    /\ message \in c \/ sig.genuine
  <2>1. next.ok \in BOOLEAN
    BY <1>1, Zenon DEF Monitor!Verified
  <2> QED
    BY <1>1, <1>3, <1>4, <2>1 DEF Monitor!Verified, t
<1>8. next.nonce \in [SignerId -> 0 .. MaxNonce]
  BY <1>2, <1>3, <1>7
<1>9. next \in Book
  <2>1. next = [nonce |-> next.nonce, cache |-> next.cache, taken |-> next.taken,
                ok |-> next.ok]
    BY <1>1 DEF Monitor!Verified
  <2>2. next.cache \subseteq Payload
    BY <1>3, <1>7
  <2> QED
    BY <1>5, <1>7, <1>8, <2>1, <2>2 DEF Book
<1>10. ASSUME next.ok
       PROVE  Kept(next)
  <2>1. /\ \A i \in 1 .. Len(old) : old[i].sig.nonce <= n[old[i].sig.signer_id]
        /\ TakenOnce(book) /\ Earned(book)
        /\ sig.nonce > n[sig.signer_id]
    BY <1>3, <1>5, <1>7, <1>10 DEF SoundBooks, Kept, NoncesSpent
  <2>2. \A i \in 1 .. Len(old) : /\ old[i].sig.nonce \in 0 .. MaxNonce
                                 /\ old[i].sig.signer_id \in SignerId
    <3>1. ASSUME NEW i \in 1 .. Len(old)
          PROVE  old[i].sig.nonce \in 0 .. MaxNonce /\ old[i].sig.signer_id \in SignerId
      <4>1. old[i] \in Take
        BY <1>3, <1>5, <3>1
      <4>2. old[i].sig \in Monitor!SignerSignature
        BY <4>1 DEF Take
      <4> QED
        BY <4>2 DEF Monitor!SignerSignature
    <3> QED
      BY <3>1
  <2>3. \A i \in 1 .. Len(old) : old[i].sig.signer_id # sig.signer_id
                                 \/ old[i].sig.nonce < sig.nonce
    BY <1>2, <1>3, <2>1, <2>2, SMTT(30)
  <2>4. NoncesSpent(next)
    <3>1. ASSUME NEW i \in 1 .. Len(old) + 1
          PROVE  new[i].sig.nonce <= next.nonce[new[i].sig.signer_id]
      <4>1. CASE i = Len(old) + 1
        BY <1>2, <1>3, <1>5, <1>6, <1>7, <4>1
      <4>2. CASE i \in 1 .. Len(old) /\ old[i].sig.signer_id = sig.signer_id
        <5>1. new[i] = old[i] /\ next.nonce[sig.signer_id] = sig.nonce
          BY <1>2, <1>3, <1>5, <1>7, <4>2
        <5> QED
          BY <1>2, <2>2, <2>3, <4>2, <5>1
      <4>3. CASE i \in 1 .. Len(old) /\ old[i].sig.signer_id # sig.signer_id
        <5>1. /\ new[i] = old[i]
              /\ next.nonce[old[i].sig.signer_id] = n[old[i].sig.signer_id]
          BY <1>2, <1>3, <1>5, <1>7, <2>2, <4>3
        <5> QED
          BY <2>1, <4>3, <5>1
      <4> QED
        BY <1>5, <3>1, <4>1, <4>2, <4>3
    <3> QED
      BY <1>5, <1>7, <3>1 DEF NoncesSpent
  <2>5. TakenOnce(next)
    <3>1. ASSUME NEW i \in 1 .. Len(old) + 1, NEW j \in 1 .. Len(old) + 1, i < j
          PROVE  \/ new[i].sig.signer_id # new[j].sig.signer_id
                 \/ new[i].sig.nonce < new[j].sig.nonce
      <4>1. CASE i \in 1 .. Len(old) /\ j \in 1 .. Len(old)
        <5>1. \/ old[i].sig.signer_id # old[j].sig.signer_id
              \/ old[i].sig.nonce < old[j].sig.nonce
          BY <1>3, <1>5, <2>1, <3>1, <4>1 DEF TakenOnce
        <5> QED
          BY <1>5, <4>1, <5>1
      <4>2. CASE i \in 1 .. Len(old) /\ j = Len(old) + 1
        <5>1. new[i] = old[i] /\ new[j].sig = sig
          BY <1>5, <1>6, <4>2
        <5> QED
          BY <1>2, <2>2, <2>3, <4>2, <5>1
      <4> QED
        BY <1>5, <3>1, <4>1, <4>2
    <3> QED
      BY <1>5, <1>7, <3>1 DEF TakenOnce
  <2>6. Earned(next)
    <3>1. ASSUME NEW m \in c
          PROVE  \E i \in 1 .. Len(old) + 1 : new[i].message = m /\ new[i].sig.genuine
      <4>1. PICK i \in 1 .. Len(old) : old[i].message = m /\ old[i].sig.genuine
        BY <1>3, <1>5, <2>1, <3>1 DEF Earned
      <4>2. i \in 1 .. Len(old) + 1 /\ new[i] = old[i]
        BY <1>5, <4>1
      <4> QED
        BY <4>1, <4>2
    <3>2. ASSUME sig.genuine
          PROVE  \E i \in 1 .. Len(old) + 1 : new[i].message = message /\ new[i].sig.genuine
      <4>1. Len(old) + 1 \in 1 .. Len(old) + 1
        BY <1>5
      <4> QED
        BY <1>5, <1>6, <3>2, <4>1
    <3>3. message \in c \/ sig.genuine
      BY <1>7, <1>10
    <3>4. \A m \in next.cache :
              \E i \in 1 .. Len(old) + 1 : new[i].message = m /\ new[i].sig.genuine
      BY <1>7, <3>1, <3>2, <3>3
    <3>5. ASSUME NEW j \in 1 .. Len(old) + 1
          PROVE  \E i \in 1 .. j : new[i].message = new[j].message /\ new[i].sig.genuine
      <4>1. CASE j \in 1 .. Len(old)
        <5>1. PICK i \in 1 .. j : old[i].message = old[j].message /\ old[i].sig.genuine
          BY <1>3, <1>5, <2>1, <4>1 DEF Earned
        <5>2. i \in 1 .. Len(old)
          BY <1>5, <4>1, <5>1
        <5>3. new[i] = old[i] /\ new[j] = old[j]
          BY <1>5, <4>1, <5>2
        <5> QED
          BY <5>1, <5>3
      <4>2. CASE j = Len(old) + 1
        <5>1. new[j].message = message /\ message \in next.cache
          BY <1>5, <1>6, <1>7, <4>2
        <5> QED
          BY <3>4, <4>2, <5>1
      <4> QED
        BY <1>5, <3>5, <4>1, <4>2
    <3> QED
      BY <1>5, <1>7, <3>4, <3>5 DEF Earned
  <2> QED
    BY <2>4, <2>5, <2>6 DEF Kept
<1> QED
  BY <1>1, <1>9, <1>10 DEF SoundBooks

\* The table by which verify_multi_sig is defined.
VerifyTable(message, sigs) ==
    CHOOSE t : t = [s \in SUBSET DOMAIN sigs |->
        IF s = {} THEN Monitor!Ledger
        ELSE Monitor!Verified(t[s \ {Max(s)}], message, sigs[Max(s)])]

\* What verify_multi_sig leaves, as a recursive function.
LEMMA VerifiedUnfolded ==
    ASSUME NEW message, NEW sigs, Monitor!SignedByMany(message, sigs)
    PROVE  Monitor!Written(VerifyTable(message, sigs)[DOMAIN sigs])
BY Zenon DEF Monitor!SignedByMany, Monitor!FoldLeft, Monitor!MapThenFoldSet, Monitor!Max, Max,
       VerifyTable, Monitor!Verified

\* Any number of signatures, verified in their turn, leave a sound book or a refusal.
LEMMA ManySound ==
    ASSUME MaxNonce \in Nat, NEW message \in Payload, NEW n \in Nat,
           NEW sigs \in [1 .. n -> Monitor!SignerSignature], Monitor!Ledger \in SoundBooks
    PROVE  VerifyTable(message, sigs)[DOMAIN sigs] \in SoundBooks
<1> DEFINE S == 1 .. n
           pick == [s \in SUBSET S |-> Max(s)]
           step == [p \in S \X SoundBooks |-> Monitor!Verified(p[2], message, sigs[p[1]])]
           Next1(t, s) == Monitor!Verified(t[s \ {Max(s)}], message, sigs[Max(s)])
           Tabled(t) == t = [s \in SUBSET S |-> IF s = {} THEN Monitor!Ledger ELSE Next1(t, s)]
           T == VerifyTable(message, sigs)
<1>1. IsFiniteSet(S)
  BY FS_Interval
<1>2. \A s \in SUBSET S : pick[s] = Max(s) /\ (s # {} => pick[s] \in s)
  BY MaxIsLargest
<1>3. ASSUME NEW k \in S, NEW b \in SoundBooks
      PROVE  /\ Monitor!Verified(b, message, sigs[k]) \in SoundBooks
             /\ step[<<k, b>>] = Monitor!Verified(b, message, sigs[k])
  BY VerifiedSound
<1>4. step \in [S \X SoundBooks -> SoundBooks]
  BY <1>3
<1> HIDE DEF pick, step
<1>5. \E t : Tabled(t)
  <2>1. PICK t \in [SUBSET S -> SoundBooks] : Folds(t, Monitor!Ledger, pick, step, S)
    <3>1. Picks(pick, S)
      BY <1>2 DEF Picks
    <3> HIDE DEF S
    <3> QED
      BY <1>1, <1>4, <3>1, FoldTable
  <2>2. ASSUME NEW s \in SUBSET S
        PROVE  t[s] = IF s = {} THEN Monitor!Ledger ELSE Next1(t, s)
    <3>1. CASE s # {}
      <4>1. Max(s) \in S /\ t[s \ {Max(s)}] \in SoundBooks
        BY <1>2, <2>1, <3>1
      <4>2. t[s] = step[<<Max(s), t[s \ {Max(s)}]>>]
        BY <1>2, <2>1, <3>1 DEF Fold, Folds
      <4> HIDE DEF S
      <4> QED
        BY <1>3, <3>1, <4>1, <4>2
    <3> QED
      BY <2>1, <3>1 DEF Fold, Folds
  <2> HIDE DEF Next1
  <2> QED
    BY <2>1, <2>2
<1>6. Tabled(T)
  <2>1. DOMAIN sigs = S
    OBVIOUS
  <2>2. T = CHOOSE t : Tabled(t)
    BY <2>1 DEF VerifyTable
  <2> HIDE DEF Tabled, T
  <2> QED
    BY <1>5, <2>2
<1>7. T[{}] = Monitor!Ledger
  BY <1>6
<1>8. ASSUME NEW s \in SUBSET S, s # {}, T[s \ {pick[s]}] \in SoundBooks
      PROVE  T[s] = step[<<pick[s], T[s \ {pick[s]}]>>]
  <2>1. pick[s] = Max(s) /\ Max(s) \in S
    BY <1>2, <1>8
  <2>2. T[s] = Next1(T, s)
    BY <1>6, <1>8
  <2> HIDE DEF S, T
  <2> QED
    BY <1>3, <1>8, <2>1, <2>2
<1>9. \A s \in SUBSET S : T[s] \in SoundBooks
  <2>1. Picks(pick, S) /\ Follows(T, pick, step, S, SoundBooks)
    <3> HIDE DEF S, T
    <3> QED
      BY <1>2, <1>8 DEF Picks, Follows
  <2> HIDE DEF S, T
  <2> QED
    BY <1>1, <1>4, <1>7, <2>1, FoldTyped
<1> QED
  BY <1>9
-----------------------------------------------------------------------------
\* The signers as verify_signature finds them.
SignersInv ==
    /\ signer \in [SignerId -> {"none", "active", "removed"}]
    /\ sig_threshold \in Nat \ {0}
    /\ Monitor!Ledger \in SoundBooks

\* The book of a call that is carried out is the state after it.
LEMMA WrittenSound ==
    ASSUME NEW book \in SoundBooks, Monitor!Written(book)
    PROVE  Monitor!Ledger' \in SoundBooks
<1>1. PICK b : b = book
  OBVIOUS
<1>2. /\ b \in Book /\ b.ok = TRUE /\ Kept(b)
      /\ nonce' = b.nonce /\ sig_cache' = b.cache /\ taken' = b.taken
  BY <1>1 DEF SoundBooks, Book, Monitor!Written
<1>3. b = [nonce |-> b.nonce, cache |-> b.cache, taken |-> b.taken, ok |-> TRUE]
  BY <1>2 DEF Book
<1>4. Monitor!Ledger' = [nonce |-> nonce', cache |-> sig_cache', taken |-> taken', ok |-> TRUE]
  BY DEF Monitor!Ledger
<1>5. Monitor!Ledger' = b
  BY <1>2, <1>3, <1>4
<1>6. b \in SoundBooks
  BY <1>1
<1> QED
  BY <1>5, <1>6 DEF SoundBooks, Book, Kept, NoncesSpent, TakenOnce, Earned

\* The ledger of the signers is unchanged when its parts are.
LEMMA LedgerSame ==
    ASSUME Monitor!Ledger \in SoundBooks, UNCHANGED <<nonce, sig_cache, taken>>
    PROVE  Monitor!Ledger' \in SoundBooks
BY DEF Monitor!Ledger, SoundBooks, Book, Kept, NoncesSpent, TakenOnce, Earned

\* One signature, or several, taken by any call.
LEMMA OnceKeeps ==
    ASSUME SignersInv, MaxNonce \in Nat, NEW message \in Payload,
           \/ \E sig \in Monitor!SignerSignature : Monitor!SignedOnce(message, sig)
           \/ \E sigs \in Monitor!SignatureLists \cup (Monitor!SignerSignature \X Monitor!SignerSignature) :
                 Monitor!SignedByMany(message, sigs)
    PROVE  SignersInv'
<1>1. ASSUME NEW book \in SoundBooks, Monitor!Written(book)
      PROVE  SignersInv'
  BY <1>1, WrittenSound DEF SignersInv, Monitor!Written
<1>2. ASSUME NEW sig \in Monitor!SignerSignature, Monitor!SignedOnce(message, sig)
      PROVE  SignersInv'
  <2>1. Monitor!Verified(Monitor!Ledger, message, sig) \in SoundBooks
    BY VerifiedSound DEF SignersInv
  <2> QED
    BY <1>1, <1>2, <2>1 DEF Monitor!SignedOnce
<1>3. ASSUME NEW sigs \in Monitor!SignatureLists \cup (Monitor!SignerSignature \X Monitor!SignerSignature),
             Monitor!SignedByMany(message, sigs)
      PROVE  SignersInv'
  <2>1. \E n \in Nat : sigs \in [1 .. n -> Monitor!SignerSignature]
    <3>1. CASE \E sig \in Monitor!SignerSignature : sigs = <<sig>>
      <4>1. sigs \in [1 .. 1 -> Monitor!SignerSignature]
        BY <3>1
      <4> QED
        BY <4>1
    <3>2. CASE sigs \in Monitor!SignerSignature \X Monitor!SignerSignature
      <4>1. sigs \in [1 .. 2 -> Monitor!SignerSignature]
        BY <3>2
      <4> QED
        BY <4>1
    <3> QED
      BY <3>1, <3>2 DEF Monitor!SignatureLists
  <2>2. VerifyTable(message, sigs)[DOMAIN sigs] \in SoundBooks
    BY <2>1, ManySound DEF SignersInv
  <2> QED
    BY <1>1, <1>3, <2>2, VerifiedUnfolded
<1> QED
  BY <1>2, <1>3

\* Every step keeps the signers and their signatures sound.
LEMMA SignersKeep ==
    ASSUME SignersInv, SignersMove, Monitor!MonitorConstants
    PROVE  SignersInv'
<1>1. MaxNonce \in Nat /\ Thresholds \subseteq Nat
  BY DEF Monitor!MonitorConstants
<1>2. ASSUME signer' \in [SignerId -> {"none", "active", "removed"}],
             sig_threshold' \in Nat \ {0}, UNCHANGED <<nonce, sig_cache, taken>>
      PROVE  SignersInv'
  BY <1>2, LedgerSame DEF SignersInv
<1>3. CASE UNCHANGED Monitor!signerVars
  BY <1>2, <1>3 DEF Monitor!signerVars, SignersInv
<1>4. ASSUME NEW message \in Payload, NEW sig \in Monitor!SignerSignature,
             Monitor!SignedOnce(message, sig)
      PROVE  SignersInv'
  BY <1>1, <1>4, OnceKeeps
<1>5. ASSUME NEW message \in Payload, NEW sigs \in Monitor!SignatureLists,
             Monitor!SignedByMany(message, sigs)
      PROVE  SignersInv'
  BY <1>1, <1>5, OnceKeeps
<1>6. ASSUME NEW caller \in Address, NEW id \in SignerId,
             Monitor!RegisterSigner(caller, id) \/ Monitor!RemoveSigner(caller, id)
      PROVE  SignersInv'
  BY <1>2, <1>6 DEF Monitor!RegisterSigner, Monitor!RemoveSigner, SignersInv
<1>7. ASSUME NEW caller \in Address, NEW threshold \in Thresholds,
             Monitor!SetSignatureThreshold(caller, threshold)
      PROVE  SignersInv'
  <2>1. sig_threshold' = threshold /\ threshold \in Nat /\ threshold >= 1
        /\ UNCHANGED <<signer, nonce, sig_cache, taken>>
    BY <1>1, <1>7 DEF Monitor!SetSignatureThreshold
  <2> QED
    BY <1>2, <2>1 DEF SignersInv
<1>8. CASE Monitor!SignersNext
  <2>1. Message \subseteq Payload
    BY DEF Payload
  <2>2. \A first, second \in Monitor!SignerSignature :
            <<first, second>> \in Monitor!SignerSignature \X Monitor!SignerSignature
    OBVIOUS
  <2> QED
    BY <1>1, <1>4, <1>6, <1>7, <1>8, <2>1, <2>2, OnceKeeps
       DEF Monitor!SignersNext, Monitor!VerifySignature, Monitor!VerifyMultiSig
<1> QED
  BY <1>3, <1>4, <1>5, <1>8 DEF SignersMove

\* What the properties of the signatures say, by the book.
LEMMA SignersChecked ==
    ASSUME SignersInv
    PROVE  Monitor!SignersTypeOK /\ Monitor!SignaturesOnce /\ Monitor!CacheEarned
<1>1. /\ taken \in Seq(Take) /\ nonce \in [SignerId -> 0 .. MaxNonce]
      /\ TakenOnce(Monitor!Ledger) /\ Earned(Monitor!Ledger)
  BY DEF SignersInv, SoundBooks, Book, Kept, Monitor!Ledger
<1>2. Monitor!SignaturesOnce
  BY <1>1 DEF TakenOnce, Monitor!SignaturesOnce, Monitor!Ledger
<1>3. Monitor!CacheEarned
  BY <1>1 DEF Earned, Monitor!CacheEarned, Monitor!Ledger
<1>4. Monitor!SignersTypeOK
  <2>1. sig_cache \subseteq {t.message : t \in Monitor!Range(taken)}
    BY <1>1 DEF Earned, Monitor!Ledger, Monitor!Range
  <2> QED
    BY <1>1, <2>1 DEF Monitor!SignersTypeOK, SignersInv
<1> QED
  BY <1>2, <1>3, <1>4
-----------------------------------------------------------------------------
\* The lock of an asset and the story of its locks.
LocksInv ==
    /\ lock \in [Assets -> {"none", "locked", "unlocked"}]
    /\ lock_history \in [Assets -> Seq(BOOLEAN)]
    /\ Monitor!LockHistoryTrue

\* A list without entries is the empty one.
LEMMA NoEntry ==
    ASSUME NEW S, NEW s \in Seq(S), Len(s) = 0
    PROVE  s = <<>>
OBVIOUS

\* An asset is locked after an odd number of entries.
LEMMA LockedWhenOdd ==
    ASSUME LocksInv, NEW a \in Assets
    PROVE  (lock[a] = "locked") <=> (Len(lock_history[a]) % 2 = 1)
<1>1. PICK h \in Seq(BOOLEAN) : h = lock_history[a]
  BY DEF LocksInv
<1>2. PICK n \in Nat : n = Len(h)
  OBVIOUS
<1>3. CASE n = 0
  <2>1. h = <<>>
    BY <1>2, <1>3, NoEntry
  <2>2. lock[a] # "locked"
    BY <1>1, <2>1 DEF LocksInv, Monitor!LockHistoryTrue
  <2>3. ~(n % 2 = 1)
    BY ONLY <1>3
  <2> QED
    BY <1>1, <1>2, <2>2, <2>3
<1>4. CASE n # 0
  <2>1. n \in DOMAIN h /\ h # <<>>
    BY <1>2, <1>4
  <2>2. h[n] = (n % 2 = 1)
    BY <1>1, <2>1 DEF LocksInv, Monitor!LockHistoryTrue
  <2> QED
    BY <1>1, <1>2, <2>1, <2>2 DEF LocksInv, Monitor!LockHistoryTrue, Monitor!Last
<1> QED
  BY <1>3, <1>4

\* Every step keeps the locks and their story together.
LEMMA LocksKeep ==
    ASSUME LocksInv, LocksMove
    PROVE  LocksInv'
<1>1. CASE UNCHANGED <<lock, lock_history>>
  BY <1>1 DEF LocksInv, Monitor!LockHistoryTrue
<1>2. ASSUME NEW a \in Assets, NEW new \in {"locked", "unlocked"}, NEW entry \in BOOLEAN,
             entry <=> new = "locked", (lock[a] = "locked") <=> ~entry,
             lock' = [lock EXCEPT ![a] = new],
             lock_history' = [lock_history EXCEPT ![a] = Append(lock_history[a], entry)]
      PROVE  LocksInv'
  <2>1. PICK h \in Seq(BOOLEAN) : h = lock_history[a]
    BY DEF LocksInv
  <2>2. PICK n \in Nat : n = Len(h)
    OBVIOUS
  <2>3. PICK g : g = Append(h, entry)
    OBVIOUS
  <2>4. /\ g \in Seq(BOOLEAN) /\ Len(g) = n + 1 /\ g[n + 1] = entry
        /\ DOMAIN g = 1 .. n + 1 /\ DOMAIN h = 1 .. n
        /\ \A i \in 1 .. n : g[i] = h[i]
    BY <2>2, <2>3
  <2>5. entry <=> (n + 1) % 2 = 1
    <3>1. (lock[a] = "locked") <=> n % 2 = 1
      BY <2>1, <2>2, LockedWhenOdd
    <3>2. n % 2 = 1 <=> ~((n + 1) % 2 = 1)
      BY ONLY n \in Nat
    <3> QED
      BY <1>2, <3>1, <3>2
  <2>6. /\ lock' \in [Assets -> {"none", "locked", "unlocked"}]
        /\ lock_history' \in [Assets -> Seq(BOOLEAN)]
        /\ lock'[a] = new /\ lock_history'[a] = g
        /\ \A b \in Assets : b # a => lock'[b] = lock[b] /\ lock_history'[b] = lock_history[b]
    BY <1>2, <2>1, <2>3, <2>4 DEF LocksInv
  <2>7. /\ \A i \in DOMAIN g : g[i] = (i % 2 = 1)
        /\ g # <<>> /\ Monitor!Last(g) = entry
    <3>1. \A i \in 1 .. n : h[i] = (i % 2 = 1)
      BY <2>1, <2>4 DEF LocksInv, Monitor!LockHistoryTrue
    <3>2. g[n + 1] = ((n + 1) % 2 = 1)
      BY <2>4, <2>5
    <3>3. ASSUME NEW i \in DOMAIN g PROVE g[i] = (i % 2 = 1)
      <4>1. i = n + 1 \/ i \in 1 .. n
        BY <2>4
      <4> QED
        BY <2>4, <3>1, <3>2, <4>1
    <3>4. g # <<>> /\ Monitor!Last(g) = entry
      BY <2>4 DEF Monitor!Last
    <3> QED
      BY <3>3, <3>4
  <2>8. ASSUME NEW b \in Assets
        PROVE  /\ \A i \in DOMAIN lock_history'[b] : lock_history'[b][i] = (i % 2 = 1)
               /\ (lock'[b] = "locked") =
                     (lock_history'[b] # <<>> /\ Monitor!Last(lock_history'[b]))
    <3>1. CASE b = a
      BY <1>2, <2>6, <2>7, <3>1
    <3>2. CASE b # a
      BY <2>6, <3>2 DEF LocksInv, Monitor!LockHistoryTrue
    <3> QED
      BY <3>1, <3>2
  <2> QED
    BY <2>6, <2>8 DEF LocksInv, Monitor!LockHistoryTrue, Monitor!Last
<1>3. ASSUME NEW caller, NEW a \in Assets, Monitor!LockAsset(caller, a)
      PROVE  LocksInv'
  BY <1>2, <1>3 DEF Monitor!LockAsset
<1>4. ASSUME NEW caller, NEW a \in Assets, Monitor!UnlockAsset(caller, a)
      PROVE  LocksInv'
  BY <1>2, <1>4 DEF Monitor!UnlockAsset
<1> QED
  BY <1>1, <1>3, <1>4 DEF LocksMove
-----------------------------------------------------------------------------
\* The checkpoints: their numbers are those used so far, each restored from one before it.
CheckpointsInv ==
    /\ written \in [Monitor!Key -> Nat]
    /\ monitored \in Seq(Assets)
    /\ snapshots = [id \in Monitor!CheckpointId |-> snapshots[id]]
    /\ \A id \in Monitor!CheckpointId : snapshots[id] # Monitor!Nothing =>
          /\ id <= written[Monitor!CheckpointList]
          /\ snapshots[id].monitored \in Seq(Assets)
          /\ snapshots[id].restored_from \in 0 .. id - 1
    /\ Monitor!RestoreExact

\* The snapshot made of the state after a call.
NewSnapshot(from) ==
    [monitored |-> monitored', health |-> health', price |-> price', result |-> result',
     weights |-> weights', risk |-> risk', restored_from |-> from, expires_at |-> 0]

\* A checkpoint is saved as number id, and those of gone are dropped.
Saves(id, gone, from) ==
    /\ id = written[Monitor!CheckpointList] + 1
    /\ written' \in [Monitor!Key -> Nat]
    /\ written'[Monitor!CheckpointList] = id
    /\ snapshots' = [j \in Monitor!CheckpointId |->
                        IF j \in gone THEN Monitor!Nothing
                        ELSE IF j = id THEN NewSnapshot(from) ELSE snapshots[j]]

\* A checkpoint saved takes the next number; others may be dropped, none changes.
LEMMA PersistedShape ==
    ASSUME CheckpointsInv, Monitor!MonitorConstants, NEW from, Monitor!Persisted(from)
    PROVE  \E id \in Monitor!CheckpointId : \E gone : Saves(id, gone, from)
<1>1. Monitor!CheckpointList \in Monitor!Key
  BY DEF Monitor!Key
<1>2. PICK n \in Nat : n = written[Monitor!CheckpointList]
  BY <1>1 DEF CheckpointsInv
<1>3. /\ n < MaxRecords /\ written' = [written EXCEPT ![Monitor!CheckpointList] = n + 1]
      /\ \E before, after :
            snapshots' = Monitor!Dropped([snapshots EXCEPT ![n + 1] = NewSnapshot(from)],
                                         before, after)
  <2>1. /\ written[Monitor!CheckpointList] < MaxRecords
        /\ written' = [written EXCEPT ![Monitor!CheckpointList] =
                          written[Monitor!CheckpointList] + 1]
    BY DEF Monitor!Persisted
  <2>2. \E before, after :
            snapshots' = Monitor!Dropped([snapshots EXCEPT
                                ![written[Monitor!CheckpointList] + 1] = NewSnapshot(from)],
                                         before, after)
    BY DEF Monitor!Persisted, NewSnapshot
  <2> QED
    BY <1>2, <2>1, <2>2
<1>4. n + 1 \in Monitor!CheckpointId
  <2>1. MaxRecords \in Nat
    BY DEF Monitor!MonitorConstants
  <2> QED
    BY <1>3, <2>1 DEF Monitor!CheckpointId
<1>5. PICK before, after :
          snapshots' = Monitor!Dropped([snapshots EXCEPT ![n + 1] = NewSnapshot(from)],
                                       before, after)
  BY <1>3
<1>6. PICK gone : gone = Monitor!Ids(before) \ Monitor!Ids(after)
  OBVIOUS
<1>7. snapshots' = [j \in Monitor!CheckpointId |->
                       IF j \in gone THEN Monitor!Nothing
                       ELSE IF j = n + 1 THEN NewSnapshot(from) ELSE snapshots[j]]
  <2>1. snapshots' = [j \in Monitor!CheckpointId |->
                         IF j \in gone THEN Monitor!Nothing
                         ELSE [snapshots EXCEPT ![n + 1] = NewSnapshot(from)][j]]
    BY <1>5, <1>6 DEF Monitor!Dropped
  <2>2. \A j \in Monitor!CheckpointId :
            [snapshots EXCEPT ![n + 1] = NewSnapshot(from)][j] =
                IF j = n + 1 THEN NewSnapshot(from) ELSE snapshots[j]
    BY DEF CheckpointsInv
  <2> QED
    BY <2>1, <2>2
<1>8. written' \in [Monitor!Key -> Nat] /\ written'[Monitor!CheckpointList] = n + 1
  BY <1>1, <1>2, <1>3 DEF CheckpointsInv
<1>9. Saves(n + 1, gone, from)
  BY <1>2, <1>7, <1>8 DEF Saves
<1> QED
  BY <1>4, <1>9

\* What a restored checkpoint shares with the one it was restored from.
SharesWith(snap, then) ==
    /\ then.monitored = snap.monitored
    /\ then.weights = snap.weights /\ then.risk = snap.risk
    /\ \A a \in Monitor!Range(then.monitored) :
          /\ then.health[a] = snap.health[a]
          /\ then.price[a] = snap.price[a]
          /\ then.result[a] = snap.result[a]

\* Dropping checkpoints and saving one that shares what it is to share keeps the others.
LEMMA SavedKeepsExact ==
    ASSUME CheckpointsInv, Monitor!MonitorConstants, NEW from, Monitor!Persisted(from),
           monitored' \in Seq(Assets), from \in 0 .. written[Monitor!CheckpointList],
           from # 0 => /\ from \in Monitor!CheckpointId
                       /\ SharesWith(NewSnapshot(from), snapshots[from])
    PROVE  CheckpointsInv'
<1>0. PICK id \in Monitor!CheckpointId : \E gone : Saves(id, gone, from)
  BY PersistedShape
<1>s. PICK gone : Saves(id, gone, from)
  BY <1>0
<1>1. /\ id = written[Monitor!CheckpointList] + 1
      /\ written' \in [Monitor!Key -> Nat]
      /\ written'[Monitor!CheckpointList] = id
      /\ snapshots' = [j \in Monitor!CheckpointId |->
                          IF j \in gone THEN Monitor!Nothing
                          ELSE IF j = id THEN NewSnapshot(from) ELSE snapshots[j]]
  BY <1>s DEF Saves
<1>2. PICK n \in Nat : n = written[Monitor!CheckpointList]
  BY DEF CheckpointsInv, Monitor!Key
<1>3. id = n + 1 /\ from \in 0 .. n /\ MaxRecords \in Nat
  BY <1>1, <1>2 DEF Monitor!MonitorConstants
<1>4. \A j \in Monitor!CheckpointId : snapshots'[j] # Monitor!Nothing =>
          snapshots'[j] = IF j = id THEN NewSnapshot(from) ELSE snapshots[j]
  BY <1>1
<1>5. snapshots' = [j \in Monitor!CheckpointId |-> snapshots'[j]]
  BY <1>1
<1>6. ASSUME NEW j \in Monitor!CheckpointId, snapshots'[j] # Monitor!Nothing
      PROVE  /\ j <= id
             /\ snapshots'[j].monitored \in Seq(Assets)
             /\ snapshots'[j].restored_from \in 0 .. j - 1
  <2>1. CASE j = id
    <3>1. snapshots'[j].monitored = monitored' /\ snapshots'[j].restored_from = from
      BY <1>4, <1>6, <2>1 DEF NewSnapshot
    <3> QED
      BY <1>3, <2>1, <3>1
  <2>2. CASE j # id
    <3>1. snapshots'[j] = snapshots[j] /\ snapshots[j] # Monitor!Nothing
      BY <1>4, <1>6, <2>2
    <3>2. /\ j <= n /\ snapshots[j].monitored \in Seq(Assets)
          /\ snapshots[j].restored_from \in 0 .. j - 1
      BY <1>2, <3>1 DEF CheckpointsInv
    <3>3. j \in Nat
      BY <1>3 DEF Monitor!CheckpointId
    <3> QED
      BY <1>3, <3>1, <3>2, <3>3
  <2> QED
    BY <2>1, <2>2
<1>7. ASSUME NEW j \in Monitor!CheckpointId, snapshots'[j] # Monitor!Nothing,
             snapshots'[j].restored_from # 0,
             snapshots'[snapshots'[j].restored_from] # Monitor!Nothing
      PROVE  SharesWith(snapshots'[j], snapshots'[snapshots'[j].restored_from])
  <2>1. CASE j = id
    <3>1. snapshots'[j] = NewSnapshot(from) /\ snapshots'[j].restored_from = from
      BY <1>4, <1>7, <2>1 DEF NewSnapshot
    <3>2. from \in Monitor!CheckpointId /\ from # id
          /\ SharesWith(NewSnapshot(from), snapshots[from])
      BY <1>3, <1>7, <3>1
    <3>3. snapshots'[from] = snapshots[from]
      BY <1>4, <1>7, <3>1, <3>2
    <3> QED
      BY <3>1, <3>2, <3>3
  <2>2. CASE j # id
    <3>1. snapshots'[j] = snapshots[j] /\ snapshots[j] # Monitor!Nothing
      BY <1>4, <1>7, <2>2
    <3>2. PICK f : f = snapshots[j].restored_from /\ f \in 0 .. j - 1 /\ j <= n
      BY <1>2, <3>1 DEF CheckpointsInv
    <3>3. f # 0 /\ j \in 1 .. MaxRecords
      BY <1>7, <3>1, <3>2 DEF Monitor!CheckpointId
    <3>4. f \in Monitor!CheckpointId /\ f # id
      BY <1>3, <3>2, <3>3 DEF Monitor!CheckpointId
    <3>5. snapshots'[f] = snapshots[f] /\ snapshots[f] # Monitor!Nothing
      BY <1>4, <1>7, <3>1, <3>2, <3>4
    <3>6. SharesWith(snapshots[j], snapshots[f])
      BY <3>1, <3>2, <3>3, <3>5 DEF CheckpointsInv, Monitor!RestoreExact, SharesWith
    <3> QED
      BY <3>1, <3>2, <3>5, <3>6
  <2> QED
    BY <2>1, <2>2
<1>8. Monitor!RestoreExact'
  BY <1>7 DEF SharesWith, Monitor!RestoreExact
<1>9. (\A j \in Monitor!CheckpointId : snapshots[j] # Monitor!Nothing =>
          /\ j <= written[Monitor!CheckpointList]
          /\ snapshots[j].monitored \in Seq(Assets)
          /\ snapshots[j].restored_from \in 0 .. j - 1)'
  BY <1>1, <1>6
<1> QED
  BY <1>1, <1>5, <1>8, <1>9 DEF CheckpointsInv

\* Dropping checkpoints and recording something else keeps the others.
LEMMA DroppedKeepsExact ==
    ASSUME CheckpointsInv, Monitor!MonitorConstants, CountedElsewhere,
           monitored' \in Seq(Assets),
           \/ UNCHANGED snapshots
           \/ \E before, after : snapshots' = Monitor!Dropped(snapshots, before, after)
    PROVE  CheckpointsInv'
<1>1. /\ written' \in [Monitor!Key -> Nat]
      /\ written'[Monitor!CheckpointList] = written[Monitor!CheckpointList]
  <2>1. CASE UNCHANGED written
    BY <2>1 DEF CheckpointsInv
  <2>2. ASSUME NEW key \in Bridges \cup Pairs, written' = [written EXCEPT ![key] = written[key] + 1]
        PROVE  /\ written' \in [Monitor!Key -> Nat]
               /\ written'[Monitor!CheckpointList] = written[Monitor!CheckpointList]
    <3>1. key \in Monitor!Key /\ key # Monitor!CheckpointList
          /\ Monitor!CheckpointList \in Monitor!Key
      BY DEF Monitor!Key, Monitor!MonitorConstants
    <3>2. written[key] \in Nat
      BY <3>1 DEF CheckpointsInv
    <3> QED
      BY <2>2, <3>1, <3>2 DEF CheckpointsInv
  <2> QED
    BY <2>1, <2>2 DEF CountedElsewhere
<1>2. snapshots' = [j \in Monitor!CheckpointId |-> snapshots'[j]]
      /\ \A j \in Monitor!CheckpointId : snapshots'[j] # Monitor!Nothing =>
            snapshots'[j] = snapshots[j]
  <2>1. CASE UNCHANGED snapshots
    BY <2>1 DEF CheckpointsInv
  <2>2. ASSUME NEW before, NEW after, snapshots' = Monitor!Dropped(snapshots, before, after)
        PROVE  snapshots' = [j \in Monitor!CheckpointId |-> snapshots'[j]]
               /\ \A j \in Monitor!CheckpointId : snapshots'[j] # Monitor!Nothing =>
                     snapshots'[j] = snapshots[j]
    BY <2>2 DEF Monitor!Dropped
  <2> QED
    BY <2>1, <2>2
<1>3. (\A j \in Monitor!CheckpointId : snapshots[j] # Monitor!Nothing =>
          /\ j <= written[Monitor!CheckpointList]
          /\ snapshots[j].monitored \in Seq(Assets)
          /\ snapshots[j].restored_from \in 0 .. j - 1)'
  BY <1>1, <1>2 DEF CheckpointsInv
<1>4. ASSUME NEW j \in Monitor!CheckpointId, snapshots'[j] # Monitor!Nothing,
             snapshots'[j].restored_from # 0,
             snapshots'[snapshots'[j].restored_from] # Monitor!Nothing
      PROVE  SharesWith(snapshots'[j], snapshots'[snapshots'[j].restored_from])
  <2>1. snapshots'[j] = snapshots[j] /\ snapshots[j] # Monitor!Nothing
    BY <1>2, <1>4
  <2>2. PICK f : f = snapshots[j].restored_from /\ f \in 0 .. j - 1
    BY <2>1 DEF CheckpointsInv
  <2>3. f # 0 /\ j \in 1 .. MaxRecords /\ MaxRecords \in Nat
    BY <1>4, <2>1, <2>2 DEF Monitor!CheckpointId, Monitor!MonitorConstants
  <2>4. f \in Monitor!CheckpointId
    BY <2>2, <2>3 DEF Monitor!CheckpointId
  <2>5. snapshots'[f] = snapshots[f] /\ snapshots[f] # Monitor!Nothing
    BY <1>2, <1>4, <2>1, <2>2, <2>4
  <2>6. SharesWith(snapshots[j], snapshots[f])
    BY <2>1, <2>2, <2>3, <2>5 DEF CheckpointsInv, Monitor!RestoreExact, SharesWith
  <2> QED
    BY <2>1, <2>2, <2>5, <2>6
<1>5. Monitor!RestoreExact'
  BY <1>4 DEF SharesWith, Monitor!RestoreExact
<1> QED
  BY <1>1, <1>2, <1>3, <1>5 DEF CheckpointsInv

\* A restore writes back what the checkpoint holds, of every asset it lists.
LEMMA RestoredKeepsExact ==
    ASSUME CheckpointsInv, Monitor!MonitorConstants, NEW caller,
           NEW id \in Monitor!CheckpointId, Monitor!RestoreFromCheckpoint(caller, id)
    PROVE  CheckpointsInv'
<1>1. PICK then : then = snapshots[id] /\ then # Monitor!Nothing
  BY DEF Monitor!RestoreFromCheckpoint
<1>2. /\ id <= written[Monitor!CheckpointList] /\ then.monitored \in Seq(Assets)
      /\ id \in 1 .. MaxRecords /\ MaxRecords \in Nat
      /\ written[Monitor!CheckpointList] \in Nat
  BY <1>1 DEF CheckpointsInv, Monitor!CheckpointId, Monitor!MonitorConstants, Monitor!Key
<1>3. /\ monitored' = then.monitored /\ weights' = then.weights /\ risk' = then.risk
      /\ health' = [a \in Assets |-> Monitor!Restored(then, a, health[a], then.health[a])]
      /\ price' = [a \in Assets |-> Monitor!Restored(then, a, price[a], then.price[a])]
      /\ result' = [a \in Assets |-> Monitor!Restored(then, a, result[a], then.result[a])]
      /\ Monitor!Persisted(id)
  BY <1>1 DEF Monitor!RestoreFromCheckpoint
<1>4. ASSUME NEW a \in Monitor!Range(then.monitored)
      PROVE  /\ health'[a] = then.health[a] /\ price'[a] = then.price[a]
             /\ result'[a] = then.result[a]
  <2>1. a \in Assets
    BY <1>2, <1>4 DEF Monitor!Range
  <2> QED
    BY <1>3, <1>4, <2>1 DEF Monitor!Restored
<1>5. SharesWith(NewSnapshot(id), then)
  BY <1>3, <1>4 DEF SharesWith, NewSnapshot
<1>6. id # 0 /\ id \in 0 .. written[Monitor!CheckpointList]
  BY <1>2
<1> QED
  BY <1>1, <1>2, <1>3, <1>5, <1>6, SavedKeepsExact

\* Every step keeps the checkpoints exact.
LEMMA CheckpointsKeep ==
    ASSUME CheckpointsInv, SnapshotsMove, Monitor!MonitorConstants
    PROVE  CheckpointsInv'
<1>1. ASSUME NEW caller \in Address, NEW id \in Monitor!CheckpointId,
             Monitor!RestoreFromCheckpoint(caller, id)
      PROVE  CheckpointsInv'
  BY <1>1, RestoredKeepsExact
<1>2. ASSUME UNCHANGED monitored \/ (\E a \in Assets : monitored' = Append(monitored, a))
      PROVE  monitored' \in Seq(Assets)
  BY <1>2 DEF CheckpointsInv
<1>3. ASSUME monitored' \in Seq(Assets), Monitor!Persisted(0)
      PROVE  CheckpointsInv'
  <2>1. written[Monitor!CheckpointList] \in Nat
    BY DEF CheckpointsInv, Monitor!Key
  <2>2. 0 \in 0 .. written[Monitor!CheckpointList]
    BY <2>1
  <2> QED
    BY <1>3, <2>2, SavedKeepsExact
<1> QED
  BY <1>1, <1>2, <1>3, DroppedKeepsExact DEF SnapshotsMove
-----------------------------------------------------------------------------
\* w holds what seq has at those of its first m places that are in S, in their order; e
\* says which place each was taken from.
PickedBy(R, seq, S, m, w, e) ==
    /\ w \in Seq(R) /\ Len(w) <= m
    /\ e \in [1 .. Len(w) -> 1 .. m]
    /\ \A k \in 1 .. Len(w) : e[k] \in S /\ w[k] = seq[e[k]]
    /\ \A k, l \in 1 .. Len(w) : k < l => e[k] < e[l]
    /\ \A i \in 1 .. m : i \in S => \E k \in 1 .. Len(w) : e[k] = i
Picked(R, seq, S, m, w) == \E e : PickedBy(R, seq, S, m, w, e)

\* Of no places nothing is taken.
LEMMA PickedNone ==
    ASSUME NEW R, NEW seq \in Seq(R), NEW S
    PROVE  Picked(R, seq, S, 0, <<>>)
<1>1. PickedBy(R, seq, S, 0, <<>>, [k \in 1 .. 0 |-> k])
  <2>1. 1 .. 0 = {} /\ Len(<<>>) = 0 /\ <<>> \in Seq(R)
    OBVIOUS
  <2>2. [k \in 1 .. 0 |-> k] \in [1 .. 0 -> 1 .. 0]
    OBVIOUS
  <2> QED
    BY <2>1, <2>2 DEF PickedBy
<1> QED
  BY <1>1 DEF Picked

\* A place that is not in S adds nothing.
LEMMA PickedOver ==
    ASSUME NEW R, NEW seq \in Seq(R), NEW S, NEW m \in Nat, NEW w,
           Picked(R, seq, S, m, w), m + 1 \notin S
    PROVE  Picked(R, seq, S, m + 1, w)
<1>1. PICK e : PickedBy(R, seq, S, m, w, e)
  BY DEF Picked
<1>2. PICK n \in Nat : n = Len(w) /\ w \in Seq(R)
  BY <1>1 DEF PickedBy
<1>3. /\ n <= m + 1 /\ e \in [1 .. n -> 1 .. m + 1]
      /\ \A i \in 1 .. m + 1 : i \in S => i \in 1 .. m
  BY <1>1, <1>2 DEF PickedBy
<1>4. PickedBy(R, seq, S, m + 1, w, e)
  BY <1>1, <1>2, <1>3 DEF PickedBy
<1> QED
  BY <1>4 DEF Picked

\* A place in S adds its entry.
LEMMA PickedNext ==
    ASSUME NEW R, NEW seq \in Seq(R), NEW S, NEW m \in Nat, NEW w,
           Picked(R, seq, S, m, w), m + 1 \in S, m + 1 <= Len(seq)
    PROVE  Picked(R, seq, S, m + 1, Append(w, seq[m + 1]))
<1>1. PICK e : PickedBy(R, seq, S, m, w, e)
  BY DEF Picked
<1>2. PICK n \in Nat : n = Len(w) /\ w \in Seq(R)
  BY <1>1 DEF PickedBy
<1>3. PICK r \in R : r = seq[m + 1]
  OBVIOUS
<1>4. PICK v : v = Append(w, r)
  OBVIOUS
<1>5. /\ v \in Seq(R) /\ Len(v) = n + 1 /\ v[n + 1] = r /\ \A k \in 1 .. n : v[k] = w[k]
  BY <1>2, <1>3, <1>4
<1>6. PICK d : d = [k \in 1 .. n + 1 |-> IF k = n + 1 THEN m + 1 ELSE e[k]]
  OBVIOUS
<1>7. /\ n <= m /\ e \in [1 .. n -> 1 .. m]
      /\ \A k \in 1 .. n : e[k] \in S /\ w[k] = seq[e[k]]
      /\ \A k, l \in 1 .. n : k < l => e[k] < e[l]
      /\ \A i \in 1 .. m : i \in S => \E k \in 1 .. n : e[k] = i
  BY <1>1, <1>2 DEF PickedBy
<1>8. /\ d \in [1 .. n + 1 -> 1 .. m + 1] /\ d[n + 1] = m + 1
      /\ \A k \in 1 .. n : d[k] = e[k]
  <2>1. \A k \in 1 .. n + 1 : k # n + 1 => k \in 1 .. n
    OBVIOUS
  <2>2. \A k \in 1 .. n : e[k] \in 1 .. m + 1
    BY <1>7
  <2>3. m + 1 \in 1 .. m + 1 /\ n + 1 \in 1 .. n + 1
    OBVIOUS
  <2> QED
    BY <1>6, <2>1, <2>2, <2>3
<1>9. \A k \in 1 .. n + 1 : d[k] \in S /\ v[k] = seq[d[k]]
  <2>1. ASSUME NEW k \in 1 .. n + 1 PROVE d[k] \in S /\ v[k] = seq[d[k]]
    <3>1. CASE k = n + 1
      BY <1>3, <1>5, <1>8, <3>1
    <3>2. CASE k \in 1 .. n
      BY <1>5, <1>7, <1>8, <3>2
    <3> QED
      BY <3>1, <3>2
  <2> QED
    BY <2>1
<1>10. \A k, l \in 1 .. n + 1 : k < l => d[k] < d[l]
  <2>1. ASSUME NEW k \in 1 .. n + 1, NEW l \in 1 .. n + 1, k < l PROVE d[k] < d[l]
    <3>1. k \in 1 .. n
      BY <2>1
    <3>2. CASE l = n + 1
      <4>1. d[k] = e[k] /\ e[k] \in 1 .. m /\ d[l] = m + 1
        BY <1>7, <1>8, <3>1, <3>2
      <4> QED
        BY <4>1
    <3>3. CASE l \in 1 .. n
      BY <1>7, <1>8, <2>1, <3>1, <3>3
    <3> QED
      BY <3>2, <3>3
  <2> QED
    BY <2>1
<1>11. \A i \in 1 .. m + 1 : i \in S => \E k \in 1 .. n + 1 : d[k] = i
  <2>1. ASSUME NEW i \in 1 .. m + 1, i \in S PROVE \E k \in 1 .. n + 1 : d[k] = i
    <3>1. CASE i = m + 1
      <4>1. n + 1 \in 1 .. n + 1
        OBVIOUS
      <4> QED
        BY <1>8, <3>1, <4>1
    <3>2. CASE i \in 1 .. m
      <4>1. PICK k \in 1 .. n : e[k] = i
        BY <1>7, <2>1, <3>2
      <4>2. k \in 1 .. n + 1
        OBVIOUS
      <4> QED
        BY <1>8, <4>1, <4>2
    <3> QED
      BY <3>1, <3>2
  <2> QED
    BY <2>1
<1>12. PICK q, u : q = n + 1 /\ u = m + 1
  OBVIOUS
<1>13. n + 1 <= m + 1
  BY <1>7
<1>14. /\ v \in Seq(R) /\ Len(v) = q /\ q <= u /\ d \in [1 .. q -> 1 .. u]
       /\ \A k \in 1 .. q : d[k] \in S /\ v[k] = seq[d[k]]
       /\ \A k, l \in 1 .. q : k < l => d[k] < d[l]
       /\ \A i \in 1 .. u : i \in S => \E k \in 1 .. q : d[k] = i
  BY ONLY <1>5, <1>8, <1>9, <1>10, <1>11, <1>12, <1>13
<1>15. PickedBy(R, seq, S, u, v, d)
  BY ONLY <1>14 DEF PickedBy
<1> QED
  BY <1>3, <1>4, <1>12, <1>15 DEF Picked

\* One turn of the loop over the records of a list.
Turned(seq, S, t, n) ==
    IF n = 0 THEN <<>> ELSE IF n \in S THEN Append(t[n - 1], seq[n]) ELSE t[n - 1]

\* The loop has a table up to every entry.
LEMMA TurnTable ==
    ASSUME NEW R, NEW seq \in Seq(R), NEW S
    PROVE  LET t == CHOOSE t : t = [n \in 0 .. Len(seq) |-> Turned(seq, S, t, n)]
           IN  t = [n \in 0 .. Len(seq) |-> Turned(seq, S, t, n)]
<1> DEFINE Fits(m, t) == t = [n \in 0 .. m |-> Turned(seq, S, t, n)]
           Good == {m \in Nat : \E t : Fits(m, t)}
<1>1. 0 \in Good
  <2>1. Fits(0, [n \in 0 .. 0 |-> <<>>])
    BY DEF Turned
  <2> QED
    BY <2>1
<1>2. ASSUME NEW m \in Nat, m \in Good PROVE m + 1 \in Good
  <2>1. PICK t : Fits(m, t)
    BY <1>2
  <2> DEFINE u == [n \in 0 .. m + 1 |-> IF n = m + 1 THEN Turned(seq, S, t, n) ELSE t[n]]
  <2>2. DOMAIN u = 0 .. m + 1 /\ \A n \in 0 .. m : u[n] = t[n]
    OBVIOUS
  <2>3. ASSUME NEW n \in 0 .. m + 1 PROVE u[n] = Turned(seq, S, u, n)
    <3>1. CASE n = m + 1
      <4>1. u[n] = Turned(seq, S, t, n)
        BY <3>1
      <4>2. n # 0 /\ n - 1 \in 0 .. m
        BY <3>1
      <4>3. u[n - 1] = t[n - 1]
        BY <2>2, <4>2
      <4> QED
        BY <4>1, <4>2, <4>3 DEF Turned
    <3>2. CASE n \in 0 .. m
      <4>1. u[n] = Turned(seq, S, t, n)
        BY <2>1, <3>2
      <4>2. n # 0 => n - 1 \in 0 .. m
        BY <3>2
      <4>3. n # 0 => u[n - 1] = t[n - 1]
        BY <2>2, <4>2
      <4> QED
        BY <4>1, <4>3 DEF Turned
    <3> QED
      BY <3>1, <3>2
  <2>4. u = [n \in 0 .. m + 1 |-> u[n]]
    OBVIOUS
  <2>5. [n \in 0 .. m + 1 |-> u[n]] = [n \in 0 .. m + 1 |-> Turned(seq, S, u, n)]
    <3> HIDE DEF u
    <3> QED
      BY <2>3
  <2>6. Fits(m + 1, u)
    <3> HIDE DEF u
    <3> QED
      BY <2>4, <2>5
  <2> QED
    <3> HIDE DEF Fits, u
    <3> QED
      BY <2>6
<1>3. Nat \subseteq Good
  <2> HIDE DEF Good
  <2> QED
    BY <1>1, <1>2, NumberInduction
<1>4. \E t : Fits(Len(seq), t)
  BY <1>3
<1> QED
  BY <1>4

\* The loop takes the entries at the places of S, each once, in order.
LEMMA ChosenPicked ==
    ASSUME NEW R, NEW seq \in Seq(R), NEW S
    PROVE  Picked(R, seq, S, Len(seq), Monitor!Chosen(seq, S))
<1> DEFINE t == CHOOSE t : t = [n \in 0 .. Len(seq) |-> Turned(seq, S, t, n)]
           Fine(n) == n <= Len(seq) => Picked(R, seq, S, n, t[n])
           Good == {n \in Nat : Fine(n)}
<1>1. t = [n \in 0 .. Len(seq) |-> Turned(seq, S, t, n)]
  BY TurnTable
<1>2. Monitor!Chosen(seq, S) = t[Len(seq)]
  BY DEF Monitor!Chosen, Turned
<1> HIDE DEF t
<1>3. \A n \in 0 .. Len(seq) : t[n] = Turned(seq, S, t, n)
  <2>1. PICK v : v = t
    OBVIOUS
  <2>2. v = [n \in 0 .. Len(seq) |-> Turned(seq, S, v, n)]
    BY <1>1, <2>1
  <2>3. \A n \in 0 .. Len(seq) : v[n] = Turned(seq, S, v, n)
    BY ONLY <2>2
  <2> QED
    BY <2>1, <2>3
<1>4. Fine(0)
  <2>1. t[0] = <<>>
    BY <1>3 DEF Turned
  <2> QED
    BY <2>1, PickedNone
<1>5. ASSUME NEW m \in Nat, Fine(m) PROVE Fine(m + 1)
  <2>1. SUFFICES ASSUME m + 1 <= Len(seq) PROVE Picked(R, seq, S, m + 1, t[m + 1])
    OBVIOUS
  <2>2. m + 1 \in 0 .. Len(seq) /\ m + 1 # 0 /\ (m + 1) - 1 = m /\ m <= Len(seq)
    BY <2>1
  <2>3. Picked(R, seq, S, m, t[m])
    BY <1>5, <2>2
  <2>4. t[m + 1] = IF m + 1 \in S THEN Append(t[m], seq[m + 1]) ELSE t[m]
    BY <1>3, <2>2 DEF Turned
  <2>5. CASE m + 1 \in S
    BY <2>1, <2>3, <2>4, <2>5, PickedNext
  <2>6. CASE m + 1 \notin S
    BY <2>3, <2>4, <2>6, PickedOver
  <2> QED
    BY <2>5, <2>6
<1>6. Nat \subseteq Good
  <2>1. 0 \in Good /\ \A m \in Nat : m \in Good => m + 1 \in Good
    <3> HIDE DEF Fine
    <3> QED
      BY <1>4, <1>5
  <2> HIDE DEF Good
  <2> QED
    BY <2>1, NumberInduction
<1>7. Len(seq) \in Nat
  OBVIOUS
<1>8. Fine(Len(seq))
  <2> HIDE DEF Fine
  <2> QED
    BY <1>6, <1>7
<1> QED
  BY <1>2, <1>7, <1>8
-----------------------------------------------------------------------------
\* What is kept of a record.
Logged ==
    [id : Nat, asset : MismatchAssets \cup Pairs \cup {Monitor!CheckpointList},
     timestamp : 1 .. LastTick, expires_at : Int]
Rising(list) == \A i, j \in 1 .. Len(list) : i < j => list[i].id < list[j].id

\* w is what the places S of a list hold.
Part(list, S, w) ==
    /\ w \in Seq(Logged) /\ Len(w) <= Len(list) /\ Rising(w)
    /\ \A k \in 1 .. Len(w) : \E i \in 1 .. Len(list) : i \in S /\ w[k] = list[i]
    /\ \A i \in 1 .. Len(list) : i \in S => \E k \in 1 .. Len(w) : w[k] = list[i]
    /\ Len(list) \in S /\ list # <<>> => w # <<>> /\ w[Len(w)] = list[Len(list)]

\* What the loop takes of a rising list is such a part.
LEMMA ChosenPart ==
    ASSUME NEW list \in Seq(Logged), Rising(list), NEW S
    PROVE  Part(list, S, Monitor!Chosen(list, S))
<1>1. PICK w : w = Monitor!Chosen(list, S)
  OBVIOUS
<1>2. PICK m \in Nat : m = Len(list)
  OBVIOUS
<1>3. PICK e : PickedBy(Logged, list, S, m, w, e)
  BY <1>1, <1>2, ChosenPicked DEF Picked
<1>4. PICK n \in Nat : n = Len(w) /\ w \in Seq(Logged) /\ n <= m
  BY <1>3 DEF PickedBy
<1>5. /\ e \in [1 .. n -> 1 .. m]
      /\ \A k \in 1 .. n : e[k] \in S /\ w[k] = list[e[k]]
      /\ \A k, l \in 1 .. n : k < l => e[k] < e[l]
      /\ \A i \in 1 .. m : i \in S => \E k \in 1 .. n : e[k] = i
  BY <1>3, <1>4 DEF PickedBy
<1>6. Rising(w)
  <2>1. ASSUME NEW i \in 1 .. n, NEW j \in 1 .. n, i < j PROVE w[i].id < w[j].id
    <3>1. e[i] \in 1 .. m /\ e[j] \in 1 .. m /\ e[i] < e[j]
      BY <1>5, <2>1
    <3>2. list[e[i]].id < list[e[j]].id
      BY <1>2, <3>1 DEF Rising
    <3> QED
      BY <1>5, <3>2
  <2> QED
    BY <1>4, <2>1 DEF Rising
<1>7. ASSUME m \in S, m # 0 PROVE n # 0 /\ w[n] = list[m]
  <2>1. m \in 1 .. m
    BY <1>7
  <2>2. PICK k \in 1 .. n : e[k] = m
    BY <1>5, <1>7, <2>1
  <2>3. n \in 1 .. n
    BY <2>2
  <2>4. k = n
    <3>1. ASSUME k < n PROVE FALSE
      <4>1. e[k] < e[n] /\ e[n] \in 1 .. m
        BY <1>5, <2>3, <3>1
      <4> QED
        BY <2>2, <4>1
    <3> QED
      BY <2>2, <3>1
  <2> QED
    BY <1>5, <2>2, <2>3, <2>4
<1>8. (m = 0 <=> list = <<>>) /\ (n = 0 <=> w = <<>>)
  BY <1>2, <1>4, NoEntry
<1>9. \A k \in 1 .. n : \E i \in 1 .. m : i \in S /\ w[k] = list[i]
  BY <1>5
<1>10. \A i \in 1 .. m : i \in S => \E k \in 1 .. n : w[k] = list[i]
  <2>1. ASSUME NEW i \in 1 .. m, i \in S PROVE \E k \in 1 .. n : w[k] = list[i]
    <3>1. PICK k \in 1 .. n : e[k] = i
      BY <1>5, <2>1
    <3> QED
      BY <1>5, <3>1
  <2> QED
    BY <2>1
<1>11. Part(list, S, w)
  BY <1>2, <1>4, <1>6, <1>7, <1>8, <1>9, <1>10 DEF Part
<1> QED
  BY <1>1, <1>11

\* No record of a list and its archive has the number of another.
Apart(list, archive) ==
    /\ Rising(list)
    /\ \A i, j \in 1 .. Len(archive) : i # j => archive[i].id # archive[j].id
    /\ \A i \in 1 .. Len(archive), j \in 1 .. Len(list) : archive[i].id # list[j].id

\* Why a clean-up may take a record from the list of a key, and what archive it leaves.
Due(key, r, archive) ==
    /\ clock - r.timestamp >
          Monitor!RetentionSecs(Monitor!KindOf(key), r, policy[Monitor!KindOf(key)].retention_secs)
    /\ policy[Monitor!KindOf(key)].archive_before_delete =>
          \E i \in 1 .. Len(archive) : archive[i] = r

\* What clean-ups may make of the list and the archive of a key.
Cleaned(key, l0, a0, l, a) ==
    /\ l \in Seq(Logged) /\ a \in Seq(Logged) /\ Len(l) <= Len(l0) /\ Apart(l, a)
    /\ \A i \in 1 .. Len(l) : \E j \in 1 .. Len(l0) : l[i] = l0[j]
    /\ l0 # <<>> => l # <<>> /\ l[Len(l)] = l0[Len(l0)]
    /\ \A i \in 1 .. Len(a0) : \E j \in 1 .. Len(a) : a[j] = a0[i]
    /\ \A i \in 1 .. Len(a) : \/ \E j \in 1 .. Len(a0) : a[i] = a0[j]
                              \/ \E j \in 1 .. Len(l0) : a[i] = l0[j]
    /\ \A i \in 1 .. Len(l0) : \/ \E j \in 1 .. Len(l) : l[j] = l0[i]
                               \/ Due(key, l0[i], a)

\* The numbers of records are numbers.
LEMMA NumbersOf ==
    ASSUME NEW list \in Seq(Logged)
    PROVE  \A i \in 1 .. Len(list) : list[i].id \in Nat
<1>1. ASSUME NEW i \in 1 .. Len(list) PROVE list[i].id \in Nat
  <2>1. list[i] \in Logged
    OBVIOUS
  <2> QED
    BY <2>1 DEF Logged
<1> QED
  BY <1>1

\* A list and an archive are what no clean-up makes of them.
LEMMA CleanedNot ==
    ASSUME NEW key, NEW l \in Seq(Logged), NEW a \in Seq(Logged), Apart(l, a)
    PROVE  Cleaned(key, l, a, l, a)
BY DEF Cleaned

\* A record taken for its age, archived if the policy of its kind says so.
LEMMA CleanedMore ==
    ASSUME NEW key, NEW l0 \in Seq(Logged), NEW a0 \in Seq(Logged), NEW l, NEW a,
           Cleaned(key, l0, a0, l, a), NEW gone \in SUBSET (1 .. Len(l) - 1),
           NEW stay, stay = (1 .. Len(l)) \ gone,
           NEW k, k = Monitor!KindOf(key),
           \A i \in gone : clock - l[i].timestamp >
                              Monitor!RetentionSecs(k, l[i], policy[k].retention_secs),
           NEW w, Part(l, stay, w), NEW g, Part(l, gone, g),
           NEW b, b = IF policy[k].archive_before_delete THEN a \o g ELSE a
    PROVE  Cleaned(key, l0, a0, w, b)
<1>1. PICK n \in Nat, m \in Nat, p \in Nat, q \in Nat :
          n = Len(l) /\ m = Len(w) /\ p = Len(a) /\ q = Len(g)
  BY DEF Cleaned, Part
<1>2. l \in Seq(Logged) /\ a \in Seq(Logged) /\ w \in Seq(Logged) /\ g \in Seq(Logged)
  BY DEF Cleaned, Part
<1>3. /\ n <= Len(l0) /\ m <= n
      /\ \A i \in 1 .. n : \E j \in 1 .. Len(l0) : l[i] = l0[j]
      /\ \A i \in 1 .. m : \E j \in 1 .. n : j \in stay /\ w[i] = l[j]
      /\ \A i \in 1 .. n : i \in stay => \E j \in 1 .. m : w[j] = l[i]
      /\ \A i \in 1 .. q : \E j \in 1 .. n : j \in gone /\ g[i] = l[j]
      /\ \A i \in 1 .. n : i \in gone => \E j \in 1 .. q : g[j] = l[i]
      /\ Rising(l) /\ Rising(w) /\ Rising(g)
  BY <1>1 DEF Cleaned, Part, Apart
<1>4. PICK c : c = a \o g
  OBVIOUS
<1>5. /\ c \in Seq(Logged) /\ Len(c) = p + q
      /\ \A i \in 1 .. p : c[i] = a[i]
      /\ \A i \in 1 .. q : c[p + i] = g[i]
      /\ \A i \in 1 .. p + q : i \in 1 .. p \/ (i - p \in 1 .. q /\ c[i] = g[i - p])
  <2>1. c \in Seq(Logged) /\ Len(c) = p + q
    BY <1>1, <1>2, <1>4
  <2>2. \A i \in 1 .. p + q : c[i] = IF i <= p THEN a[i] ELSE g[i - p]
    BY <1>1, <1>2, <1>4
  <2>3. \A i \in 1 .. p : i \in 1 .. p + q /\ i <= p
    OBVIOUS
  <2>4. \A i \in 1 .. q : p + i \in 1 .. p + q /\ ~(p + i <= p) /\ p + i - p = i
    OBVIOUS
  <2>5. \A i \in 1 .. p + q : i \in 1 .. p \/ (i - p \in 1 .. q /\ ~(i <= p))
    OBVIOUS
  <2> QED
    BY <2>1, <2>2, <2>3, <2>4, <2>5
<1>6. b = IF policy[k].archive_before_delete THEN c ELSE a
  BY <1>4
<1>7. \A i, j \in 1 .. n : i # j => l[i].id # l[j].id
  <2>1. \A i \in 1 .. n : l[i].id \in Nat
    BY <1>1, <1>2, NumbersOf
  <2>2. \A i, j \in 1 .. n : i < j => l[i].id < l[j].id
    BY <1>1, <1>3 DEF Rising
  <2> QED
    BY <2>1, <2>2
<1>8. \A i \in 1 .. p, j \in 1 .. n : a[i].id # l[j].id
  BY <1>1 DEF Cleaned, Apart
<1>9. \A i, j \in 1 .. p : i # j => a[i].id # a[j].id
  BY <1>1 DEF Cleaned, Apart
<1>10. \A i \in 1 .. p, j \in 1 .. m : a[i].id # w[j].id
  <2>1. ASSUME NEW i \in 1 .. p, NEW j \in 1 .. m PROVE a[i].id # w[j].id
    <3>1. PICK x \in 1 .. n : w[j] = l[x]
      BY <1>3, <2>1
    <3> QED
      BY <1>8, <3>1
  <2> QED
    BY <2>1
<1>11. Apart(w, a)
  BY <1>1, <1>3, <1>9, <1>10 DEF Apart
<1>12. \A i \in 1 .. q, j \in 1 .. m : g[i].id # w[j].id
  <2>1. ASSUME NEW i \in 1 .. q, NEW j \in 1 .. m PROVE g[i].id # w[j].id
    <3>1. PICK x \in 1 .. n : x \in gone /\ g[i] = l[x]
      BY <1>3, <2>1
    <3>2. PICK y \in 1 .. n : y \in stay /\ w[j] = l[y]
      BY <1>3, <2>1
    <3>3. x # y
      BY <3>1, <3>2
    <3> QED
      BY <1>7, <3>1, <3>2, <3>3
  <2> QED
    BY <2>1
<1>13. \A i, j \in 1 .. q : i # j => g[i].id # g[j].id
  <2>1. \A i \in 1 .. q : g[i].id \in Nat
    BY <1>1, <1>2, NumbersOf
  <2>2. \A i, j \in 1 .. q : i < j => g[i].id < g[j].id
    BY <1>1, <1>3 DEF Rising
  <2> QED
    BY <2>1, <2>2
<1>14. \A i \in 1 .. p, j \in 1 .. q : a[i].id # g[j].id
  <2>1. ASSUME NEW i \in 1 .. p, NEW j \in 1 .. q PROVE a[i].id # g[j].id
    <3>1. PICK x \in 1 .. n : g[j] = l[x]
      BY <1>3, <2>1
    <3> QED
      BY <1>8, <3>1
  <2> QED
    BY <2>1
<1>15. Apart(w, c)
  <2>1. ASSUME NEW i \in 1 .. p + q, NEW j \in 1 .. p + q, i # j PROVE c[i].id # c[j].id
    <3>1. CASE i \in 1 .. p /\ j \in 1 .. p
      BY <1>5, <1>9, <2>1, <3>1
    <3>2. CASE i \in 1 .. p /\ j \notin 1 .. p
      <4>1. c[i] = a[i] /\ j - p \in 1 .. q /\ c[j] = g[j - p]
        BY <1>5, <3>2
      <4> QED
        BY <1>14, <3>2, <4>1
    <3>3. CASE i \notin 1 .. p /\ j \in 1 .. p
      <4>1. c[j] = a[j] /\ i - p \in 1 .. q /\ c[i] = g[i - p]
        BY <1>5, <3>3
      <4> QED
        BY <1>14, <3>3, <4>1
    <3>4. CASE i \notin 1 .. p /\ j \notin 1 .. p
      <4>1. /\ i - p \in 1 .. q /\ c[i] = g[i - p]
            /\ j - p \in 1 .. q /\ c[j] = g[j - p]
        BY <1>5, <3>4
      <4>2. i - p # j - p
        BY <2>1
      <4> QED
        BY <1>13, <4>1, <4>2
    <3> QED
      BY <3>1, <3>2, <3>3, <3>4
  <2>2. ASSUME NEW i \in 1 .. p + q, NEW j \in 1 .. m PROVE c[i].id # w[j].id
    <3>1. CASE i \in 1 .. p
      BY <1>5, <1>10, <3>1, ZenonT(40)
    <3>2. CASE i \notin 1 .. p
      <4>1. i - p \in 1 .. q /\ c[i] = g[i - p]
        BY <1>5, <3>2
      <4> QED
        BY <1>12, <4>1
    <3> QED
      BY <3>1, <3>2
  <2>3. Rising(w) /\ Len(w) = m /\ Len(c) = p + q
    BY <1>1, <1>3, <1>5
  <2> QED
    BY ONLY <2>1, <2>2, <2>3 DEF Apart
<1>16. b \in Seq(Logged) /\ Apart(w, b)
  <2>1. a \in Seq(Logged) /\ c \in Seq(Logged) /\ (b = a \/ b = c)
    BY <1>2, <1>5, <1>6, Zenon
  <2> QED
    BY ONLY <1>11, <1>15, <2>1, Zenon
<1>s. l0 \in Seq(Logged) /\ a0 \in Seq(Logged)
  OBVIOUS
<1>17. PICK n0 \in Nat, p0 \in Nat, r \in Nat : n0 = Len(l0) /\ p0 = Len(a0) /\ r = Len(b)
  BY ONLY <1>s, <1>16
<1>18. \A i \in 1 .. p : \E j \in 1 .. r : b[j] = a[i]
  <2>1. ASSUME NEW i \in 1 .. p PROVE \E j \in 1 .. r : b[j] = a[i]
    <3>1. i \in 1 .. p + q /\ c[i] = a[i]
      BY <1>5
    <3> QED
      BY <1>1, <1>5, <1>6, <1>17, <3>1
  <2> QED
    BY <2>1
<1>19. policy[k].archive_before_delete => \A i \in 1 .. q : \E j \in 1 .. r : b[j] = g[i]
  <2>1. ASSUME policy[k].archive_before_delete, NEW i \in 1 .. q
        PROVE  \E j \in 1 .. r : b[j] = g[i]
    <3>1. p + i \in 1 .. p + q /\ c[p + i] = g[i]
      BY <1>5
    <3> QED
      BY <1>5, <1>6, <1>17, <2>1, <3>1
  <2> QED
    BY <2>1
<1>20. \A i \in 1 .. r : \/ \E j \in 1 .. p0 : b[i] = a0[j]
                        \/ \E j \in 1 .. n0 : b[i] = l0[j]
  <2>1. \A i \in 1 .. p : \/ \E j \in 1 .. p0 : a[i] = a0[j]
                         \/ \E j \in 1 .. n0 : a[i] = l0[j]
    BY <1>1, <1>17 DEF Cleaned
  <2>2. \A i \in 1 .. q : \E j \in 1 .. n0 : g[i] = l0[j]
    BY <1>3, <1>17
  <2>3. ASSUME NEW i \in 1 .. p + q
        PROVE  \/ \E j \in 1 .. p0 : c[i] = a0[j]
               \/ \E j \in 1 .. n0 : c[i] = l0[j]
    <3>1. CASE i \in 1 .. p
      BY <1>5, <2>1, <3>1
    <3>2. CASE i \notin 1 .. p
      <4>1. i - p \in 1 .. q /\ c[i] = g[i - p]
        BY <1>5, <3>2
      <4> QED
        BY <2>2, <4>1
    <3> QED
      BY <3>1, <3>2
  <2>4. (b = c /\ r = p + q) \/ (b = a /\ r = p)
    BY <1>1, <1>5, <1>6, <1>17
  <2> QED
    BY ONLY <2>1, <2>3, <2>4
<1>21. ASSUME NEW i \in 1 .. n0
       PROVE  \/ \E j \in 1 .. m : w[j] = l0[i]
              \/ Due(key, l0[i], b)
  <2>1. \/ \E j \in 1 .. n : l[j] = l0[i]
        \/ Due(key, l0[i], a)
    BY <1>1, <1>17 DEF Cleaned
  <2>2. ASSUME NEW j \in 1 .. n, l[j] = l0[i]
        PROVE  \/ \E x \in 1 .. m : w[x] = l0[i]
               \/ Due(key, l0[i], b)
    <3>1. CASE j \in stay
      BY <1>3, <2>2, <3>1
    <3>2. CASE j \in gone
      <4>1. clock - l[j].timestamp > Monitor!RetentionSecs(k, l[j], policy[k].retention_secs)
        BY <3>2
      <4>2. policy[k].archive_before_delete => \E x \in 1 .. r : b[x] = l[j]
        <5>1. PICK x \in 1 .. q : g[x] = l[j]
          BY <1>3, <2>2, <3>2
        <5> QED
          BY <1>19, <5>1
      <4> QED
        BY <1>17, <2>2, <4>1, <4>2 DEF Due
    <3> QED
      BY <1>1, <3>1, <3>2
  <2>3. Due(key, l0[i], a) => Due(key, l0[i], b)
    <3>1. (\E j \in 1 .. p : a[j] = l0[i]) => \E j \in 1 .. r : b[j] = l0[i]
      BY ONLY <1>18, Zenon
    <3> QED
      BY <1>1, <1>17, <3>1 DEF Due
  <2> QED
    BY ONLY <2>1, <2>2, <2>3, Zenon
<1>22. l0 # <<>> => w # <<>> /\ w[m] = l0[n0]
  <2>1. SUFFICES ASSUME l0 # <<>> PROVE w # <<>> /\ w[m] = l0[n0]
    OBVIOUS
  <2>2. l # <<>> /\ l[n] = l0[n0]
    BY <1>1, <1>17, <2>1 DEF Cleaned
  <2>3. n \in stay
    <3>1. n # 0
      BY <1>1, <1>2, <2>2, NoEntry
    <3> QED
      BY <1>1, <3>1
  <2> QED
    BY <1>1, <2>2, <2>3 DEF Part
<1>23. m <= n0
  BY <1>3, <1>17
<1>24. \A i \in 1 .. m : \E j \in 1 .. n0 : w[i] = l0[j]
  BY <1>3, <1>17
<1>25. \A i \in 1 .. p0 : \E j \in 1 .. r : b[j] = a0[i]
  <2>1. \A i \in 1 .. p0 : \E j \in 1 .. p : a[j] = a0[i]
    BY <1>1, <1>17 DEF Cleaned
  <2> QED
    BY ONLY <1>18, <2>1, Zenon
<1> QED
  BY <1>1, <1>2, <1>16, <1>17, <1>20, <1>21, <1>22, <1>23, <1>24, <1>25 DEF Cleaned
-----------------------------------------------------------------------------
\* t is a fold over the places 1 .. n of a list, from base, as a table over sets of places;
\* Climbs: it takes the steps of that fold wherever it is in V.
Laddered(t, base, step, n) ==
    \A s \in SUBSET (1 .. n) : t[s] = IF s = {} THEN base ELSE step[<<Max(s), t[s \ {Max(s)}]>>]
Climbs(t, step, n, V) ==
    \A s \in SUBSET (1 .. n) :
        s # {} /\ t[s \ {Max(s)}] \in V => t[s] = step[<<Max(s), t[s \ {Max(s)}]>>]

\* The table of a fold exists when its steps stay within V.
LEMMA LadderTable ==
    ASSUME NEW n \in Nat, NEW V, NEW base \in V, NEW step \in [(1 .. n) \X V -> V]
    PROVE  \E t \in [SUBSET (1 .. n) -> V] : Laddered(t, base, step, n)
<1>1. PICK S : S = 1 .. n
  OBVIOUS
<1>2. PICK pick : pick = [s \in SUBSET S |-> Max(s)]
  OBVIOUS
<1>3. \A s \in SUBSET S : pick[s] = Max(s) /\ (s # {} => pick[s] \in s)
  BY <1>1, <1>2, MaxIsLargest
<1>4. IsFiniteSet(S)
  BY <1>1, FS_Interval
<1>5. Picks(pick, S)
  BY <1>3 DEF Picks
<1>6. step \in [S \X V -> V] /\ base \in V
  BY <1>1
<1>7. PICK t \in [SUBSET S -> V] : Folds(t, base, pick, step, S)
  BY ONLY <1>4, <1>5, <1>6, FoldTable
<1>8. \A s \in SUBSET S : t[s] = IF s = {} THEN base ELSE step[<<Max(s), t[s \ {Max(s)}]>>]
  BY ONLY <1>3, <1>7 DEF Folds, Fold
<1> QED
  BY <1>1, <1>8 DEF Laddered

\* Any table that takes those steps ends in V.
LEMMA LadderStays ==
    ASSUME NEW n \in Nat, NEW V, NEW base \in V, NEW step \in [(1 .. n) \X V -> V],
           NEW t, t[{}] = base, Climbs(t, step, n, V)
    PROVE  t[1 .. n] \in V
<1>1. PICK S : S = 1 .. n
  OBVIOUS
<1>2. PICK pick : pick = [s \in SUBSET S |-> Max(s)]
  OBVIOUS
<1>3. \A s \in SUBSET S : pick[s] = Max(s) /\ (s # {} => pick[s] \in s)
  BY <1>1, <1>2, MaxIsLargest
<1>4. IsFiniteSet(S)
  BY <1>1, FS_Interval
<1>5. Picks(pick, S)
  BY <1>3 DEF Picks
<1>6. step \in [S \X V -> V] /\ base \in V /\ t[{}] = base
  BY <1>1
<1>7. \A s \in SUBSET S : s # {} /\ t[s \ {Max(s)}] \in V =>
          t[s] = step[<<Max(s), t[s \ {Max(s)}]>>]
  BY <1>1 DEF Climbs
<1>8. Follows(t, pick, step, S, V)
  BY ONLY <1>3, <1>7 DEF Follows
<1>9. \A s \in SUBSET S : t[s] \in V
  BY ONLY <1>4, <1>5, <1>6, <1>8, FoldTyped
<1> QED
  BY <1>1, <1>9

\* The lists of keys of each kind, and the shelves that clean-ups make of the lists l0 and
\* the archives a0.
KeyLists ==
    {ks \in [Monitor!Kind -> Seq(Monitor!Key)] :
        \A k \in Monitor!Kind : \A i \in 1 .. Len(ks[k]) : Monitor!KindOf(ks[k][i]) = k}
ShelfType ==
    [records : [Monitor!Key -> Seq(Logged)], archived : [Monitor!Key -> Seq(Logged)],
     keys : KeyLists, last : [Monitor!Kind -> 0 .. LastTick], deleted : Nat]
Shelves(l0, a0) ==
    {s \in ShelfType : \A key \in Monitor!Key :
        Cleaned(key, l0[key], a0[key], s.records[key], s.archived[key])}
Lists == [Monitor!Key -> Seq(Logged)]

\* Cleaning one key leaves such a shelf.
LEMMA KeyStays ==
    ASSUME NEW l0 \in Lists, NEW a0 \in Lists, NEW s \in Shelves(l0, a0),
           NEW key \in Monitor!Key, NEW budget
    PROVE  Monitor!CleanedKey(s, Monitor!KindOf(key), key, budget) \in Shelves(l0, a0)
<1> DEFINE k == Monitor!KindOf(key)
<1>1. PICK l, a : l = s.records[key] /\ a = s.archived[key]
  OBVIOUS
<1>2. /\ l \in Seq(Logged) /\ a \in Seq(Logged) /\ Cleaned(key, l0[key], a0[key], l, a)
      /\ s \in ShelfType
  BY <1>1 DEF Shelves, ShelfType
<1>3. PICK gone : gone = Monitor!Removable(k, l, budget - s.deleted)
  OBVIOUS
<1>4. /\ gone \in SUBSET (1 .. Len(l) - 1)
      /\ \A i \in gone : clock - l[i].timestamp >
                            Monitor!RetentionSecs(k, l[i], policy[k].retention_secs)
  BY <1>3 DEF Monitor!Removable, Monitor!Expired
<1>5. PICK stay : stay = (1 .. Len(l)) \ gone
  OBVIOUS
<1>6. PICK w, g : w = Monitor!Chosen(l, stay) /\ g = Monitor!Chosen(l, gone)
  OBVIOUS
<1>7. Rising(l)
  BY <1>2 DEF Cleaned, Apart
<1>8. Part(l, stay, w) /\ Part(l, gone, g)
  BY <1>2, <1>6, <1>7, ChosenPart
<1>9. PICK b : b = IF policy[k].archive_before_delete THEN a \o g ELSE a
  OBVIOUS
<1>10. l0[key] \in Seq(Logged) /\ a0[key] \in Seq(Logged)
  BY DEF Lists
<1>11. Cleaned(key, l0[key], a0[key], w, b)
  BY <1>2, <1>4, <1>5, <1>8, <1>9, <1>10, CleanedMore
<1>12. PICK next : next = Monitor!CleanedKey(s, k, key, budget)
  OBVIOUS
<1>13. DOMAIN l = 1 .. Len(l)
  BY <1>2
<1>14. /\ s.records \in [Monitor!Key -> Seq(Logged)]
       /\ s.archived \in [Monitor!Key -> Seq(Logged)]
       /\ s.keys \in KeyLists /\ s.last \in [Monitor!Kind -> 0 .. LastTick]
       /\ s.deleted \in Nat
       /\ s = [records |-> s.records, archived |-> s.archived, keys |-> s.keys,
               last |-> s.last, deleted |-> s.deleted]
  BY <1>2 DEF ShelfType
<1>15. next = [records |-> [s.records EXCEPT ![key] = w],
               archived |-> [s.archived EXCEPT ![key] = b], keys |-> s.keys,
               last |-> s.last, deleted |-> s.deleted + Cardinality(gone)]
  <2>1. /\ Monitor!Chosen(s.records[key], DOMAIN s.records[key] \ gone) = w
        /\ Monitor!Chosen(s.records[key], gone) = g
    BY <1>1, <1>5, <1>6, <1>13
  <2> HIDE DEF k
  <2>2. Monitor!Removable(k, s.records[key], budget - s.deleted) = gone
    BY <1>1, <1>3
  <2>3. (IF policy[k].archive_before_delete THEN s.archived[key] \o g ELSE s.archived[key]) = b
    BY <1>1, <1>9
  <2>4. Monitor!Cardinality(gone) = Cardinality(gone)
    BY DEF Monitor!Cardinality, Cardinality
  <2>5. next = [s EXCEPT !.records[key] = w, !.archived[key] = b,
                         !.deleted = s.deleted + Cardinality(gone)]
    BY ONLY <1>12, <2>1, <2>2, <2>3, <2>4 DEF Monitor!CleanedKey
  <2> QED
    BY <1>14, <2>5
<1>16. Cardinality(gone) \in Nat
  <2>1. IsFiniteSet(1 .. Len(l) - 1)
    BY <1>2, FS_Interval
  <2> QED
    BY <1>4, <2>1, FS_Subset, FS_CardinalityType
<1>17. w \in Seq(Logged) /\ b \in Seq(Logged)
  BY <1>11 DEF Cleaned
<1>18. next \in ShelfType
  <2>1. [s.records EXCEPT ![key] = w] \in [Monitor!Key -> Seq(Logged)]
    BY <1>14, <1>17
  <2>2. [s.archived EXCEPT ![key] = b] \in [Monitor!Key -> Seq(Logged)]
    BY <1>14, <1>17
  <2>3. s.deleted + Cardinality(gone) \in Nat
    BY <1>14, <1>16
  <2> QED
    BY <1>14, <1>15, <2>1, <2>2, <2>3 DEF ShelfType
<1>19. ASSUME NEW other \in Monitor!Key
       PROVE  Cleaned(other, l0[other], a0[other], next.records[other], next.archived[other])
  <2>1. CASE other = key
    BY <1>11, <1>14, <1>15, <2>1
  <2>2. CASE other # key
    <3>1. next.records[other] = s.records[other] /\ next.archived[other] = s.archived[other]
      BY <1>14, <1>15, <2>2
    <3> QED
      BY <3>1 DEF Shelves
  <2> QED
    BY <2>1, <2>2
<1> QED
  BY <1>12, <1>18, <1>19 DEF Shelves

\* The table by which the clean-up of a kind is defined.
KindTable(shelf, k, budget) ==
    CHOOSE t : t = [s \in SUBSET DOMAIN shelf.keys[k] |->
        IF s = {} THEN [shelf EXCEPT !.deleted = 0]
        ELSE Monitor!CleanedKey(t[s \ {Max(s)}], k, shelf.keys[k][Max(s)], budget)]

\* The clean-up of a kind, as a recursive function.
LEMMA KindUnfolded ==
    ASSUME NEW shelf, NEW k, NEW budget
    PROVE  Monitor!CleanedKind(shelf, k, budget)
              = KindTable(shelf, k, budget)[DOMAIN shelf.keys[k]]
BY DEF Monitor!CleanedKind, Monitor!FoldLeft, Monitor!MapThenFoldSet, Monitor!Max, Max,
       KindTable, Monitor!CleanedKey

\* Cleaning the keys of one kind leaves such a shelf.
LEMMA KindStays ==
    ASSUME NEW l0 \in Lists, NEW a0 \in Lists, NEW shelf \in Shelves(l0, a0),
           NEW k \in Monitor!Kind, NEW budget
    PROVE  Monitor!CleanedKind(shelf, k, budget) \in Shelves(l0, a0)
<1> DEFINE V == Shelves(l0, a0)
           T == KindTable(shelf, k, budget)
<1>1. PICK list : list = shelf.keys[k]
  OBVIOUS
<1>2. list \in Seq(Monitor!Key) /\ \A i \in 1 .. Len(list) : Monitor!KindOf(list[i]) = k
  BY <1>1 DEF Shelves, ShelfType, KeyLists
<1>3. PICK n \in Nat : n = Len(list) /\ DOMAIN list = 1 .. n
  BY <1>2
<1>4. PICK base : base = [shelf EXCEPT !.deleted = 0]
  OBVIOUS
<1>5. base \in V
  <2>1. base \in ShelfType /\ base.records = shelf.records /\ base.archived = shelf.archived
    BY <1>4 DEF Shelves, ShelfType
  <2> QED
    BY <2>1 DEF Shelves
<1> DEFINE step == [p \in (1 .. n) \X V |-> Monitor!CleanedKey(p[2], k, list[p[1]], budget)]
           Next1(t, s) == Monitor!CleanedKey(t[s \ {Max(s)}], k, list[Max(s)], budget)
           Tabled(t) == t = [s \in SUBSET (1 .. n) |-> IF s = {} THEN base ELSE Next1(t, s)]
<1> HIDE DEF V
<1>6. ASSUME NEW i \in 1 .. n, NEW s \in V
      PROVE  /\ Monitor!CleanedKey(s, k, list[i], budget) \in V
             /\ step[<<i, s>>] = Monitor!CleanedKey(s, k, list[i], budget)
  <2>1. list[i] \in Monitor!Key /\ Monitor!KindOf(list[i]) = k
    BY <1>2, <1>3
  <2>2. Monitor!CleanedKey(s, Monitor!KindOf(list[i]), list[i], budget) \in V
    BY <2>1, KeyStays DEF V
  <2> QED
    BY <2>1, <2>2
<1>7. step \in [(1 .. n) \X V -> V]
  BY <1>6
<1> HIDE DEF step
<1>8. \A s \in SUBSET (1 .. n) : s # {} => Max(s) \in 1 .. n
  BY MaxIsLargest
<1>9. \E t : Tabled(t)
  <2>1. PICK t \in [SUBSET (1 .. n) -> V] : Laddered(t, base, step, n)
    BY ONLY n \in Nat, <1>5, <1>7, LadderTable
  <2>2. ASSUME NEW s \in SUBSET (1 .. n)
        PROVE  t[s] = IF s = {} THEN base ELSE Next1(t, s)
    <3>1. t[s] = IF s = {} THEN base ELSE step[<<Max(s), t[s \ {Max(s)}]>>]
      BY <2>1, <2>2 DEF Laddered
    <3>2. CASE s # {}
      <4>1. t[s \ {Max(s)}] \in V /\ Max(s) \in 1 .. n
        BY <1>8, <2>1, <3>2
      <4>2. step[<<Max(s), t[s \ {Max(s)}]>>] = Next1(t, s)
        BY ONLY <1>6, <4>1
      <4> QED
        BY <3>1, <3>2, <4>2
    <3> QED
      BY <3>1, <3>2
  <2> HIDE DEF Next1
  <2>3. t = [s \in SUBSET (1 .. n) |-> t[s]]
    BY <2>1
  <2>4. [s \in SUBSET (1 .. n) |-> t[s]]
           = [s \in SUBSET (1 .. n) |-> IF s = {} THEN base ELSE Next1(t, s)]
    BY <2>2
  <2> QED
    BY <2>3, <2>4
<1>10. Tabled(T)
  <2>1. T = CHOOSE t : Tabled(t)
    BY <1>1, <1>3, <1>4 DEF KindTable
  <2> HIDE DEF Tabled, T
  <2> QED
    BY <1>9, <2>1
<1>11. T[1 .. n] \in V
  <2>0. PICK t : t = T
    OBVIOUS
  <2>1. t = [s \in SUBSET (1 .. n) |-> IF s = {} THEN base ELSE Next1(t, s)]
    BY <1>10, <2>0
  <2> HIDE DEF T, Next1
  <2>2. \A s \in SUBSET (1 .. n) : t[s] = IF s = {} THEN base ELSE Next1(t, s)
    BY ONLY <2>1
  <2>3. {} \in SUBSET (1 .. n)
    OBVIOUS
  <2>4. t[{}] = base
    BY <2>2, <2>3
  <2>5. ASSUME NEW s \in SUBSET (1 .. n), s # {}, t[s \ {Max(s)}] \in V
        PROVE  t[s] = step[<<Max(s), t[s \ {Max(s)}]>>]
    <3>1. t[s] = Next1(t, s)
      BY <2>2, <2>5
    <3>2. Max(s) \in 1 .. n
      BY <1>8, <2>5
    <3>3. step[<<Max(s), t[s \ {Max(s)}]>>] = Next1(t, s)
      BY ONLY <1>6, <2>5, <3>2 DEF Next1
    <3> QED
      BY <3>1, <3>3
  <2>6. Climbs(t, step, n, V)
    BY ONLY <2>5 DEF Climbs
  <2> QED
    BY ONLY n \in Nat, <1>5, <1>7, <2>0, <2>4, <2>6, LadderStays
<1> QED
  BY <1>1, <1>3, <1>11, KindUnfolded DEF V

\* One turn of the automatic clean-ups, and the table by which they are defined.
AutoVisit(s, k) ==
    IF \/ ~policy[k].enabled
       \/ s.last[k] # 0 /\ clock < s.last[k] + policy[k].trigger_interval_secs
    THEN s
    ELSE [Monitor!CleanedKind(s, k, policy[k].max_deletions_per_run) EXCEPT !.last[k] = clock]
AutoTable(shelf) ==
    CHOOSE t : t = [s \in SUBSET DOMAIN Monitor!Kinds |->
        IF s = {} THEN shelf ELSE AutoVisit(t[s \ {Max(s)}], Monitor!Kinds[Max(s)])]

\* The automatic clean-ups, as a recursive function.
LEMMA AutoUnfolded ==
    ASSUME NEW shelf
    PROVE  Monitor!AutoCleaned(shelf) = AutoTable(shelf)[DOMAIN Monitor!Kinds]
BY DEF Monitor!AutoCleaned, Monitor!FoldLeft, Monitor!MapThenFoldSet, Monitor!Max, Max,
       AutoTable, AutoVisit

\* The kinds are three.
LEMMA ThreeKinds ==
    /\ DOMAIN Monitor!Kinds = 1 .. 3
    /\ \A i \in 1 .. 3 : Monitor!Kinds[i] \in Monitor!Kind
BY DEF Monitor!Kinds, Monitor!Kind, Monitor!Range

\* Setting the time of a clean-up leaves such a shelf.
LEMMA TimedStays ==
    ASSUME NEW l0 \in Lists, NEW a0 \in Lists, NEW s \in Shelves(l0, a0),
           NEW k \in Monitor!Kind, clock \in 0 .. LastTick
    PROVE  [s EXCEPT !.last[k] = clock] \in Shelves(l0, a0)
<1>1. PICK next : next = [s EXCEPT !.last[k] = clock]
  OBVIOUS
<1>2. /\ s.records \in [Monitor!Key -> Seq(Logged)]
      /\ s.archived \in [Monitor!Key -> Seq(Logged)]
      /\ s.keys \in KeyLists /\ s.last \in [Monitor!Kind -> 0 .. LastTick]
      /\ s.deleted \in Nat
      /\ s = [records |-> s.records, archived |-> s.archived, keys |-> s.keys,
              last |-> s.last, deleted |-> s.deleted]
  BY DEF Shelves, ShelfType
<1>3. next = [records |-> s.records, archived |-> s.archived, keys |-> s.keys,
              last |-> [s.last EXCEPT ![k] = clock], deleted |-> s.deleted]
  BY <1>1, <1>2
<1>4. [s.last EXCEPT ![k] = clock] \in [Monitor!Kind -> 0 .. LastTick]
  BY <1>2
<1>5. next \in ShelfType
  BY <1>2, <1>3, <1>4 DEF ShelfType
<1>6. next.records = s.records /\ next.archived = s.archived
  BY <1>3
<1> QED
  BY <1>1, <1>5, <1>6 DEF Shelves

\* The automatic clean-ups leave such a shelf.
LEMMA AutoStays ==
    ASSUME NEW l0 \in Lists, NEW a0 \in Lists, NEW shelf \in Shelves(l0, a0),
           clock \in 0 .. LastTick
    PROVE  Monitor!AutoCleaned(shelf) \in Shelves(l0, a0)
<1> DEFINE V == Shelves(l0, a0)
           T == AutoTable(shelf)
           step == [p \in (1 .. 3) \X V |-> AutoVisit(p[2], Monitor!Kinds[p[1]])]
           Next1(t, s) == AutoVisit(t[s \ {Max(s)}], Monitor!Kinds[Max(s)])
           Tabled(t) == t = [s \in SUBSET (1 .. 3) |-> IF s = {} THEN shelf ELSE Next1(t, s)]
<1>1. shelf \in V
  OBVIOUS
<1>2. ASSUME NEW i \in 1 .. 3, NEW s \in V
      PROVE  /\ AutoVisit(s, Monitor!Kinds[i]) \in V
             /\ step[<<i, s>>] = AutoVisit(s, Monitor!Kinds[i])
  <2>1. PICK k \in Monitor!Kind : k = Monitor!Kinds[i]
    BY ThreeKinds
  <2>2. PICK b : b = policy[k].max_deletions_per_run
    OBVIOUS
  <2>3. Monitor!CleanedKind(s, k, b) \in V
    BY KindStays
  <2>4. [Monitor!CleanedKind(s, k, b) EXCEPT !.last[k] = clock] \in V
    BY <2>3, TimedStays
  <2>5. AutoVisit(s, k) \in V
    BY <2>2, <2>4 DEF AutoVisit
  <2> QED
    BY <2>1, <2>5
<1> HIDE DEF V
<1>3. step \in [(1 .. 3) \X V -> V]
  BY <1>2
<1> HIDE DEF step
<1>4. \A s \in SUBSET (1 .. 3) : s # {} => Max(s) \in 1 .. 3
  BY MaxIsLargest
<1>5. \E t : Tabled(t)
  <2>1. PICK t \in [SUBSET (1 .. 3) -> V] : Laddered(t, shelf, step, 3)
    BY ONLY <1>1, <1>3, LadderTable
  <2>2. ASSUME NEW s \in SUBSET (1 .. 3)
        PROVE  t[s] = IF s = {} THEN shelf ELSE Next1(t, s)
    <3>1. t[s] = IF s = {} THEN shelf ELSE step[<<Max(s), t[s \ {Max(s)}]>>]
      BY <2>1, <2>2 DEF Laddered
    <3>2. CASE s # {}
      <4>1. t[s \ {Max(s)}] \in V /\ Max(s) \in 1 .. 3
        BY <1>4, <2>1, <3>2
      <4>2. step[<<Max(s), t[s \ {Max(s)}]>>] = Next1(t, s)
        BY ONLY <1>2, <4>1
      <4> QED
        BY <3>1, <3>2, <4>2
    <3> QED
      BY <3>1, <3>2
  <2> HIDE DEF Next1
  <2>3. t = [s \in SUBSET (1 .. 3) |-> t[s]]
    BY <2>1
  <2>4. [s \in SUBSET (1 .. 3) |-> t[s]]
           = [s \in SUBSET (1 .. 3) |-> IF s = {} THEN shelf ELSE Next1(t, s)]
    BY <2>2
  <2> QED
    BY <2>3, <2>4
<1>6. Tabled(T)
  <2>1. T = CHOOSE t : Tabled(t)
    BY ThreeKinds DEF AutoTable
  <2> HIDE DEF Tabled, T
  <2> QED
    BY <1>5, <2>1
<1>7. T[1 .. 3] \in V
  <2>1. PICK t : t = T
    OBVIOUS
  <2>2. t = [s \in SUBSET (1 .. 3) |-> IF s = {} THEN shelf ELSE Next1(t, s)]
    BY <1>6, <2>1
  <2> HIDE DEF T, Next1
  <2>3. \A s \in SUBSET (1 .. 3) : t[s] = IF s = {} THEN shelf ELSE Next1(t, s)
    BY ONLY <2>2
  <2>4. {} \in SUBSET (1 .. 3)
    OBVIOUS
  <2>5. t[{}] = shelf
    BY <2>3, <2>4
  <2>6. ASSUME NEW s \in SUBSET (1 .. 3), s # {}, t[s \ {Max(s)}] \in V
        PROVE  t[s] = step[<<Max(s), t[s \ {Max(s)}]>>]
    <3>1. t[s] = Next1(t, s)
      BY <2>3, <2>6
    <3>2. Max(s) \in 1 .. 3
      BY <1>4, <2>6
    <3>3. step[<<Max(s), t[s \ {Max(s)}]>>] = Next1(t, s)
      BY ONLY <1>2, <2>6, <3>2 DEF Next1
    <3> QED
      BY <3>1, <3>3
  <2>7. Climbs(t, step, 3, V)
    BY ONLY <2>6 DEF Climbs
  <2> QED
    BY ONLY <1>1, <1>3, <2>1, <2>5, <2>7, LadderStays
<1> QED
  BY <1>7, ThreeKinds, AutoUnfolded DEF V

\* The same for the clean-up that the administrator runs over every kind.
OldVisit(s, k) ==
    IF s.left = 0 \/ ~policy[k].enabled THEN s
    ELSE LET done == Monitor!CleanedKind(s.shelf, k,
                        Monitor!Smaller(policy[k].max_deletions_per_run, s.left))
         IN  [shelf |-> [done EXCEPT !.last[k] = clock], left |-> s.left - done.deleted]
OldTable(base) ==
    CHOOSE t : t = [s \in SUBSET DOMAIN Monitor!Kinds |->
        IF s = {} THEN base ELSE OldVisit(t[s \ {Max(s)}], Monitor!Kinds[Max(s)])]

\* That clean-up, as a recursive function.
LEMMA OldUnfolded ==
    ASSUME NEW shelf, NEW total
    PROVE  Monitor!CleanedOld(shelf, total)
              = OldTable([shelf |-> shelf, left |-> total])[DOMAIN Monitor!Kinds].shelf
BY DEF Monitor!CleanedOld, Monitor!FoldLeft, Monitor!MapThenFoldSet, Monitor!Max, Max,
       OldTable, OldVisit

\* A clean-up of the kinds in their order leaves such a shelf.
LEMMA OldStays ==
    ASSUME NEW l0 \in Lists, NEW a0 \in Lists, NEW shelf \in Shelves(l0, a0),
           NEW total \in Int, clock \in 0 .. LastTick
    PROVE  Monitor!CleanedOld(shelf, total) \in Shelves(l0, a0)
<1> DEFINE V == [shelf : Shelves(l0, a0), left : Int]
           base == [shelf |-> shelf, left |-> total]
           T == OldTable(base)
           step == [p \in (1 .. 3) \X V |-> OldVisit(p[2], Monitor!Kinds[p[1]])]
           Next1(t, s) == OldVisit(t[s \ {Max(s)}], Monitor!Kinds[Max(s)])
           Tabled(t) == t = [s \in SUBSET (1 .. 3) |-> IF s = {} THEN base ELSE Next1(t, s)]
<1>1. base \in V
  OBVIOUS
<1>2. ASSUME NEW i \in 1 .. 3, NEW s \in V
      PROVE  /\ OldVisit(s, Monitor!Kinds[i]) \in V
             /\ step[<<i, s>>] = OldVisit(s, Monitor!Kinds[i])
  <2>1. PICK k \in Monitor!Kind : k = Monitor!Kinds[i]
    BY ThreeKinds
  <2>2. PICK b, x : b = Monitor!Smaller(policy[k].max_deletions_per_run, s.left) /\ x = s.shelf
    OBVIOUS
  <2>3. PICK done : done = Monitor!CleanedKind(x, k, b)
    OBVIOUS
  <2>4. x \in Shelves(l0, a0) /\ s.left \in Int
    BY <2>2
  <2>5. done \in Shelves(l0, a0)
    BY <2>3, <2>4, KindStays
  <2>6. [done EXCEPT !.last[k] = clock] \in Shelves(l0, a0)
    BY <2>5, TimedStays
  <2>7. done.deleted \in Nat
    BY <2>5 DEF Shelves, ShelfType
  <2>8. [shelf |-> [done EXCEPT !.last[k] = clock], left |-> s.left - done.deleted] \in V
    BY <2>4, <2>6, <2>7
  <2>9. OldVisit(s, k) \in V
    BY <2>2, <2>3, <2>8 DEF OldVisit
  <2> QED
    BY <2>1, <2>9
<1>s. \A v \in V : v.shelf \in Shelves(l0, a0)
  OBVIOUS
<1> HIDE DEF V, base
<1>3. step \in [(1 .. 3) \X V -> V]
  BY <1>2
<1> HIDE DEF step
<1>4. \A s \in SUBSET (1 .. 3) : s # {} => Max(s) \in 1 .. 3
  BY MaxIsLargest
<1>5. \E t : Tabled(t)
  <2>1. PICK t \in [SUBSET (1 .. 3) -> V] : Laddered(t, base, step, 3)
    BY ONLY <1>1, <1>3, LadderTable
  <2>2. ASSUME NEW s \in SUBSET (1 .. 3)
        PROVE  t[s] = IF s = {} THEN base ELSE Next1(t, s)
    <3>1. t[s] = IF s = {} THEN base ELSE step[<<Max(s), t[s \ {Max(s)}]>>]
      BY <2>1, <2>2 DEF Laddered
    <3>2. CASE s # {}
      <4>1. t[s \ {Max(s)}] \in V /\ Max(s) \in 1 .. 3
        BY <1>4, <2>1, <3>2
      <4>2. step[<<Max(s), t[s \ {Max(s)}]>>] = Next1(t, s)
        BY ONLY <1>2, <4>1
      <4> QED
        BY <3>1, <3>2, <4>2
    <3> QED
      BY <3>1, <3>2
  <2> HIDE DEF Next1
  <2>3. t = [s \in SUBSET (1 .. 3) |-> t[s]]
    BY <2>1
  <2>4. [s \in SUBSET (1 .. 3) |-> t[s]]
           = [s \in SUBSET (1 .. 3) |-> IF s = {} THEN base ELSE Next1(t, s)]
    BY <2>2
  <2> QED
    BY <2>3, <2>4
<1>6. Tabled(T)
  <2>1. T = CHOOSE t : Tabled(t)
    BY ThreeKinds DEF OldTable
  <2> HIDE DEF Tabled, T
  <2> QED
    BY <1>5, <2>1
<1>7. T[1 .. 3] \in V
  <2>1. PICK t : t = T
    OBVIOUS
  <2>2. t = [s \in SUBSET (1 .. 3) |-> IF s = {} THEN base ELSE Next1(t, s)]
    BY <1>6, <2>1
  <2> HIDE DEF T, Next1
  <2>3. \A s \in SUBSET (1 .. 3) : t[s] = IF s = {} THEN base ELSE Next1(t, s)
    BY ONLY <2>2
  <2>4. {} \in SUBSET (1 .. 3)
    OBVIOUS
  <2>5. t[{}] = base
    BY <2>3, <2>4
  <2>6. ASSUME NEW s \in SUBSET (1 .. 3), s # {}, t[s \ {Max(s)}] \in V
        PROVE  t[s] = step[<<Max(s), t[s \ {Max(s)}]>>]
    <3>1. t[s] = Next1(t, s)
      BY <2>3, <2>6
    <3>2. Max(s) \in 1 .. 3
      BY <1>4, <2>6
    <3>3. step[<<Max(s), t[s \ {Max(s)}]>>] = Next1(t, s)
      BY ONLY <1>2, <2>6, <3>2 DEF Next1
    <3> QED
      BY <3>1, <3>3
  <2>7. Climbs(t, step, 3, V)
    BY ONLY <2>6 DEF Climbs
  <2> QED
    BY ONLY <1>1, <1>3, <2>1, <2>5, <2>7, LadderStays
<1> QED
  BY <1>7, <1>s, ThreeKinds, OldUnfolded DEF base
-----------------------------------------------------------------------------
\* The list and the archive of a key hold records numbered from 1 to n, each at most once.
Filed(l, a, n) ==
    /\ Apart(l, a)
    /\ \A i \in 1 .. Len(l) : l[i].id \in 1 .. n
    /\ \A i \in 1 .. Len(a) : a[i].id \in 1 .. n

\* Clean-ups keep records filed.
LEMMA CleanedFiled ==
    ASSUME NEW key, NEW l0 \in Seq(Logged), NEW a0 \in Seq(Logged), NEW n, Filed(l0, a0, n),
           NEW l, NEW a, Cleaned(key, l0, a0, l, a)
    PROVE  l \in Seq(Logged) /\ a \in Seq(Logged) /\ Filed(l, a, n)
<1>1. /\ l \in Seq(Logged) /\ a \in Seq(Logged) /\ Apart(l, a)
      /\ \A i \in 1 .. Len(l) : \E j \in 1 .. Len(l0) : l[i] = l0[j]
      /\ \A i \in 1 .. Len(a) : \/ \E j \in 1 .. Len(a0) : a[i] = a0[j]
                                \/ \E j \in 1 .. Len(l0) : a[i] = l0[j]
  BY DEF Cleaned
<1>2. /\ \A i \in 1 .. Len(l0) : l0[i].id \in 1 .. n
      /\ \A i \in 1 .. Len(a0) : a0[i].id \in 1 .. n
  BY DEF Filed
<1>3. ASSUME NEW i \in 1 .. Len(l) PROVE l[i].id \in 1 .. n
  <2>1. PICK j \in 1 .. Len(l0) : l[i] = l0[j]
    BY <1>1, <1>3
  <2> QED
    BY <1>2, <2>1
<1>4. ASSUME NEW i \in 1 .. Len(a) PROVE a[i].id \in 1 .. n
  <2>1. CASE \E j \in 1 .. Len(a0) : a[i] = a0[j]
    BY <1>2, <2>1
  <2>2. CASE \E j \in 1 .. Len(l0) : a[i] = l0[j]
    BY <1>2, <2>2
  <2> QED
    BY <1>1, <1>4, <2>1, <2>2
<1> QED
  BY <1>1, <1>3, <1>4 DEF Filed

\* w is the list l with one more record, the one numbered n + 1.
Longer(w, l, a, n, r) ==
    /\ w \in Seq(Logged) /\ Filed(w, a, n + 1) /\ Len(w) = Len(l) + 1 /\ w[Len(l) + 1] = r
    /\ \A i \in 1 .. Len(l) : w[i] = l[i]

\* A record with the next number is filed after the others.
LEMMA AppendedFiled ==
    ASSUME NEW l \in Seq(Logged), NEW a \in Seq(Logged), NEW n \in Nat, Filed(l, a, n),
           NEW r \in Logged, r.id = n + 1, NEW w, w = Append(l, r)
    PROVE  Longer(w, l, a, n, r)
<1>1. PICK m \in Nat, p \in Nat : m = Len(l) /\ p = Len(a)
  OBVIOUS
<1>2. /\ w \in Seq(Logged) /\ Len(w) = m + 1 /\ w[m + 1] = r
      /\ \A i \in 1 .. m : w[i] = l[i]
  BY <1>1
<1>3. /\ \A i, j \in 1 .. m : i < j => l[i].id < l[j].id
      /\ \A i, j \in 1 .. p : i # j => a[i].id # a[j].id
      /\ \A i \in 1 .. p, j \in 1 .. m : a[i].id # l[j].id
      /\ \A i \in 1 .. m : l[i].id \in 1 .. n
      /\ \A i \in 1 .. p : a[i].id \in 1 .. n
  BY <1>1 DEF Filed, Apart, Rising
<1>4. \A i \in 1 .. m + 1 : i \in 1 .. m \/ i = m + 1
  OBVIOUS
<1>5. ASSUME NEW i \in 1 .. m + 1, NEW j \in 1 .. m + 1, i < j
      PROVE  w[i].id < w[j].id
  <2>1. i \in 1 .. m
    BY <1>5
  <2>2. CASE j = m + 1
    <3>1. w[i].id \in 1 .. n /\ w[j].id = n + 1
      BY <1>2, <1>3, <2>1, <2>2
    <3>2. \A x \in 1 .. n : x < n + 1
      OBVIOUS
    <3> QED
      BY <3>1, <3>2
  <2>3. CASE j \in 1 .. m
    BY <1>2, <1>3, <1>5, <2>1, <2>3
  <2> QED
    BY <1>4, <2>2, <2>3
<1>6. ASSUME NEW i \in 1 .. p, NEW j \in 1 .. m + 1
      PROVE  a[i].id # w[j].id
  <2>1. CASE j = m + 1
    <3>1. a[i].id \in 1 .. n /\ w[j].id = n + 1
      BY <1>2, <1>3, <2>1
    <3> QED
      BY <3>1
  <2>2. CASE j \in 1 .. m
    BY <1>2, <1>3, <2>2
  <2> QED
    BY <1>4, <2>1, <2>2
<1>7. \A i \in 1 .. m + 1 : w[i].id \in 1 .. n + 1
  BY <1>2, <1>3, <1>4
<1>8. \A i \in 1 .. p : a[i].id \in 1 .. n + 1
  BY <1>3
<1>9. Rising(w)
  BY <1>2, <1>5 DEF Rising
<1>10. Apart(w, a)
  BY <1>1, <1>2, <1>3, <1>6, <1>9 DEF Apart
<1>11. Filed(w, a, n + 1)
  BY <1>1, <1>2, <1>7, <1>8, <1>10 DEF Filed
<1> QED
  BY <1>1, <1>2, <1>11 DEF Longer

\* The list of a key that lost entries, in order, is filed as it was.
LEMMA FewerFiled ==
    ASSUME NEW l \in Seq(Logged), NEW a \in Seq(Logged), NEW n, Filed(l, a, n),
           NEW w \in Seq(Logged), Rising(w),
           \A i \in 1 .. Len(w) : \E j \in 1 .. Len(l) : w[i] = l[j]
    PROVE  Filed(w, a, n)
<1>1. PICK m \in Nat, p \in Nat, q \in Nat : m = Len(l) /\ p = Len(a) /\ q = Len(w)
  OBVIOUS
<1>2. /\ \A i, j \in 1 .. p : i # j => a[i].id # a[j].id
      /\ \A i \in 1 .. p, j \in 1 .. m : a[i].id # l[j].id
      /\ \A i \in 1 .. m : l[i].id \in 1 .. n
      /\ \A i \in 1 .. p : a[i].id \in 1 .. n
  BY <1>1 DEF Filed, Apart
<1>3. ASSUME NEW i \in 1 .. q
      PROVE  w[i].id \in 1 .. n /\ \A j \in 1 .. p : a[j].id # w[i].id
  <2>1. PICK j \in 1 .. m : w[i] = l[j]
    BY <1>1, <1>3
  <2> QED
    BY <1>2, <2>1
<1>4. Apart(w, a)
  BY <1>1, <1>2, <1>3 DEF Apart
<1> QED
  BY <1>1, <1>2, <1>3, <1>4 DEF Filed

\* prune_checkpoints keeps the last entries, no more than the maximum.
LEMMA PrunedFiled ==
    ASSUME NEW l \in Seq(Logged), NEW a \in Seq(Logged), NEW n, Filed(l, a, n),
           NEW max \in Nat \ {0}, NEW w, w = Monitor!Pruned(l, max)
    PROVE  /\ w \in Seq(Logged) /\ Filed(w, a, n) /\ Len(w) <= max
           /\ \A i \in 1 .. Len(w) : \E j \in 1 .. Len(l) : w[i] = l[j]
           /\ l # <<>> => w # <<>> /\ w[Len(w)] = l[Len(l)]
<1>1. PICK m \in Nat : m = Len(l)
  OBVIOUS
<1>2. Rising(l)
  BY DEF Filed, Apart
<1>3. CASE m <= max
  <2>1. w = l
    BY <1>1, <1>3 DEF Monitor!Pruned
  <2>2. \A i \in 1 .. Len(w) : \E j \in 1 .. Len(l) : w[i] = l[j]
    BY <2>1
  <2> QED
    BY <1>1, <1>3, <2>1, <2>2
<1>4. CASE m > max
  <2>1. w = SubSeq(l, m - max + 1, m)
    BY <1>1, <1>4 DEF Monitor!Pruned
  <2>2. /\ w \in Seq(Logged) /\ Len(w) = max
        /\ \A i \in 1 .. max : w[i] = l[m - max + i]
    BY <1>1, <1>4, <2>1
  <2>3. \A i \in 1 .. max : m - max + i \in 1 .. m
    BY <1>4
  <2>4. \A i \in 1 .. Len(w) : \E j \in 1 .. Len(l) : w[i] = l[j]
    BY <1>1, <2>2, <2>3
  <2>5. Rising(w)
    <3>1. ASSUME NEW i \in 1 .. max, NEW j \in 1 .. max, i < j PROVE w[i].id < w[j].id
      <4>1. /\ m - max + i \in 1 .. m /\ m - max + j \in 1 .. m
            /\ m - max + i < m - max + j
        BY <1>4, <3>1
      <4> QED
        BY <1>1, <1>2, <2>2, <4>1 DEF Rising
    <3> QED
      BY <2>2, <3>1 DEF Rising
  <2>6. w[max] = l[m] /\ w # <<>>
    <3>1. max \in 1 .. max /\ m - max + max = m
      OBVIOUS
    <3> QED
      BY <2>2, <3>1
  <2>7. Filed(w, a, n)
    BY <2>2, <2>4, <2>5, FewerFiled
  <2> QED
    BY <1>1, <2>2, <2>4, <2>6, <2>7
<1> QED
  BY <1>3, <1>4


\* The expiry sweep keeps what is not past its time to live, of the list of a key.
LEMMA TrimmedFiled ==
    ASSUME NEW l \in Seq(Logged), NEW a \in Seq(Logged), NEW n, Filed(l, a, n),
           NEW w, w = Monitor!Trimmed(l)
    PROVE  /\ w \in Seq(Logged) /\ Filed(w, a, n)
           /\ \A i \in 1 .. Len(l) : Monitor!Past(l[i]) \/ \E j \in 1 .. Len(w) : w[j] = l[i]
           /\ l # <<>> /\ expiration.preserve_latest_history => w # <<>>
<1>1. PICK m \in Nat : m = Len(l) /\ DOMAIN l = 1 .. m
  OBVIOUS
<1>2. PICK S : S = {i \in 1 .. m : ~Monitor!Past(l[i])}
  OBVIOUS
<1>3. PICK c : c = Monitor!Chosen(l, S)
  OBVIOUS
<1>4. Part(l, S, c)
  BY <1>3, ChosenPart DEF Filed, Apart
<1>5. /\ c \in Seq(Logged) /\ Rising(c)
      /\ \A k \in 1 .. Len(c) : \E i \in 1 .. m : i \in S /\ c[k] = l[i]
      /\ \A i \in 1 .. m : i \in S => \E k \in 1 .. Len(c) : c[k] = l[i]
  BY <1>1, <1>4 DEF Part
<1>6. Monitor!Chosen(l, {i \in DOMAIN l : ~Monitor!Past(l[i])}) = c
  BY <1>1, <1>2, <1>3
<1>7. w = IF c = <<>> /\ l # <<>> /\ expiration.preserve_latest_history
          THEN <<Monitor!Last(l)>> ELSE c
  BY ONLY <1>6, w = Monitor!Trimmed(l) DEF Monitor!Trimmed
<1>8. CASE w = c
  <2>1. \A i \in 1 .. Len(w) : \E j \in 1 .. Len(l) : w[i] = l[j]
    BY <1>1, <1>5, <1>8
  <2>2. Filed(w, a, n)
    BY <1>5, <1>8, <2>1, FewerFiled
  <2>3. \A i \in 1 .. m : Monitor!Past(l[i]) \/ i \in S
    BY <1>2
  <2>4. l # <<>> /\ expiration.preserve_latest_history => w # <<>>
    BY <1>7, <1>8
  <2> QED
    BY <1>1, <1>5, <1>8, <2>2, <2>3, <2>4
<1>9. CASE w # c
  <2>1. c = <<>> /\ l # <<>> /\ w = <<Monitor!Last(l)>>
    BY <1>7, <1>9
  <2>2. m \in 1 .. m
    BY <1>1, <2>1, NoEntry
  <2>3. PICK r \in Logged : r = l[m]
    BY <1>1, <2>2
  <2>4. w = <<r>>
    BY <1>1, <2>1, <2>3 DEF Monitor!Last
  <2>5. w \in Seq(Logged) /\ Len(w) = 1 /\ w[1] = r
    BY <2>4
  <2>6. Rising(w)
    BY <2>5 DEF Rising
  <2>7. \A i \in 1 .. Len(w) : \E j \in 1 .. Len(l) : w[i] = l[j]
    BY <1>1, <2>2, <2>3, <2>5
  <2>8. Filed(w, a, n)
    BY <2>5, <2>6, <2>7, FewerFiled
  <2>9. Len(c) = 0
    BY <2>1
  <2>10. \A i \in 1 .. m : i \notin S
    BY <1>5, <2>9
  <2>11. \A i \in 1 .. m : Monitor!Past(l[i])
    BY <1>2, <2>10
  <2>12. w # <<>>
    BY <2>4
  <2> QED
    BY <1>1, <2>5, <2>8, <2>11, <2>12
<1> QED
  BY <1>8, <1>9
-----------------------------------------------------------------------------
\* The records, their archives and their keys, and the settings they depend on.
RecordsInv ==
    /\ clock \in 1 .. LastTick
    /\ records \in Lists /\ archived \in Lists /\ keys \in KeyLists
    /\ last_cleanup \in [Monitor!Kind -> 0 .. LastTick]
    /\ written \in [Monitor!Key -> Nat]
    /\ expiration \in Monitor!ExpirationPolicy
    /\ checkpointing.max_checkpoints \in Nat \ {0}
    /\ \A key \in Monitor!Key : Filed(records[key], archived[key], written[key])

\* What a call makes of the records of a key that it does not sweep: it cleans a list that
\* has all of them.
JustCleaned(key) ==
    \E l0 \in Seq(Logged) :
        /\ Rising(l0)
        /\ \A i \in 1 .. Len(records[key]) : \E j \in 1 .. Len(l0) : l0[j] = records[key][i]
        /\ Cleaned(key, l0, archived[key], records'[key], archived'[key])

\* The part of a call that clean-ups and recorders end with: of the lists l0, filed with the
\* archives up to the numbers n0, the ones that the clean-ups leave.
Refiled(l0, n0) ==
    /\ records' \in Lists /\ archived' \in Lists /\ keys' \in KeyLists
    /\ last_cleanup' \in [Monitor!Kind -> 0 .. LastTick]
    /\ \A key \in Monitor!Key :
          /\ Rising(l0[key]) /\ Filed(records'[key], archived'[key], n0[key])
          /\ Cleaned(key, l0[key], archived[key], records'[key], archived'[key])

\* A shelf that clean-ups start from is one they may leave.
LEMMA ShelfStarts ==
    ASSUME RecordsInv, NEW l0 \in Lists, NEW ks \in KeyLists, NEW n0,
           \A key \in Monitor!Key : Filed(l0[key], archived[key], n0[key])
    PROVE  Monitor!Shelf(l0, ks) \in Shelves(l0, archived)
<1>1. PICK s : s = Monitor!Shelf(l0, ks)
  OBVIOUS
<1>2. s = [records |-> l0, archived |-> archived, keys |-> ks, last |-> last_cleanup,
           deleted |-> 0]
  BY <1>1 DEF Monitor!Shelf
<1>3. /\ l0 \in [Monitor!Key -> Seq(Logged)] /\ archived \in [Monitor!Key -> Seq(Logged)]
      /\ last_cleanup \in [Monitor!Kind -> 0 .. LastTick] /\ 0 \in Nat
  BY DEF RecordsInv, Lists
<1>4. s \in ShelfType
  BY <1>2, <1>3 DEF ShelfType
<1>5. ASSUME NEW key \in Monitor!Key
      PROVE  Cleaned(key, l0[key], archived[key], s.records[key], s.archived[key])
  <2>1. /\ l0[key] \in Seq(Logged) /\ archived[key] \in Seq(Logged)
        /\ Apart(l0[key], archived[key])
    BY <1>3 DEF Filed
  <2> QED
    BY <1>2, <2>1, CleanedNot
<1> QED
  BY <1>1, <1>4, <1>5 DEF Shelves

\* Putting a shelf back.
LEMMA ShelvedRefiles ==
    ASSUME RecordsInv, NEW l0 \in Lists, NEW n0,
           \A key \in Monitor!Key : Filed(l0[key], archived[key], n0[key]),
           NEW s \in Shelves(l0, archived), Monitor!Shelved(s)
    PROVE  Refiled(l0, n0)
<1>1. /\ records' = s.records /\ archived' = s.archived /\ keys' = s.keys
      /\ last_cleanup' = s.last
  BY DEF Monitor!Shelved
<1>2. /\ s.records \in Lists /\ s.archived \in Lists /\ s.keys \in KeyLists
      /\ s.last \in [Monitor!Kind -> 0 .. LastTick]
  BY DEF Shelves, ShelfType, Lists
<1>3. ASSUME NEW key \in Monitor!Key
      PROVE  /\ Cleaned(key, l0[key], archived[key], s.records[key], s.archived[key])
             /\ Filed(s.records[key], s.archived[key], n0[key])
  <2>1. Cleaned(key, l0[key], archived[key], s.records[key], s.archived[key])
    BY DEF Shelves
  <2>2. l0[key] \in Seq(Logged) /\ archived[key] \in Seq(Logged)
    BY DEF RecordsInv, Lists
  <2> QED
    BY <2>1, <2>2, CleanedFiled
<1>4. \A key \in Monitor!Key : Rising(l0[key])
  BY DEF Filed, Apart
<1> QED
  BY <1>1, <1>2, <1>3, <1>4 DEF Refiled


\* A key that is not swept is just cleaned.
LEMMA RefiledJust ==
    ASSUME NEW l0 \in Lists, NEW n0, Refiled(l0, n0), NEW key \in Monitor!Key,
           \A i \in 1 .. Len(records[key]) : \E j \in 1 .. Len(l0[key]) : l0[key][j] = records[key][i]
    PROVE  JustCleaned(key)
<1>1. PICK l : l = l0[key]
  OBVIOUS
<1>2. l \in Seq(Logged)
  BY <1>1 DEF Lists
<1>3. Rising(l) /\ Cleaned(key, l, archived[key], records'[key], archived'[key])
  BY <1>1 DEF Refiled
<1>4. \A i \in 1 .. Len(records[key]) : \E j \in 1 .. Len(l) : l[j] = records[key][i]
  BY <1>1
<1> QED
  BY <1>2, <1>3, <1>4 DEF JustCleaned

\* The clean-ups of a list of lists.
LEMMA AutoRefiles ==
    ASSUME RecordsInv, NEW l0 \in Lists, NEW ks \in KeyLists, NEW n0,
           \A key \in Monitor!Key : Filed(l0[key], archived[key], n0[key]),
           Monitor!Shelved(Monitor!AutoCleaned(Monitor!Shelf(l0, ks)))
    PROVE  Refiled(l0, n0)
<1>1. PICK s : s = Monitor!Shelf(l0, ks)
  OBVIOUS
<1>2. s \in Shelves(l0, archived)
  BY <1>1, ShelfStarts
<1>3. archived \in Lists /\ clock \in 0 .. LastTick
  BY DEF RecordsInv
<1>4. PICK d : d = Monitor!AutoCleaned(s)
  OBVIOUS
<1>5. d \in Shelves(l0, archived)
  BY ONLY <1>2, <1>3, <1>4, l0 \in Lists, AutoStays
<1>6. Monitor!Shelved(d)
  <2>1. Monitor!Shelved(Monitor!AutoCleaned(Monitor!Shelf(l0, ks)))
    OBVIOUS
  <2> QED
    BY ONLY <1>1, <1>4, <2>1 DEF Monitor!Shelved
<1> QED
  BY <1>5, <1>6, ShelvedRefiles

\* A record is typed.
LEMMA RecordLogged ==
    ASSUME RecordsInv, NEW id \in Nat,
           NEW asset \in MismatchAssets \cup Pairs \cup {Monitor!CheckpointList}, NEW ttl \in Nat
    PROVE  Monitor!Record(id, asset, ttl) \in Logged /\ Monitor!Record(id, asset, ttl).id = id
BY DEF RecordsInv, Logged, Monitor!Record

\* What record_supply_mismatch and record_liquidity_depth do with the records.
LEMMA RecordedRefiles ==
    ASSUME RecordsInv, Monitor!MonitorConstants, NEW key \in Bridges \cup Pairs,
           NEW asset \in MismatchAssets \cup Pairs, Monitor!Recorded(key, asset)
    PROVE  /\ written' \in [Monitor!Key -> Nat]
           /\ \E l0 \in Lists :
                 /\ Refiled(l0, written')
                 /\ l0[Monitor!CheckpointList] = records[Monitor!CheckpointList]
                 /\ \A other \in Monitor!Key : \A i \in 1 .. Len(records[other]) :
                       \E j \in 1 .. Len(l0[other]) : l0[other][j] = records[other][i]
<1>1. /\ key \in Monitor!Key /\ key # Monitor!CheckpointList
      /\ Monitor!CheckpointList \in Monitor!Key
  BY DEF Monitor!Key, Monitor!MonitorConstants
<1>n. PICK n : n = written[key] /\ n \in Nat
  BY <1>1 DEF RecordsInv
<1>l. PICK l, a : l = records[key] /\ a = archived[key]
  OBVIOUS
<1>2. n = written[key] /\ l = records[key] /\ a = archived[key] /\ n \in Nat
  BY <1>n, <1>l
<1>3. l \in Seq(Logged) /\ a \in Seq(Logged) /\ Filed(l, a, n)
  BY <1>1, <1>2 DEF RecordsInv, Lists
<1>t. PICK ttl \in Nat : ttl = Monitor!Ttl(Monitor!KindOf(key))
  BY DEF RecordsInv, Monitor!ExpirationPolicy, Monitor!Ttl
<1>4. PICK r : r = Monitor!Record(n + 1, asset, ttl)
  OBVIOUS
<1>5. r \in Logged /\ r.id = n + 1
  <2>1. n + 1 \in Nat
    BY <1>2
  <2> QED
    BY <1>3, <1>4, <2>1, RecordLogged
<1>6. PICK w : w = Append(l, r)
  OBVIOUS
<1>7. /\ w \in Seq(Logged) /\ Filed(w, a, n + 1) /\ Len(w) = Len(l) + 1
      /\ \A i \in 1 .. Len(l) : w[i] = l[i]
  <2>1. Longer(w, l, a, n, r)
    BY <1>2, <1>3, <1>5, <1>6, AppendedFiled
  <2> QED
    BY <2>1 DEF Longer
<1>8. PICK l0 : l0 = [records EXCEPT ![key] = w]
  OBVIOUS
<1>9. /\ l0 \in Lists /\ l0[key] = w
      /\ \A other \in Monitor!Key : other # key => l0[other] = records[other]
  BY <1>1, <1>7, <1>8 DEF RecordsInv, Lists
<1>10. PICK k : k = Monitor!KindOf(key)
  OBVIOUS
<1>11. k \in Monitor!Kind
  BY <1>10 DEF Monitor!KindOf, Monitor!Kind, Monitor!Kinds, Monitor!Range
<1>12. PICK ks : ks = IF key \in Monitor!Range(keys[k]) THEN keys
                      ELSE [keys EXCEPT ![k] = Append(keys[k], key)]
  OBVIOUS
<1>13. ks \in KeyLists
  <2>1. CASE key \in Monitor!Range(keys[k])
    BY <1>12, <2>1 DEF RecordsInv
  <2>2. CASE key \notin Monitor!Range(keys[k])
    <3>1. PICK c \in Seq(Monitor!Key) : c = keys[k] /\ \A i \in 1 .. Len(c) : Monitor!KindOf(c[i]) = k
      BY <1>11 DEF RecordsInv, KeyLists
    <3>2. PICK d : d = Append(c, key)
      OBVIOUS
    <3>3. PICK m \in Nat : m = Len(c)
      BY <3>1
    <3>4. /\ d \in Seq(Monitor!Key) /\ Len(d) = m + 1 /\ d[m + 1] = key
          /\ \A i \in 1 .. m : d[i] = c[i]
      BY <1>1, <3>1, <3>2, <3>3
    <3>5. \A i \in 1 .. m + 1 : Monitor!KindOf(d[i]) = k
      <4>1. \A i \in 1 .. m + 1 : i = m + 1 \/ i \in 1 .. m
        OBVIOUS
      <4> QED
        BY <1>10, <3>1, <3>3, <3>4, <4>1, ZenonT(40)
    <3>6. ks = [keys EXCEPT ![k] = d]
      BY <1>12, <2>2, <3>1, <3>2
    <3>7. keys \in [Monitor!Kind -> Seq(Monitor!Key)]
          /\ \A o \in Monitor!Kind : \A i \in 1 .. Len(keys[o]) : Monitor!KindOf(keys[o][i]) = o
      BY DEF RecordsInv, KeyLists
    <3>8. ks \in [Monitor!Kind -> Seq(Monitor!Key)]
      BY <1>11, <3>4, <3>6, <3>7
    <3>9. ASSUME NEW o \in Monitor!Kind, NEW i \in 1 .. Len(ks[o]) PROVE Monitor!KindOf(ks[o][i]) = o
      <4>1. CASE o = k
        <5>1. ks[o] = d
          BY <1>11, <3>6, <3>7, <4>1
        <5> QED
          BY <3>4, <3>5, <3>9, <4>1, <5>1
      <4>2. CASE o # k
        <5>1. ks[o] = keys[o]
          BY <1>11, <3>6, <3>7, <4>2
        <5> QED
          BY <3>7, <3>9, <5>1
      <4> QED
        BY <4>1, <4>2
    <3> QED
      BY <3>8, <3>9 DEF KeyLists
  <2> QED
    BY <2>1, <2>2
<1>14. /\ written' = [written EXCEPT ![key] = n + 1]
       /\ Monitor!Shelved(Monitor!AutoCleaned(Monitor!Shelf(l0, ks)))
  <2>1. /\ written' = [written EXCEPT ![key] = written[key] + 1]
        /\ Monitor!Shelved(Monitor!AutoCleaned(Monitor!Shelf(
              [records EXCEPT ![key] = Append(records[key],
                    Monitor!Record(written[key] + 1, asset, Monitor!Ttl(Monitor!KindOf(key))))],
              IF key \in Monitor!Range(keys[Monitor!KindOf(key)]) THEN keys
              ELSE [keys EXCEPT ![Monitor!KindOf(key)] =
                       Append(keys[Monitor!KindOf(key)], key)])))
    BY DEF Monitor!Recorded
  <2>2. l0 = [records EXCEPT ![key] = Append(records[key],
                    Monitor!Record(written[key] + 1, asset, Monitor!Ttl(Monitor!KindOf(key))))]
    BY <1>2, <1>t, <1>4, <1>6, <1>8
  <2> QED
    BY ONLY <1>2, <1>10, <1>12, <2>1, <2>2
<1>15. /\ written' \in [Monitor!Key -> Nat] /\ written'[key] = n + 1
       /\ \A other \in Monitor!Key : other # key => written'[other] = written[other]
  BY <1>1, <1>2, <1>14 DEF RecordsInv
<1>16. PICK n0 : n0 = written'
  OBVIOUS
<1>17. ASSUME NEW other \in Monitor!Key
       PROVE  Filed(l0[other], archived[other], n0[other])
  <2>1. CASE other = key
    BY <1>2, <1>7, <1>9, <1>15, <1>16, <2>1
  <2>2. CASE other # key
    <3>1. l0[other] = records[other] /\ n0[other] = written[other]
      BY <1>9, <1>15, <1>16, <2>2
    <3> QED
      BY <3>1 DEF RecordsInv
  <2> QED
    BY <2>1, <2>2
<1>18. Refiled(l0, n0)
  BY <1>9, <1>13, <1>14, <1>17, AutoRefiles
<1>19. ASSUME NEW other \in Monitor!Key, NEW i \in 1 .. Len(records[other])
       PROVE  \E j \in 1 .. Len(l0[other]) : l0[other][j] = records[other][i]
  <2>1. CASE other = key
    <3>1. PICK m \in Nat : m = Len(l)
      BY <1>3
    <3>2. i \in 1 .. m /\ i \in 1 .. m + 1
      BY <1>2, <1>19, <2>1, <3>1
    <3> QED
      BY <1>2, <1>7, <1>9, <2>1, <3>1, <3>2
  <2>2. CASE other # key
    BY <1>9, <1>19, <2>2
  <2> QED
    BY <2>1, <2>2
<1>20. Refiled(l0, written')
  BY <1>16, <1>18
<1> QED
  BY <1>1, <1>9, <1>15, <1>19, <1>20


\* What clean_up_old_data and cleanup_data_type do with the records.
LEMMA CleanupRefiles ==
    ASSUME RecordsInv, NEW caller, NEW max \in Int,
           \/ Monitor!CleanupOldData(caller, max)
           \/ \E k \in Monitor!Kind : Monitor!CleanupDataType(caller, k, max)
    PROVE  UNCHANGED written /\ Refiled(records, written)
<1>1. PICK s : s = Monitor!Shelf(records, keys)
  OBVIOUS
<1>2. /\ records \in Lists /\ keys \in KeyLists
      /\ \A key \in Monitor!Key : Filed(records[key], archived[key], written[key])
  BY DEF RecordsInv
<1>3. s \in Shelves(records, archived)
  BY <1>1, <1>2, ShelfStarts
<1>4. archived \in Lists /\ clock \in 0 .. LastTick
  BY DEF RecordsInv
<1>5. ASSUME NEW d \in Shelves(records, archived), Monitor!Shelved(d)
      PROVE  Refiled(records, written)
  BY <1>2, <1>5, ShelvedRefiles
<1>6. CASE Monitor!CleanupOldData(caller, max)
  <2>1. PICK d : d = Monitor!CleanedOld(s, max)
    OBVIOUS
  <2>2. d \in Shelves(records, archived)
    BY ONLY <1>2, <1>3, <1>4, <2>1, max \in Int, OldStays
  <2>3. Monitor!Shelved(Monitor!CleanedOld(Monitor!Shelf(records, keys), max))
        /\ UNCHANGED written
    BY <1>6 DEF Monitor!CleanupOldData
  <2>4. Monitor!Shelved(d)
    BY ONLY <1>1, <2>1, <2>3 DEF Monitor!Shelved
  <2> QED
    BY <1>5, <2>2, <2>3, <2>4
<1>7. ASSUME NEW k \in Monitor!Kind, Monitor!CleanupDataType(caller, k, max)
      PROVE  UNCHANGED written /\ Refiled(records, written)
  <2>1. PICK b : b = Monitor!Smaller(policy[k].max_deletions_per_run, max)
    OBVIOUS
  <2>2. PICK d : d = Monitor!CleanedKind(s, k, b)
    OBVIOUS
  <2>3. d \in Shelves(records, archived)
    BY <1>2, <1>3, <1>4, <2>2, KindStays
  <2>4. PICK e : e = [d EXCEPT !.last[k] = clock]
    OBVIOUS
  <2>5. e \in Shelves(records, archived)
    BY <1>2, <1>4, <2>3, <2>4, TimedStays
  <2>6. Monitor!Shelved([Monitor!CleanedKind(Monitor!Shelf(records, keys), k,
                            Monitor!Smaller(policy[k].max_deletions_per_run, max))
                         EXCEPT !.last[k] = clock])
        /\ UNCHANGED written
    BY <1>7 DEF Monitor!CleanupDataType
  <2>7. Monitor!Shelved(e)
    BY ONLY <1>1, <2>1, <2>2, <2>4, <2>6 DEF Monitor!Shelved
  <2> QED
    BY <1>5, <2>5, <2>6, <2>7
<1> QED
  BY <1>6, <1>7

\* What the expiry sweep does with the records.
LEMMA SweepTrims ==
    ASSUME RecordsInv, NEW caller, NEW max, Monitor!CleanupExpiredData(caller, max)
    PROVE  /\ records' \in Lists /\ UNCHANGED <<archived, keys, last_cleanup, written>>
           /\ records'[Monitor!CheckpointList] = records[Monitor!CheckpointList]
           /\ \A key \in Monitor!Key :
                 /\ Filed(records'[key], archived[key], written[key])
                 /\ key # Monitor!CheckpointList => records'[key] = Monitor!Trimmed(records[key])
<1>1. /\ records' = [key \in Monitor!Key |-> IF key = Monitor!CheckpointList THEN records[key]
                                             ELSE Monitor!Trimmed(records[key])]
      /\ UNCHANGED <<archived, keys, last_cleanup, written>>
  BY DEF Monitor!CleanupExpiredData
<1>2. Monitor!CheckpointList \in Monitor!Key
  BY DEF Monitor!Key
<1>3. ASSUME NEW key \in Monitor!Key
      PROVE  /\ records'[key] \in Seq(Logged)
             /\ Filed(records'[key], archived[key], written[key])
  <2>1. PICK l, a : l = records[key] /\ a = archived[key]
    OBVIOUS
  <2>2. l \in Seq(Logged) /\ a \in Seq(Logged) /\ Filed(l, a, written[key])
    BY <2>1 DEF RecordsInv, Lists
  <2>3. CASE key = Monitor!CheckpointList
    BY <1>1, <2>1, <2>2, <2>3
  <2>4. CASE key # Monitor!CheckpointList
    <3>1. PICK w : w = Monitor!Trimmed(l)
      OBVIOUS
    <3>2. w \in Seq(Logged) /\ Filed(w, a, written[key])
      BY <2>2, <3>1, TrimmedFiled
    <3>3. records'[key] = w
      BY <1>1, <2>1, <2>4, <3>1
    <3> QED
      BY <2>1, <3>2, <3>3
  <2> QED
    BY <2>3, <2>4
<1>4. records' \in Lists
  BY <1>1, <1>3 DEF Lists
<1>5. \A key \in Monitor!Key :
          key # Monitor!CheckpointList => records'[key] = Monitor!Trimmed(records[key])
  BY <1>1
<1> QED
  BY <1>1, <1>2, <1>3, <1>4, <1>5
-----------------------------------------------------------------------------
\* The checkpoints of a list are the ones stored.
Listed(list, snaps) ==
    \A id \in Monitor!CheckpointId :
        snaps[id] # Monitor!Nothing <=> \E i \in 1 .. Len(list) : list[i].id = id

\* The numbers of a list.
LEMMA IdsOf ==
    ASSUME NEW list \in Seq(Logged), NEW id
    PROVE  id \in Monitor!Ids(list) <=> \E i \in 1 .. Len(list) : list[i].id = id
<1>1. DOMAIN list = 1 .. Len(list)
  OBVIOUS
<1> QED
  BY <1>1 DEF Monitor!Ids, Monitor!Range

\* What a list loses is dropped.
LEMMA DroppedListed ==
    ASSUME NEW before \in Seq(Logged), NEW after \in Seq(Logged), NEW snaps,
           Listed(before, snaps),
           \A i \in 1 .. Len(after) : \E j \in 1 .. Len(before) : after[i] = before[j]
    PROVE  Listed(after, Monitor!Dropped(snaps, before, after))
<1>1. PICK left : left = Monitor!Dropped(snaps, before, after)
  OBVIOUS
<1>2. ASSUME NEW id \in Monitor!CheckpointId
      PROVE  left[id] # Monitor!Nothing <=> \E i \in 1 .. Len(after) : after[i].id = id
  <2>1. left[id] = IF id \in Monitor!Ids(before) \ Monitor!Ids(after)
                   THEN Monitor!Nothing ELSE snaps[id]
    BY <1>1 DEF Monitor!Dropped
  <2>2. /\ id \in Monitor!Ids(before) <=> \E i \in 1 .. Len(before) : before[i].id = id
        /\ id \in Monitor!Ids(after) <=> \E i \in 1 .. Len(after) : after[i].id = id
    BY IdsOf
  <2>3. snaps[id] # Monitor!Nothing <=> id \in Monitor!Ids(before)
    BY <2>2 DEF Listed
  <2>4. id \in Monitor!Ids(after) => id \in Monitor!Ids(before)
    BY <2>2
  <2> QED
    BY <2>1, <2>2, <2>3, <2>4
<1> QED
  BY <1>1, <1>2 DEF Listed

\* The checkpoints listed are the ones stored, and no more than the maximum.
SnapshotsInv ==
    /\ Listed(records[Monitor!CheckpointList], snapshots)
    /\ Len(records[Monitor!CheckpointList]) <= checkpointing.max_checkpoints

\* Clean-ups drop what they take from the list of checkpoints.
LEMMA FollowLists ==
    ASSUME RecordsInv, SnapshotsInv, Monitor!SnapshotsFollow,
           NEW l0 \in Lists, NEW n0, Refiled(l0, n0),
           l0[Monitor!CheckpointList] = records[Monitor!CheckpointList]
    PROVE  SnapshotsInv'
<1>1. PICK before, after : /\ before = records[Monitor!CheckpointList]
                           /\ after = records'[Monitor!CheckpointList]
  OBVIOUS
<1>2. Monitor!CheckpointList \in Monitor!Key
  BY DEF Monitor!Key
<1>3. before \in Seq(Logged) /\ after \in Seq(Logged)
  BY <1>1, <1>2 DEF RecordsInv, Lists, Refiled
<1>4. /\ Len(after) <= Len(before)
      /\ \A i \in 1 .. Len(after) : \E j \in 1 .. Len(before) : after[i] = before[j]
  <2>1. Cleaned(Monitor!CheckpointList, before, archived[Monitor!CheckpointList], after,
                archived'[Monitor!CheckpointList])
    BY <1>1, <1>2 DEF Refiled
  <2> QED
    BY ONLY <2>1 DEF Cleaned
<1>5. PICK snaps : snaps = Monitor!Dropped(snapshots, before, after)
  OBVIOUS
<1>6. Listed(after, snaps)
  BY <1>1, <1>3, <1>4, <1>5, DroppedListed DEF SnapshotsInv
<1>7. snapshots' = snaps /\ UNCHANGED checkpointing
  BY <1>1, <1>5 DEF Monitor!SnapshotsFollow
<1>8. Len(after) <= checkpointing.max_checkpoints
  <2>1. Len(before) <= checkpointing.max_checkpoints /\ checkpointing.max_checkpoints \in Nat
    BY <1>1 DEF SnapshotsInv, RecordsInv
  <2>2. Len(before) \in Nat /\ Len(after) \in Nat
    BY <1>3
  <2> QED
    BY <1>4, <2>1, <2>2
<1> QED
  BY <1>1, <1>6, <1>7, <1>8 DEF SnapshotsInv, Listed


\* persist_checkpoint files and stores the checkpoint it makes.
LEMMA PersistedRefiles ==
    ASSUME RecordsInv, SnapshotsInv, CheckpointsInv, Monitor!MonitorConstants,
           NEW from, Monitor!Persisted(from)
    PROVE  /\ SnapshotsInv' /\ written' \in [Monitor!Key -> Nat]
           /\ UNCHANGED <<expiration, checkpointing>>
           /\ \E id \in Monitor!CheckpointId :
                 snapshots[id] = Monitor!Nothing /\ snapshots'[id] = NewSnapshot(from)
           /\ \E l0 \in Lists :
                 /\ Refiled(l0, written')
                 /\ \A other \in Monitor!Key : other # Monitor!CheckpointList =>
                       l0[other] = records[other]
<1> DEFINE key == Monitor!CheckpointList
<1>1. key \in Monitor!Key
  BY DEF Monitor!Key
<1> HIDE DEF key
<1>n. PICK n : n = written[key] /\ n \in Nat
  BY <1>1 DEF RecordsInv
<1>l. PICK l, a, max : l = records[key] /\ a = archived[key] /\ max = checkpointing.max_checkpoints
  OBVIOUS
<1>2. /\ n = written[key] /\ l = records[key] /\ a = archived[key] /\ n \in Nat
      /\ max = checkpointing.max_checkpoints /\ max \in Nat \ {0}
  BY <1>n, <1>l DEF RecordsInv
<1>3. l \in Seq(Logged) /\ a \in Seq(Logged) /\ Filed(l, a, n)
  BY <1>1, <1>2 DEF RecordsInv, Lists
<1>4. PICK r : r = Monitor!Record(n + 1, Monitor!CheckpointList, 0)
  OBVIOUS
<1>5. r \in Logged /\ r.id = n + 1
  <2>1. n + 1 \in Nat /\ 0 \in Nat
    BY <1>2
  <2>2. Monitor!CheckpointList \in MismatchAssets \cup Pairs \cup {Monitor!CheckpointList}
    OBVIOUS
  <2> QED
    BY <1>4, <2>1, <2>2, RecordLogged
<1>6. PICK g : g = Append(l, r)
  OBVIOUS
<1>7. Longer(g, l, a, n, r)
  BY <1>2, <1>3, <1>5, <1>6, AppendedFiled
<1>8. PICK w : w = Monitor!Pruned(g, max)
  OBVIOUS
<1>9. /\ g \in Seq(Logged) /\ Filed(g, a, n + 1) /\ Len(g) = Len(l) + 1 /\ g[Len(l) + 1] = r
      /\ \A i \in 1 .. Len(l) : g[i] = l[i]
  BY <1>7 DEF Longer
<1>10. /\ w \in Seq(Logged) /\ Filed(w, a, n + 1) /\ Len(w) <= max
       /\ \A i \in 1 .. Len(w) : \E j \in 1 .. Len(g) : w[i] = g[j]
       /\ w # <<>> /\ w[Len(w)] = r
  <2>1. g # <<>>
    BY <1>6
  <2>2. /\ g \in Seq(Logged) /\ a \in Seq(Logged) /\ Filed(g, a, n + 1)
        /\ max \in Nat \ {0} /\ w = Monitor!Pruned(g, max)
    BY ONLY <1>2, <1>3, <1>8, <1>9
  <2>3. /\ w \in Seq(Logged) /\ Filed(w, a, n + 1) /\ Len(w) <= max
        /\ \A i \in 1 .. Len(w) : \E j \in 1 .. Len(g) : w[i] = g[j]
        /\ g # <<>> => w # <<>> /\ w[Len(w)] = g[Len(g)]
    BY ONLY <2>2, PrunedFiled, SMT
  <2>4. g[Len(g)] = r
    BY ONLY <1>9
  <2> QED
    BY ONLY <2>1, <2>3, <2>4
<1>11. PICK l0 : l0 = [records EXCEPT ![key] = w]
  OBVIOUS
<1>12. /\ l0 \in Lists /\ l0[key] = w
       /\ \A other \in Monitor!Key : other # key => l0[other] = records[other]
  BY <1>1, <1>10, <1>11 DEF RecordsInv, Lists
<1>13. PICK new : new = NewSnapshot(from)
  OBVIOUS
<1>14. PICK snaps : snaps = [snapshots EXCEPT ![n + 1] = new]
  OBVIOUS
<1>15. /\ n < MaxRecords /\ written' = [written EXCEPT ![key] = n + 1]
       /\ Monitor!Shelved(Monitor!AutoCleaned(Monitor!Shelf(l0, keys)))
       /\ snapshots' = Monitor!Dropped(snaps, g,
                          Monitor!AutoCleaned(Monitor!Shelf(l0, keys)).records[key])
       /\ UNCHANGED <<expiration, checkpointing>>
  BY <1>2, <1>4, <1>6, <1>8, <1>11, <1>13, <1>14 DEF Monitor!Persisted, NewSnapshot, key
<1>16. /\ written' \in [Monitor!Key -> Nat] /\ written'[key] = n + 1
       /\ \A other \in Monitor!Key : other # key => written'[other] = written[other]
  BY <1>1, <1>2, <1>15 DEF RecordsInv
<1>17. PICK n0 : n0 = written'
  OBVIOUS
<1>18. ASSUME NEW other \in Monitor!Key
       PROVE  Filed(l0[other], archived[other], n0[other])
  <2>1. CASE other = key
    BY <1>2, <1>10, <1>12, <1>16, <1>17, <2>1
  <2>2. CASE other # key
    <3>1. l0[other] = records[other] /\ n0[other] = written[other]
      BY <1>12, <1>16, <1>17, <2>2
    <3> QED
      BY <3>1 DEF RecordsInv
  <2> QED
    BY <2>1, <2>2
<1>19. Refiled(l0, n0)
  <2>1. keys \in KeyLists
    BY DEF RecordsInv
  <2> QED
    BY <1>12, <1>15, <1>18, <2>1, AutoRefiles
<1>20. PICK after : after = records'[key]
  OBVIOUS
<1>21. snapshots' = Monitor!Dropped(snaps, g, after)
  BY <1>15, <1>20 DEF Monitor!Shelved
<1>22. /\ after \in Seq(Logged) /\ Len(after) <= Len(w)
       /\ \A i \in 1 .. Len(after) : \E j \in 1 .. Len(w) : after[i] = w[j]
       /\ after # <<>> /\ after[Len(after)] = r
  BY <1>1, <1>10, <1>12, <1>19, <1>20, ZenonT(40) DEF Refiled, Cleaned
<1>23. n + 1 \in Monitor!CheckpointId
  <2>1. MaxRecords \in Nat
    BY DEF Monitor!MonitorConstants
  <2> QED
    BY <1>2, <1>15, <2>1 DEF Monitor!CheckpointId
<1>24. new # Monitor!Nothing
  <2>1. new.expires_at = 0 /\ Monitor!Nothing.expires_at = -1
    BY <1>13 DEF NewSnapshot, Monitor!Nothing
  <2> QED
    BY <2>1
<1>25. /\ snaps[n + 1] = new
       /\ \A id \in Monitor!CheckpointId : id # n + 1 => snaps[id] = snapshots[id]
  BY <1>14, <1>23 DEF CheckpointsInv
<1>26. PICK m \in Nat : m = Len(l)
  BY <1>3
<1>27. Listed(g, snaps)
  <2>1. ASSUME NEW id \in Monitor!CheckpointId
        PROVE  snaps[id] # Monitor!Nothing <=> \E i \in 1 .. m + 1 : g[i].id = id
    <3>1. CASE id = n + 1
      <4>1. m + 1 \in 1 .. m + 1 /\ g[m + 1].id = id
        BY <1>5, <1>9, <1>26, <3>1
      <4> QED
        BY <1>24, <1>25, <3>1, <4>1
    <3>2. CASE id # n + 1
      <4>1. snaps[id] # Monitor!Nothing <=> \E i \in 1 .. m : l[i].id = id
        BY <1>2, <1>25, <1>26, <3>2 DEF SnapshotsInv, Listed, key
      <4>2. \A i \in 1 .. m + 1 : (i \in 1 .. m /\ g[i] = l[i]) \/ g[i].id = n + 1
        <5>1. \A i \in 1 .. m + 1 : i \in 1 .. m \/ i = m + 1
          OBVIOUS
        <5> QED
          BY <1>5, <1>9, <1>26, <5>1
      <4>3. \A i \in 1 .. m : i \in 1 .. m + 1 /\ g[i] = l[i]
        BY <1>9, <1>26
      <4> QED
        BY <3>2, <4>1, <4>2, <4>3
    <3> QED
      BY <3>1, <3>2
  <2>2. Len(g) = m + 1
    BY <1>9, <1>26
  <2> QED
    BY <2>1, <2>2 DEF Listed
<1>28. \A i \in 1 .. Len(after) : \E j \in 1 .. Len(g) : after[i] = g[j]
  BY <1>10, <1>22
<1>29. Listed(after, snapshots')
  BY <1>9, <1>21, <1>22, <1>27, <1>28, DroppedListed
<1>30. Len(after) <= max
  BY <1>2, <1>10, <1>22
<1>31. SnapshotsInv'
  BY <1>2, <1>15, <1>20, <1>29, <1>30 DEF SnapshotsInv, Listed, key
<1>32. snapshots'[n + 1] = new
  <2>1. \E i \in 1 .. Len(after) : after[i].id = n + 1
    <3>1. Len(after) \in 1 .. Len(after)
      BY <1>22, NoEntry
    <3> QED
      BY <1>5, <1>22, <3>1
  <2>2. snapshots'[n + 1] # Monitor!Nothing
    BY <1>23, <1>29, <2>1 DEF Listed
  <2> QED
    BY <1>21, <1>23, <1>25, <2>2 DEF Monitor!Dropped
<1>33. snapshots[n + 1] = Monitor!Nothing
  <2>1. n + 1 > written[Monitor!CheckpointList]
    BY <1>2 DEF key
  <2>2. ~(n + 1 <= written[Monitor!CheckpointList])
    BY <1>2 DEF key
  <2> QED
    BY <1>23, <2>2 DEF CheckpointsInv
<1> QED
  BY <1>12, <1>13, <1>15, <1>16, <1>17, <1>19, <1>23, <1>31, <1>32, <1>33 DEF key

\* set_checkpoint_config prunes the list to the new maximum.
LEMMA ConfigLists ==
    ASSUME RecordsInv, SnapshotsInv, NEW caller, NEW config \in Checkpointing,
           config.max_checkpoints \in Nat, Monitor!SetCheckpointConfig(caller, config)
    PROVE  /\ SnapshotsInv' /\ records' \in Lists
           /\ UNCHANGED <<archived, keys, last_cleanup, written, expiration, clock>>
           /\ checkpointing'.max_checkpoints \in Nat \ {0}
           /\ \A key \in Monitor!Key :
                 /\ Filed(records'[key], archived[key], written[key])
                 /\ key # Monitor!CheckpointList => records'[key] = records[key]
<1> DEFINE key == Monitor!CheckpointList
<1>1. key \in Monitor!Key
  BY DEF Monitor!Key
<1> HIDE DEF key
<1>2. PICK l, a, max, n : /\ l = records[key] /\ a = archived[key]
                          /\ max = config.max_checkpoints /\ n = written[key]
  OBVIOUS
<1>3. l \in Seq(Logged) /\ a \in Seq(Logged) /\ Filed(l, a, n)
  BY <1>1, <1>2 DEF RecordsInv, Lists
<1>4. PICK w : w = Monitor!Pruned(l, max)
  OBVIOUS
<1>5. /\ max > 0 /\ checkpointing' = config
      /\ records' = [records EXCEPT ![key] = w]
      /\ snapshots' = Monitor!Dropped(snapshots, l, records'[key])
      /\ UNCHANGED <<archived, keys, last_cleanup, written, expiration, clock>>
  BY <1>2, <1>4 DEF Monitor!SetCheckpointConfig, Monitor!baseVars, key
<1>6. max \in Nat \ {0}
  BY <1>2, <1>5
<1>7. /\ w \in Seq(Logged) /\ Filed(w, a, n) /\ Len(w) <= max
      /\ \A i \in 1 .. Len(w) : \E j \in 1 .. Len(l) : w[i] = l[j]
  BY <1>3, <1>4, <1>6, PrunedFiled
<1>8. /\ records' \in Lists /\ records'[key] = w
      /\ \A other \in Monitor!Key : other # key => records'[other] = records[other]
  BY <1>1, <1>5, <1>7 DEF RecordsInv, Lists
<1>9. ASSUME NEW other \in Monitor!Key
      PROVE  Filed(records'[other], archived[other], written[other])
  <2>1. CASE other = key
    BY <1>2, <1>7, <1>8, <2>1
  <2>2. CASE other # key
    BY <1>8, <2>2 DEF RecordsInv
  <2> QED
    BY <2>1, <2>2
<1>10. Listed(w, Monitor!Dropped(snapshots, l, w))
  BY <1>2, <1>3, <1>7, DroppedListed DEF SnapshotsInv, key
<1>11. SnapshotsInv'
  <2>1. snapshots' = Monitor!Dropped(snapshots, l, w)
    BY <1>5, <1>8
  <2>2. Listed(w, snapshots')
    BY <1>10, <2>1
  <2> QED
    BY <1>2, <1>5, <1>7, <1>8, <2>2, SMTT(30) DEF SnapshotsInv, Listed, key
<1> QED
  BY <1>2, <1>5, <1>6, <1>8, <1>9, <1>11 DEF key
-----------------------------------------------------------------------------
\* What a step does to the records and the checkpoints.
RecordsMove ==
    \/ UNCHANGED <<Monitor!retentionVars, Monitor!checkpointVars>>
    \/ Monitor!RetentionStep
    \/ Monitor!Persisted(0)
    \/ \E caller \in Address, id \in Monitor!CheckpointId :
          Monitor!RestoreFromCheckpoint(caller, id)
    \/ \E caller \in Address, config \in Checkpointing :
          Monitor!SetCheckpointConfig(caller, config)

\* What a step does to the health of the assets and the histories of their prices.
ReadingsMove ==
    \/ UNCHANGED <<monitored, health, price_history>>
    \/ \E a \in Assets : /\ a \notin Monitor!Range(monitored)
                         /\ health' = [health EXCEPT ![a] = Monitor!AssetHealth(0, Monitor!Fresh)]
                         /\ monitored' = Append(monitored, a)
                         /\ UNCHANGED price_history
    \/ \E a \in Assets : \E score, status :
          /\ Monitor!Accepting(a) \/ (health[a] # Monitor!Nothing /\ score = health[a].score)
          /\ status \in {health[a]} \cup [paused : BOOLEAN, active : BOOLEAN]
          /\ health' = [health EXCEPT ![a] = Monitor!AssetHealth(score, status)]
          /\ UNCHANGED <<monitored, price_history>>
    \/ \E a \in Assets, amount \in Scores :
          /\ Monitor!Accepting(a)
          /\ price_history' = [price_history EXCEPT ![a] =
                                  Append(price_history[a], Monitor!PriceRecord(amount))]
          /\ UNCHANGED <<monitored, health>>
    \/ \E caller \in Address, items \in Monitor!Items : Monitor!BatchWritten(caller, items)
    \/ \E caller \in Address, a \in Assets, extra \in Extensions :
          Monitor!ExtendExpiration(caller, a, extra)
    \/ \E caller \in Address, max \in Budgets : Monitor!CleanupExpiredData(caller, max)
    \/ \E caller \in Address, id \in Monitor!CheckpointId :
          Monitor!RestoreFromCheckpoint(caller, id)

\* What a step does to the clock, the pause and the limits of the callers.
BaseMove ==
    /\ UNCHANGED clock \/ (clock < LastTick /\ clock' = clock + 1)
    /\ UNCHANGED blocked \/ blocked' = ~blocked
    /\ UNCHANGED rate_limit \/ rate_limit' \in Limits
    /\ UNCHANGED usage \/ \E caller : Monitor!RateLimited(caller)

\* What a step does to the settings of the records, and to the time of the last checkpoint.
TermsMove ==
    /\ UNCHANGED policy \/ \E k \in Monitor!Kind, new \in RetentionPolicies :
                                policy' = [policy EXCEPT ![k] = new]
    /\ UNCHANGED expiration \/ expiration' \in ExpirationPolicies
    /\ UNCHANGED last_checkpoint \/ last_checkpoint' = clock

\* What a step does to the sources.
SourcesMove ==
    \/ UNCHANGED source
    \/ \E a, new : new \in {"active", "revoked"} /\ source' = [source EXCEPT ![a] = new]

Writings == RecordsMove /\ ReadingsMove /\ BaseMove /\ TermsMove /\ SourcesMove

\* The checkpoint at the end of a call.
LEMMA AutoWrites ==
    ASSUME Monitor!AutoCheckpoint
    PROVE  RecordsMove /\ TermsMove
BY DEF Monitor!AutoCheckpoint, Monitor!Persisted, Monitor!retentionVars,
       Monitor!checkpointVars, RecordsMove, TermsMove

\* A call of the records and their clean-ups.
LEMMA RetentionWrites == Monitor!RetentionStep => Writings
<1> SUFFICES ASSUME Monitor!RetentionStep PROVE Writings
  OBVIOUS
<1>0. RecordsMove
  BY DEF RecordsMove
<1>1. ASSUME Monitor!SnapshotsFollow, BaseMove,
             UNCHANGED policy \/ \E k \in Monitor!Kind, new \in RetentionPolicies :
                                     policy' = [policy EXCEPT ![k] = new],
             UNCHANGED expiration \/ expiration' \in ExpirationPolicies
      PROVE  Writings
  BY <1>0, <1>1 DEF Monitor!SnapshotsFollow, Monitor!assetVars, Writings, ReadingsMove,
                    TermsMove, SourcesMove
<1>2. ASSUME NEW bridge \in Bridges, NEW a \in MismatchAssets,
             Monitor!RecordSupplyMismatch(bridge, a)
      PROVE  BaseMove /\ UNCHANGED <<policy, expiration>>
  BY <1>2 DEF Monitor!RecordSupplyMismatch, BaseMove
<1>3. ASSUME NEW pair \in Pairs, Monitor!RecordLiquidityDepth(pair)
      PROVE  BaseMove /\ UNCHANGED <<policy, expiration>>
  BY <1>3 DEF Monitor!RecordLiquidityDepth, BaseMove
<1>4. ASSUME NEW caller \in Address, NEW k \in Monitor!Kind, NEW new \in RetentionPolicies,
             Monitor!SetRetentionPolicy(caller, k, new)
      PROVE  BaseMove /\ policy' = [policy EXCEPT ![k] = new] /\ UNCHANGED expiration
  BY <1>4 DEF Monitor!SetRetentionPolicy, Monitor!baseVars, BaseMove
<1>5. ASSUME NEW caller \in Address, NEW a, NEW k, NEW secs,
             Monitor!SetAssetRetentionOverride(caller, a, k, secs)
      PROVE  BaseMove /\ UNCHANGED <<policy, expiration>>
  BY <1>5 DEF Monitor!SetAssetRetentionOverride, Monitor!baseVars, BaseMove
<1>6. ASSUME NEW caller \in Address, NEW max, Monitor!CleanupOldData(caller, max)
      PROVE  BaseMove /\ UNCHANGED <<policy, expiration>>
  BY <1>6 DEF Monitor!CleanupOldData, Monitor!baseVars, BaseMove
<1>7. ASSUME NEW caller \in Address, NEW k, NEW max, Monitor!CleanupDataType(caller, k, max)
      PROVE  BaseMove /\ UNCHANGED <<policy, expiration>>
  BY <1>7 DEF Monitor!CleanupDataType, Monitor!baseVars, BaseMove
<1>8. ASSUME NEW caller \in Address, NEW new \in ExpirationPolicies,
             Monitor!SetExpirationPolicy(caller, new)
      PROVE  BaseMove /\ UNCHANGED policy /\ expiration' \in ExpirationPolicies
  BY <1>8 DEF Monitor!SetExpirationPolicy, Monitor!baseVars, BaseMove
<1>9. ASSUME NEW caller \in Address, NEW max \in Budgets, Monitor!CleanupExpiredData(caller, max)
      PROVE  Writings
  <2>1. ReadingsMove
    BY <1>9 DEF ReadingsMove
  <2>2. BaseMove /\ TermsMove /\ SourcesMove
    BY <1>9 DEF Monitor!CleanupExpiredData, Monitor!baseVars, Monitor!checkpointVars,
                BaseMove, TermsMove, SourcesMove
  <2> QED
    BY <1>0, <2>1, <2>2 DEF Writings
<1> QED
  BY <1>1, <1>2, <1>3, <1>4, <1>5, <1>6, <1>7, <1>8, <1>9 DEF Monitor!RetentionStep

\* A call by someone on the whole of the monitor.
LEMMA SettingsWrite ==
    ASSUME NEW caller \in Address,
           \/ \E config \in Checkpointing : Monitor!SetCheckpointConfig(caller, config)
           \/ Monitor!CreateCheckpoint(caller)
           \/ \E id \in Monitor!CheckpointId : Monitor!RestoreFromCheckpoint(caller, id)
           \/ \E a \in Sources : Monitor!RegisterTrustedSource(caller, a)
                                 \/ Monitor!RevokeTrustedSource(caller, a)
           \/ \E w \in HealthWeights : Monitor!SetHealthWeights(caller, w)
           \/ \E config \in RiskConfigs : Monitor!SetRiskScoreConfig(caller, config)
    PROVE  Writings
<1>1. ASSUME NEW config \in Checkpointing, Monitor!SetCheckpointConfig(caller, config)
      PROVE  Writings
  <2>1. RecordsMove
    BY <1>1 DEF RecordsMove
  <2> QED
    BY <1>1, <2>1 DEF Monitor!SetCheckpointConfig, Monitor!assetVars, Monitor!baseVars,
              Writings, ReadingsMove, BaseMove, TermsMove, SourcesMove
<1>2. CASE Monitor!CreateCheckpoint(caller)
  BY <1>2 DEF Monitor!CreateCheckpoint, Monitor!assetVars, Monitor!baseVars, Monitor!Persisted,
              Writings, RecordsMove, ReadingsMove, BaseMove, TermsMove, SourcesMove
<1>3. ASSUME NEW id \in Monitor!CheckpointId, Monitor!RestoreFromCheckpoint(caller, id)
      PROVE  Writings
  <2>1. RecordsMove /\ ReadingsMove
    BY <1>3 DEF RecordsMove, ReadingsMove
  <2>2. BaseMove /\ SourcesMove /\ Monitor!Persisted(id)
    BY <1>3 DEF Monitor!RestoreFromCheckpoint, Monitor!baseVars, BaseMove, SourcesMove
  <2>3. TermsMove
    BY <2>2 DEF Monitor!Persisted, TermsMove
  <2> QED
    BY <2>1, <2>2, <2>3 DEF Writings
<1>4. ASSUME NEW a \in Sources,
             Monitor!RegisterTrustedSource(caller, a) \/ Monitor!RevokeTrustedSource(caller, a)
      PROVE  Writings
  <2>1. SourcesMove
    BY <1>4 DEF Monitor!RegisterTrustedSource, Monitor!RevokeTrustedSource, SourcesMove
  <2>2. UNCHANGED <<Monitor!baseVars, Monitor!retentionVars, Monitor!checkpointVars,
                    monitored, health, price_history>>
    BY <1>4 DEF Monitor!RegisterTrustedSource, Monitor!RevokeTrustedSource
  <2> QED
    BY <2>1, <2>2 DEF Monitor!baseVars, Monitor!retentionVars, Monitor!checkpointVars,
                      Writings, RecordsMove, ReadingsMove, BaseMove, TermsMove
<1>5. CASE \/ \E w \in HealthWeights : Monitor!SetHealthWeights(caller, w)
           \/ \E config \in RiskConfigs : Monitor!SetRiskScoreConfig(caller, config)
  <2>1. /\ UNCHANGED <<Monitor!baseVars, monitored, health, price_history, source>>
        /\ Monitor!AutoCheckpoint
    BY <1>5 DEF Monitor!SetHealthWeights, Monitor!SetRiskScoreConfig
  <2> QED
    BY <2>1, AutoWrites DEF Monitor!baseVars, Writings, ReadingsMove, BaseMove, SourcesMove
<1> QED
  BY <1>1, <1>2, <1>3, <1>4, <1>5

\* A call by someone on one asset.
LEMMA AssetWrites ==
    ASSUME NEW caller \in Address, NEW a \in Assets,
           \/ Monitor!RegisterAsset(caller, a) \/ Monitor!PauseAsset(caller, a)
           \/ Monitor!UnpauseAsset(caller, a) \/ Monitor!DeregisterAsset(caller, a)
           \/ Monitor!LockAsset(caller, a) \/ Monitor!UnlockAsset(caller, a)
           \/ \E c, override : Monitor!SubmitCalculatedHealth(caller, a, c, override)
           \/ \E extra \in Extensions : Monitor!ExtendExpiration(caller, a, extra)
    PROVE  Writings
<1>1. CASE Monitor!RegisterAsset(caller, a)
  <2>1. ReadingsMove
    BY <1>1 DEF Monitor!RegisterAsset, ReadingsMove
  <2>2. UNCHANGED Monitor!baseVars /\ UNCHANGED source /\ Monitor!AutoCheckpoint
    BY <1>1 DEF Monitor!RegisterAsset
  <2> QED
    BY <2>1, <2>2, AutoWrites DEF Monitor!baseVars, Writings, BaseMove, SourcesMove
<1>2. CASE Monitor!PauseAsset(caller, a) \/ Monitor!UnpauseAsset(caller, a)
           \/ Monitor!DeregisterAsset(caller, a)
  <2>1. PICK status \in [paused : BOOLEAN, active : BOOLEAN] :
            Monitor!SetStatus(a, status) /\ health[a] # Monitor!Nothing
    BY <1>2 DEF Monitor!PauseAsset, Monitor!UnpauseAsset, Monitor!DeregisterAsset
  <2>2. ReadingsMove
    BY <2>1 DEF Monitor!SetStatus, ReadingsMove
  <2>3. UNCHANGED Monitor!baseVars /\ UNCHANGED source /\ Monitor!AutoCheckpoint
    BY <2>1 DEF Monitor!SetStatus
  <2> QED
    BY <2>2, <2>3, AutoWrites DEF Monitor!baseVars, Writings, BaseMove, SourcesMove
<1>3. CASE Monitor!LockAsset(caller, a) \/ Monitor!UnlockAsset(caller, a)
  <2>1. UNCHANGED <<Monitor!baseVars, Monitor!retentionVars, Monitor!checkpointVars,
                    monitored, health, price_history, source>>
    BY <1>3 DEF Monitor!LockAsset, Monitor!UnlockAsset
  <2> QED
    BY <2>1 DEF Monitor!baseVars, Monitor!retentionVars, Monitor!checkpointVars, Writings,
                RecordsMove, ReadingsMove, BaseMove, TermsMove, SourcesMove
<1>4. ASSUME NEW c, NEW override, Monitor!SubmitCalculatedHealth(caller, a, c, override)
      PROVE  Writings
  <2>1. PICK score : /\ Monitor!Accepting(a) /\ UNCHANGED <<monitored, price_history>>
                     /\ health' = [health EXCEPT ![a] = Monitor!AssetHealth(score, health[a])]
    BY <1>4 DEF Monitor!SubmitCalculatedHealth
  <2>2. ReadingsMove
    BY <2>1 DEF ReadingsMove
  <2>3. /\ UNCHANGED <<clock, blocked, rate_limit, source>>
        /\ Monitor!AutoCheckpoint /\ Monitor!RateLimited(caller)
    BY <1>4 DEF Monitor!SubmitCalculatedHealth
  <2> QED
    BY <2>2, <2>3, AutoWrites DEF Writings, BaseMove, SourcesMove
<1>5. ASSUME NEW extra \in Extensions, Monitor!ExtendExpiration(caller, a, extra)
      PROVE  Writings
  <2>1. ReadingsMove
    BY <1>5 DEF ReadingsMove
  <2>2. UNCHANGED <<Monitor!baseVars, Monitor!retentionVars, Monitor!checkpointVars, source>>
    BY <1>5 DEF Monitor!ExtendExpiration
  <2> QED
    BY <2>1, <2>2 DEF Monitor!baseVars, Monitor!retentionVars, Monitor!checkpointVars, Writings,
                      RecordsMove, BaseMove, TermsMove, SourcesMove
<1> QED
  BY <1>1, <1>2, <1>3, <1>4, <1>5

\* What all seven kinds of submissions end with.
LEMMA SubmissionWrites ==
    ASSUME NEW caller \in Address,
           \/ \E a \in Assets, n \in Scores : \/ Monitor!HealthWritten(caller, a, n)
                                              \/ Monitor!PriceWritten(caller, a, n)
           \/ \E items \in Monitor!Items : Monitor!BatchWritten(caller, items)
    PROVE  Writings
<1>1. /\ UNCHANGED <<clock, blocked, rate_limit, source>>
      /\ Monitor!AutoCheckpoint /\ Monitor!RateLimited(caller)
  BY DEF Monitor!HealthWritten, Monitor!PriceWritten, Monitor!BatchWritten
<1>2. ASSUME NEW a \in Assets, NEW n \in Scores, Monitor!HealthWritten(caller, a, n)
      PROVE  ReadingsMove
  <2>1. /\ Monitor!Accepting(a) /\ UNCHANGED <<monitored, price_history>>
        /\ health' = [health EXCEPT ![a] = Monitor!AssetHealth(n, health[a])]
    BY <1>2 DEF Monitor!HealthWritten
  <2> QED
    BY <2>1 DEF ReadingsMove
<1>3. ASSUME NEW a \in Assets, NEW n \in Scores, Monitor!PriceWritten(caller, a, n)
      PROVE  ReadingsMove
  BY <1>3 DEF Monitor!PriceWritten, ReadingsMove
<1>4. ASSUME NEW items \in Monitor!Items, Monitor!BatchWritten(caller, items)
      PROVE  ReadingsMove
  BY <1>4 DEF ReadingsMove
<1>5. ReadingsMove
  BY <1>2, <1>3, <1>4
<1> QED
  BY <1>1, <1>5, AutoWrites DEF Writings, BaseMove, SourcesMove

\* Every step is one of these.
LEMMA StepWrites == [Monitor!Next]_(Monitor!vars) => Writings
<1> SUFFICES ASSUME [Monitor!Next]_(Monitor!vars) PROVE Writings
  OBVIOUS
<1>1. ASSUME UNCHANGED <<Monitor!retentionVars, Monitor!checkpointVars, Monitor!assetVars>>,
             BaseMove
      PROVE  Writings
  BY <1>1 DEF Monitor!retentionVars, Monitor!checkpointVars, Monitor!assetVars, Writings,
              RecordsMove, ReadingsMove, TermsMove, SourcesMove
<1>2. CASE UNCHANGED Monitor!vars
  BY <1>1, <1>2 DEF Monitor!vars, Monitor!baseVars, BaseMove
<1>3. CASE Monitor!RetentionStep
  BY <1>3, RetentionWrites
<1>4. CASE Monitor!BaseStep
  <2>1. BaseMove
    BY <1>4 DEF Monitor!BaseStep, Monitor!Tick, Monitor!Block, Monitor!SetRateLimitConfig,
                BaseMove
  <2> QED
    BY <1>1, <1>4, <2>1 DEF Monitor!BaseStep
<1>5. CASE Monitor!SignerStep
  BY <1>1, <1>5 DEF Monitor!SignerStep, Monitor!baseVars, BaseMove
<1>6. ASSUME Monitor!Next, ~Monitor!RetentionStep, ~Monitor!BaseStep, ~Monitor!SignerStep
      PROVE  Writings
  BY <1>6, SettingsWrite, AssetWrites, SubmissionWrites, ZenonT(40)
     DEF Monitor!Next, Monitor!SubmitHealth, Monitor!SubmitPrice, Monitor!SubmitHealthBatch,
         Monitor!SubmitHealthSigned, Monitor!SubmitPriceSigned, Monitor!SubmitHealthBatchSigned
<1> QED
  BY <1>2, <1>3, <1>4, <1>5, <1>6
-----------------------------------------------------------------------------
\* Records that are left alone are refiled as they were.
LEMMA StillRefiles ==
    ASSUME RecordsInv, UNCHANGED <<records, archived, keys, last_cleanup>>
    PROVE  Refiled(records, written)
<1>1. ASSUME NEW key \in Monitor!Key
      PROVE  /\ Rising(records[key])
             /\ Filed(records'[key], archived'[key], written[key])
             /\ Cleaned(key, records[key], archived[key], records'[key], archived'[key])
  <2>1. PICK l, a : l = records[key] /\ a = archived[key]
    OBVIOUS
  <2>2. l \in Seq(Logged) /\ a \in Seq(Logged) /\ Filed(l, a, written[key])
    BY <2>1 DEF RecordsInv, Lists
  <2>3. Apart(l, a) /\ Rising(l)
    BY <2>2 DEF Filed, Apart
  <2>4. Cleaned(key, l, a, l, a)
    BY <2>2, <2>3, CleanedNot
  <2> QED
    BY <2>1, <2>2, <2>3, <2>4
<1> QED
  BY <1>1 DEF Refiled, RecordsInv

\* The settings the records depend on keep their types.
TermsKept ==
    clock' \in 1 .. LastTick /\ expiration' \in Monitor!ExpirationPolicy

\* A call that refiles the records keeps them in order, and justifies what they lose.
LEMMA RefiledKeeps ==
    ASSUME RecordsInv, TermsKept, UNCHANGED checkpointing, written' \in [Monitor!Key -> Nat],
           NEW l0 \in Lists, Refiled(l0, written')
    PROVE  RecordsInv'
<1>1. PICK n0 : n0 = written'
  OBVIOUS
<1>2. Refiled(l0, n0)
  BY <1>1
<1>3. /\ records' \in Lists /\ archived' \in Lists /\ keys' \in KeyLists
      /\ last_cleanup' \in [Monitor!Kind -> 0 .. LastTick]
      /\ \A key \in Monitor!Key : Filed(records'[key], archived'[key], n0[key])
  BY <1>2 DEF Refiled
<1> QED
  BY <1>1, <1>3 DEF RecordsInv, TermsKept, Filed, Apart, Rising, Lists, KeyLists, Logged

\* Why a list may lose a record.
Justified(key) ==
    \/ JustCleaned(key)
    \/ /\ records'[key] = Monitor!Trimmed(records[key])
       /\ UNCHANGED <<archived, last_cleanup>>
RecordsJustified == \A key \in Monitor!Key \ {Monitor!CheckpointList} : Justified(key)

\* A call of the records and their clean-ups keeps them in order.
LEMMA RetentionKeeps ==
    ASSUME RecordsInv, SnapshotsInv, CheckpointsInv, Monitor!MonitorConstants, TermsKept,
           Monitor!RetentionStep
    PROVE  RecordsInv' /\ SnapshotsInv' /\ RecordsJustified
<1>1. Monitor!CheckpointList \in Monitor!Key /\ records \in Lists
      /\ written \in [Monitor!Key -> Nat]
  BY DEF Monitor!Key, RecordsInv
<1>2. ASSUME NEW l0 \in Lists, Refiled(l0, written'), written' \in [Monitor!Key -> Nat],
             l0[Monitor!CheckpointList] = records[Monitor!CheckpointList],
             \A other \in Monitor!Key : \A i \in 1 .. Len(records[other]) :
                \E j \in 1 .. Len(l0[other]) : l0[other][j] = records[other][i],
             Monitor!SnapshotsFollow
      PROVE  RecordsInv' /\ SnapshotsInv' /\ RecordsJustified
  <2>1. PICK n0 : n0 = written'
    OBVIOUS
  <2>2. Refiled(l0, n0)
    BY <1>2, <2>1
  <2>3. UNCHANGED checkpointing
    BY <1>2 DEF Monitor!SnapshotsFollow
  <2>4. RecordsInv'
    BY <1>2, <2>3, RefiledKeeps
  <2>5. SnapshotsInv'
    BY <1>2, <2>2, FollowLists
  <2>6. RecordsJustified
    BY <1>2, <2>2, RefiledJust DEF RecordsJustified, Justified
  <2> QED
    BY <2>4, <2>5, <2>6
<1>3. ASSUME Refiled(records, written), UNCHANGED written, Monitor!SnapshotsFollow
      PROVE  RecordsInv' /\ SnapshotsInv' /\ RecordsJustified
  <2>1. Refiled(records, written') /\ written' \in [Monitor!Key -> Nat]
    <3>1. PICK n0 : n0 = written /\ n0 = written'
      BY <1>3
    <3>2. Refiled(records, n0)
      BY <1>3, <3>1
    <3> QED
      BY <1>1, <3>1, <3>2
  <2>2. \A other \in Monitor!Key : \A i \in 1 .. Len(records[other]) :
            \E j \in 1 .. Len(records[other]) : records[other][j] = records[other][i]
    OBVIOUS
  <2> QED
    BY <1>1, <1>2, <1>3, <2>1, <2>2
<1>4. ASSUME NEW key \in Bridges \cup Pairs, NEW asset \in MismatchAssets \cup Pairs,
             Monitor!Recorded(key, asset), Monitor!SnapshotsFollow
      PROVE  RecordsInv' /\ SnapshotsInv' /\ RecordsJustified
  <2>1. written' \in [Monitor!Key -> Nat]
        /\ \E l0 \in Lists :
              /\ Refiled(l0, written')
              /\ l0[Monitor!CheckpointList] = records[Monitor!CheckpointList]
              /\ \A other \in Monitor!Key : \A i \in 1 .. Len(records[other]) :
                    \E j \in 1 .. Len(l0[other]) : l0[other][j] = records[other][i]
    BY <1>4, RecordedRefiles
  <2> QED
    BY <1>2, <1>4, <2>1
<1>5. ASSUME UNCHANGED <<records, archived, keys, last_cleanup, written>>,
             Monitor!SnapshotsFollow
      PROVE  RecordsInv' /\ SnapshotsInv' /\ RecordsJustified
  BY <1>3, <1>5, StillRefiles
<1>6. ASSUME NEW bridge \in Bridges, NEW a \in MismatchAssets,
             Monitor!RecordSupplyMismatch(bridge, a), Monitor!SnapshotsFollow
      PROVE  RecordsInv' /\ SnapshotsInv' /\ RecordsJustified
  BY <1>4, <1>6 DEF Monitor!RecordSupplyMismatch
<1>7. ASSUME NEW pair \in Pairs, Monitor!RecordLiquidityDepth(pair), Monitor!SnapshotsFollow
      PROVE  RecordsInv' /\ SnapshotsInv' /\ RecordsJustified
  BY <1>4, <1>7 DEF Monitor!RecordLiquidityDepth
<1>8. ASSUME NEW caller, NEW max \in Budgets, Monitor!SnapshotsFollow,
             \/ Monitor!CleanupOldData(caller, max)
             \/ \E k \in Monitor!Kind : Monitor!CleanupDataType(caller, k, max)
      PROVE  RecordsInv' /\ SnapshotsInv' /\ RecordsJustified
  <2>1. max \in Int
    BY DEF Monitor!MonitorConstants
  <2> QED
    BY <1>3, <1>8, <2>1, CleanupRefiles
<1>9. ASSUME NEW caller, NEW max, Monitor!CleanupExpiredData(caller, max)
      PROVE  RecordsInv' /\ SnapshotsInv' /\ RecordsJustified
  <2>1. /\ records' \in Lists /\ UNCHANGED <<archived, keys, last_cleanup, written>>
        /\ records'[Monitor!CheckpointList] = records[Monitor!CheckpointList]
        /\ \A key \in Monitor!Key :
              /\ Filed(records'[key], archived[key], written[key])
              /\ key # Monitor!CheckpointList => records'[key] = Monitor!Trimmed(records[key])
    BY <1>9, SweepTrims
  <2>2. UNCHANGED <<checkpointing, snapshots>>
    BY <1>9 DEF Monitor!CleanupExpiredData, Monitor!checkpointVars
  <2>5. \A key \in Monitor!Key : Filed(records'[key], archived'[key], written'[key])
    BY ONLY <2>1
  <2>6. /\ archived' \in Lists /\ keys' \in KeyLists /\ written' \in [Monitor!Key -> Nat]
        /\ last_cleanup' \in [Monitor!Kind -> 0 .. LastTick]
        /\ checkpointing'.max_checkpoints \in Nat \ {0}
    BY <2>1, <2>2 DEF RecordsInv
  <2>3. RecordsInv'
    BY <2>1, <2>5, <2>6 DEF RecordsInv, TermsKept, Filed, Apart, Rising, Lists, KeyLists, Logged
  <2>4. SnapshotsInv'
    BY <2>1, <2>2 DEF SnapshotsInv, Listed
  <2> QED
    BY <2>1, <2>3, <2>4 DEF RecordsJustified, Justified
<1>10. ASSUME NEW caller, NEW k, NEW new, Monitor!SetRetentionPolicy(caller, k, new),
              Monitor!SnapshotsFollow
       PROVE  RecordsInv' /\ SnapshotsInv' /\ RecordsJustified
  BY <1>5, <1>10 DEF Monitor!SetRetentionPolicy
<1>11. ASSUME NEW caller, NEW a, NEW k, NEW secs,
              Monitor!SetAssetRetentionOverride(caller, a, k, secs), Monitor!SnapshotsFollow
       PROVE  RecordsInv' /\ SnapshotsInv' /\ RecordsJustified
  BY <1>5, <1>11 DEF Monitor!SetAssetRetentionOverride
<1>12. ASSUME NEW caller, NEW new, Monitor!SetExpirationPolicy(caller, new),
              Monitor!SnapshotsFollow
       PROVE  RecordsInv' /\ SnapshotsInv' /\ RecordsJustified
  BY <1>5, <1>12 DEF Monitor!SetExpirationPolicy
<1> QED
  BY <1>6, <1>7, <1>8, <1>9, <1>10, <1>11, <1>12 DEF Monitor!RetentionStep


\* A call that leaves the records alone keeps them in order.
LEMMA StillKeeps ==
    ASSUME RecordsInv, SnapshotsInv, TermsKept,
           UNCHANGED <<Monitor!retentionVars, Monitor!checkpointVars>>
    PROVE  RecordsInv' /\ SnapshotsInv' /\ RecordsJustified
<1>1. /\ UNCHANGED <<records, archived, keys, last_cleanup, written>>
      /\ UNCHANGED <<checkpointing, snapshots>>
  BY DEF Monitor!retentionVars, Monitor!checkpointVars
<1>f. \A key \in Monitor!Key : Filed(records[key], archived[key], written[key])
  BY DEF RecordsInv
<1>g. \A key \in Monitor!Key : Filed(records'[key], archived'[key], written'[key])
  BY ONLY <1>1, <1>f
<1>h. /\ records' \in Lists /\ archived' \in Lists /\ keys' \in KeyLists
      /\ last_cleanup' \in [Monitor!Kind -> 0 .. LastTick]
      /\ written' \in [Monitor!Key -> Nat] /\ checkpointing'.max_checkpoints \in Nat \ {0}
  BY <1>1 DEF RecordsInv
<1>2. RecordsInv'
  BY <1>g, <1>h DEF RecordsInv, TermsKept, Filed, Apart, Rising, Lists, KeyLists, Logged
<1>3. SnapshotsInv'
  BY <1>1 DEF SnapshotsInv, Listed
<1>4. records \in Lists /\ Refiled(records, written)
  BY <1>1, StillRefiles DEF RecordsInv
<1>5. \A other \in Monitor!Key : \A i \in 1 .. Len(records[other]) :
          \E j \in 1 .. Len(records[other]) : records[other][j] = records[other][i]
  OBVIOUS
<1>6. RecordsJustified
  BY <1>4, <1>5, RefiledJust DEF RecordsJustified, Justified
<1> QED
  BY <1>2, <1>3, <1>6

\* A checkpoint saved keeps the records in order.
LEMMA PersistedKeeps ==
    ASSUME RecordsInv, SnapshotsInv, CheckpointsInv, Monitor!MonitorConstants, TermsKept,
           NEW from, Monitor!Persisted(from)
    PROVE  RecordsInv' /\ SnapshotsInv' /\ RecordsJustified
<1>1. /\ SnapshotsInv' /\ written' \in [Monitor!Key -> Nat]
      /\ UNCHANGED <<expiration, checkpointing>>
      /\ \E l0 \in Lists :
            /\ Refiled(l0, written')
            /\ \A other \in Monitor!Key : other # Monitor!CheckpointList =>
                  l0[other] = records[other]
  BY PersistedRefiles
<1>2. PICK l0 \in Lists :
          /\ Refiled(l0, written')
          /\ \A other \in Monitor!Key : other # Monitor!CheckpointList => l0[other] = records[other]
  BY <1>1
<1>3. PICK n0 : n0 = written'
  OBVIOUS
<1>4. Refiled(l0, n0)
  BY <1>2, <1>3
<1>5. RecordsInv'
  BY <1>1, <1>2, RefiledKeeps
<1>6. ASSUME NEW key \in Monitor!Key \ {Monitor!CheckpointList} PROVE JustCleaned(key)
  <2>1. \A i \in 1 .. Len(records[key]) :
            \E j \in 1 .. Len(l0[key]) : l0[key][j] = records[key][i]
    BY <1>2
  <2> QED
    BY <1>4, <2>1, RefiledJust
<1> QED
  BY <1>1, <1>5, <1>6 DEF RecordsJustified, Justified

\* A new checkpoint configuration keeps the records in order.
LEMMA ConfigKeeps ==
    ASSUME RecordsInv, SnapshotsInv, Monitor!MonitorConstants, TermsKept, NEW caller,
           NEW config \in Checkpointing, Monitor!SetCheckpointConfig(caller, config)
    PROVE  RecordsInv' /\ SnapshotsInv' /\ RecordsJustified
<1>1. config.max_checkpoints \in Nat
  BY DEF Monitor!MonitorConstants
<1>2. /\ SnapshotsInv' /\ records' \in Lists
      /\ UNCHANGED <<archived, keys, last_cleanup, written, expiration, clock>>
      /\ checkpointing'.max_checkpoints \in Nat \ {0}
      /\ \A key \in Monitor!Key :
            /\ Filed(records'[key], archived[key], written[key])
            /\ key # Monitor!CheckpointList => records'[key] = records[key]
  BY <1>1, ConfigLists
<1>3. \A key \in Monitor!Key : Filed(records'[key], archived'[key], written'[key])
  BY ONLY <1>2
<1>4. /\ archived' \in Lists /\ keys' \in KeyLists /\ written' \in [Monitor!Key -> Nat]
      /\ last_cleanup' \in [Monitor!Kind -> 0 .. LastTick]
  BY <1>2 DEF RecordsInv
<1>5. RecordsInv'
  BY <1>2, <1>3, <1>4 DEF RecordsInv, TermsKept, Filed, Apart, Rising, Lists, KeyLists, Logged
<1>6. ASSUME NEW key \in Monitor!Key \ {Monitor!CheckpointList} PROVE JustCleaned(key)
  <2>1. PICK l, a : l = records[key] /\ a = archived[key]
    OBVIOUS
  <2>2. l \in Seq(Logged) /\ a \in Seq(Logged) /\ Filed(l, a, written[key])
    BY <2>1 DEF RecordsInv, Lists
  <2>3. Apart(l, a) /\ Rising(l)
    BY <2>2 DEF Filed, Apart
  <2>4. Cleaned(key, l, a, l, a)
    BY <2>2, <2>3, CleanedNot
  <2>5. records'[key] = l /\ archived'[key] = a
    BY <1>2, <2>1
  <2>6. \A i \in 1 .. Len(records[key]) : \E j \in 1 .. Len(l) : l[j] = records[key][i]
    BY <2>1
  <2> QED
    BY <2>1, <2>2, <2>3, <2>4, <2>5, <2>6 DEF JustCleaned
<1> QED
  BY <1>2, <1>5, <1>6 DEF RecordsJustified, Justified

\* Every step keeps the records in order, and what it takes from them is justified.
LEMMA RecordsKeep ==
    ASSUME RecordsInv, SnapshotsInv, CheckpointsInv, Monitor!MonitorConstants, Writings
    PROVE  RecordsInv' /\ SnapshotsInv' /\ RecordsJustified
<1>1. TermsKept
  <2>1. clock' \in 1 .. LastTick
    BY DEF RecordsInv, Writings, BaseMove, Monitor!MonitorConstants
  <2>2. expiration' \in Monitor!ExpirationPolicy
    BY DEF RecordsInv, Writings, TermsMove, Monitor!MonitorConstants
  <2> QED
    BY <2>1, <2>2 DEF TermsKept
<1>2. ASSUME NEW caller, NEW id, Monitor!RestoreFromCheckpoint(caller, id)
      PROVE  Monitor!Persisted(id)
  BY <1>2 DEF Monitor!RestoreFromCheckpoint
<1> QED
  BY <1>1, <1>2, StillKeeps, RetentionKeeps, PersistedKeeps, ConfigKeeps
     DEF Writings, RecordsMove
-----------------------------------------------------------------------------
\* No record is kept twice.
LEMMA OnceChecked == RecordsInv => Monitor!RecordsOnce
<1> SUFFICES ASSUME RecordsInv, NEW key \in Monitor!Key,
                    NEW all, all = archived[key] \o records[key],
                    NEW i \in DOMAIN all, NEW j \in DOMAIN all, i # j
             PROVE  all[i].id # all[j].id
  BY DEF Monitor!RecordsOnce
<1>1. PICK l, a : l = records[key] /\ a = archived[key]
  OBVIOUS
<1>2. l \in Seq(Logged) /\ a \in Seq(Logged) /\ Filed(l, a, written[key])
  BY <1>1 DEF RecordsInv, Lists
<1>3. PICK m \in Nat, p \in Nat : m = Len(l) /\ p = Len(a)
  BY <1>2
<1>4. /\ \A x, y \in 1 .. p : x # y => a[x].id # a[y].id
      /\ \A x \in 1 .. p, y \in 1 .. m : a[x].id # l[y].id
      /\ Rising(l)
  BY <1>2, <1>3 DEF Filed, Apart
<1>5. \A x, y \in 1 .. m : x # y => l[x].id # l[y].id
  <2>1. \A x \in 1 .. m : l[x].id \in Nat
    BY <1>2, <1>3, NumbersOf
  <2>2. \A x, y \in 1 .. m : x < y => l[x].id < l[y].id
    BY <1>3, <1>4 DEF Rising
  <2> QED
    BY <2>1, <2>2
<1>6. all = a \o l
  BY <1>1
<1>7. /\ DOMAIN all = 1 .. p + m
      /\ \A x \in 1 .. p + m : all[x] = IF x <= p THEN a[x] ELSE l[x - p]
  BY <1>2, <1>3, <1>6
<1>8. \A x \in 1 .. p + m : \/ x \in 1 .. p /\ all[x] = a[x]
                            \/ x - p \in 1 .. m /\ all[x] = l[x - p]
  <2>1. \A x \in 1 .. p + m : \/ x \in 1 .. p /\ x <= p
                              \/ x - p \in 1 .. m /\ ~(x <= p)
    OBVIOUS
  <2> QED
    BY <1>7, <2>1
<1>9. i \in 1 .. p + m /\ j \in 1 .. p + m
  BY <1>7
<1>10. CASE i \in 1 .. p /\ all[i] = a[i]
  <2>1. CASE j \in 1 .. p /\ all[j] = a[j]
    BY <1>4, <1>10, <2>1
  <2>2. CASE j - p \in 1 .. m /\ all[j] = l[j - p]
    BY <1>4, <1>10, <2>2
  <2> QED
    BY <1>8, <1>9, <2>1, <2>2
<1>11. CASE i - p \in 1 .. m /\ all[i] = l[i - p]
  <2>1. CASE j \in 1 .. p /\ all[j] = a[j]
    BY <1>4, <1>11, <2>1
  <2>2. CASE j - p \in 1 .. m /\ all[j] = l[j - p]
    <3>1. i - p # j - p
      BY <1>9
    <3> QED
      BY <1>5, <1>11, <2>2, <3>1
  <2> QED
    BY <1>8, <1>9, <2>1, <2>2
<1> QED
  BY <1>8, <1>9, <1>10, <1>11

\* No key has more records than the bound on their numbers.
CountsInv == \A key \in Monitor!Key : written[key] <= MaxRecords

\* A call that counts one more record of a key had room for it.
LEMMA CountedMore ==
    ASSUME CountsInv, written \in [Monitor!Key -> Nat], MaxRecords \in Nat,
           NEW key \in Monitor!Key, written[key] < MaxRecords,
           written' = [written EXCEPT ![key] = written[key] + 1]
    PROVE  CountsInv'
BY DEF CountsInv

\* Every step keeps the bound.
LEMMA CountsKeep ==
    ASSUME CountsInv, RecordsInv, Monitor!MonitorConstants, Writings
    PROVE  CountsInv'
<1>1. /\ Monitor!CheckpointList \in Monitor!Key /\ Bridges \cup Pairs \subseteq Monitor!Key
      /\ written \in [Monitor!Key -> Nat] /\ MaxRecords \in Nat
  BY DEF Monitor!Key, Monitor!MonitorConstants, RecordsInv
<1>2. CASE UNCHANGED written
  BY <1>2 DEF CountsInv
<1>3. ASSUME NEW from, Monitor!Persisted(from)
      PROVE  CountsInv'
  BY <1>1, <1>3, CountedMore DEF Monitor!Persisted
<1>4. ASSUME NEW key \in Bridges \cup Pairs, NEW asset, Monitor!Recorded(key, asset)
      PROVE  CountsInv'
  BY <1>1, <1>4, CountedMore DEF Monitor!Recorded
<1>5. CASE Monitor!RetentionStep
  <2>1. ASSUME NEW bridge \in Bridges, NEW a, Monitor!RecordSupplyMismatch(bridge, a)
        PROVE  CountsInv'
    BY <1>4, <2>1 DEF Monitor!RecordSupplyMismatch
  <2>2. ASSUME NEW pair \in Pairs, Monitor!RecordLiquidityDepth(pair)
        PROVE  CountsInv'
    BY <1>4, <2>2 DEF Monitor!RecordLiquidityDepth
  <2>3. ASSUME NEW caller, NEW k, NEW new, Monitor!SetRetentionPolicy(caller, k, new)
        PROVE  UNCHANGED written
    BY <2>3 DEF Monitor!SetRetentionPolicy
  <2>4. ASSUME NEW caller, NEW a, NEW k, NEW secs,
               Monitor!SetAssetRetentionOverride(caller, a, k, secs)
        PROVE  UNCHANGED written
    BY <2>4 DEF Monitor!SetAssetRetentionOverride
  <2>5. ASSUME NEW caller, NEW max, Monitor!CleanupOldData(caller, max)
        PROVE  UNCHANGED written
    BY <2>5 DEF Monitor!CleanupOldData
  <2>6. ASSUME NEW caller, NEW k, NEW max, Monitor!CleanupDataType(caller, k, max)
        PROVE  UNCHANGED written
    BY <2>6 DEF Monitor!CleanupDataType
  <2>7. ASSUME NEW caller, NEW max, Monitor!CleanupExpiredData(caller, max)
        PROVE  UNCHANGED written
    BY <2>7 DEF Monitor!CleanupExpiredData
  <2>8. ASSUME NEW caller, NEW new, Monitor!SetExpirationPolicy(caller, new)
        PROVE  UNCHANGED written
    BY <2>8 DEF Monitor!SetExpirationPolicy
  <2> QED
    BY <1>2, <1>5, <2>1, <2>2, <2>3, <2>4, <2>5, <2>6, <2>7, <2>8 DEF Monitor!RetentionStep
<1>6. ASSUME NEW caller, NEW id, Monitor!RestoreFromCheckpoint(caller, id)
      PROVE  CountsInv'
  BY <1>3, <1>6 DEF Monitor!RestoreFromCheckpoint
<1>7. ASSUME NEW caller, NEW config, Monitor!SetCheckpointConfig(caller, config)
      PROVE  UNCHANGED written
  BY <1>7 DEF Monitor!SetCheckpointConfig
<1>8. ASSUME UNCHANGED Monitor!retentionVars PROVE UNCHANGED written
  BY <1>8 DEF Monitor!retentionVars
<1> QED
  BY <1>2, <1>3, <1>5, <1>6, <1>7, <1>8 DEF Writings, RecordsMove

\* The checkpoints listed are the ones stored.
LEMMA ListedChecked == RecordsInv /\ SnapshotsInv /\ CountsInv /\ Monitor!MonitorConstants
                          => Monitor!SnapshotsListed
<1> SUFFICES ASSUME RecordsInv, SnapshotsInv, CountsInv, Monitor!MonitorConstants
             PROVE  Monitor!SnapshotsListed
  OBVIOUS
<1>1. PICK list : list = records[Monitor!CheckpointList]
  OBVIOUS
<1>2. Monitor!CheckpointList \in Monitor!Key
  BY DEF Monitor!Key
<1>3. PICK n : n = written[Monitor!CheckpointList] /\ n \in Nat
  BY <1>2 DEF RecordsInv
<1>4. /\ list \in Seq(Logged) /\ Rising(list)
      /\ \A i \in 1 .. Len(list) : list[i].id \in 1 .. n
  BY <1>1, <1>2, <1>3 DEF RecordsInv, Lists, Filed, Apart
<1>5. DOMAIN list = 1 .. Len(list)
  BY <1>4
<1>6. Listed(list, snapshots) /\ Len(list) <= checkpointing.max_checkpoints
  BY <1>1 DEF SnapshotsInv
<1>7. n <= MaxRecords
  BY <1>2, <1>3 DEF CountsInv
<1>8. \A i \in 1 .. Len(list) : list[i].id \in Monitor!CheckpointId
  BY <1>3, <1>4, <1>7 DEF Monitor!CheckpointId, Monitor!MonitorConstants
<1>9. \A id : id \in Monitor!Ids(list) <=> \E i \in 1 .. Len(list) : list[i].id = id
  BY <1>4, IdsOf
<1>10. Monitor!Ids(list) = {id \in Monitor!CheckpointId : snapshots[id] # Monitor!Nothing}
  BY <1>6, <1>8, <1>9 DEF Listed
<1> QED
  BY <1>1, <1>4, <1>5, <1>6, <1>10 DEF Monitor!SnapshotsListed, Rising

\* What leaves a list was due.
LEMMA DueChecked == RecordsInv /\ RecordsJustified => Monitor!DeletedDue
<1> SUFFICES ASSUME RecordsInv, RecordsJustified,
                    NEW key \in Monitor!Key \ {Monitor!CheckpointList},
                    NEW r \in Monitor!Range(records[key]) \ Monitor!Range(records'[key])
             PROVE  \/ /\ Monitor!Past(r) /\ UNCHANGED <<archived, last_cleanup>>
                       /\ expiration.preserve_latest_history => records'[key] # <<>>
                    \/ /\ records'[key] # <<>> /\ Monitor!Last(records'[key]).id > r.id
                       /\ Monitor!Expired(r, Monitor!RetentionSecs(Monitor!KindOf(key), r,
                             policy[Monitor!KindOf(key)].retention_secs))
                       /\ policy[Monitor!KindOf(key)].archive_before_delete =>
                             r \in Monitor!Range(archived'[key])
  BY DEF Monitor!DeletedDue
<1>1. PICK old, l, a : old = records[key] /\ l = records'[key] /\ a = archived'[key]
  OBVIOUS
<1>2. old \in Seq(Logged) /\ archived[key] \in Seq(Logged) /\ Filed(old, archived[key], written[key])
  BY <1>1 DEF RecordsInv, Lists
<1>3. PICK i \in 1 .. Len(old) : r = old[i]
  BY <1>1, <1>2 DEF Monitor!Range
<1>4. CASE JustCleaned(key)
  <2>1. PICK l0 \in Seq(Logged) :
            /\ Rising(l0)
            /\ \A x \in 1 .. Len(old) : \E j \in 1 .. Len(l0) : l0[j] = old[x]
            /\ Cleaned(key, l0, archived[key], l, a)
    BY <1>1, <1>4 DEF JustCleaned
  <2>2. PICK j \in 1 .. Len(l0) : l0[j] = r
    BY <1>3, <2>1
  <2>3. /\ l \in Seq(Logged) /\ a \in Seq(Logged)
        /\ l0 # <<>> => l # <<>> /\ l[Len(l)] = l0[Len(l0)]
        /\ \A x \in 1 .. Len(l0) : \/ \E y \in 1 .. Len(l) : l[y] = l0[x]
                                   \/ Due(key, l0[x], a)
    BY <2>1 DEF Cleaned
  <2>4. DOMAIN l = 1 .. Len(l) /\ DOMAIN a = 1 .. Len(a)
    BY <2>3
  <2>5. \A y \in 1 .. Len(l) : l[y] # r
    BY <1>1, <2>4 DEF Monitor!Range
  <2>6. Due(key, r, a)
    BY <2>2, <2>3, <2>5
  <2>12. policy[Monitor!KindOf(key)].archive_before_delete => r \in Monitor!Range(a)
    BY <2>4, <2>6 DEF Due, Monitor!Range
  <2>7. l0 # <<>>
    BY <2>2
  <2>8. Len(l) \in 1 .. Len(l)
    BY <2>3, <2>7, NoEntry
  <2>9. j < Len(l0)
    <3>1. j # Len(l0)
      BY <2>2, <2>3, <2>5, <2>7, <2>8
    <3> QED
      BY <2>1, <3>1
  <2>10. l0[j].id < l0[Len(l0)].id
    <3>1. Len(l0) \in 1 .. Len(l0)
      BY <2>1, <2>7, NoEntry
    <3> QED
      BY <2>1, <2>2, <2>9, <3>1 DEF Rising
  <2>11. l # <<>> /\ Monitor!Last(l).id > r.id
    <3>1. Monitor!Last(l) = l0[Len(l0)]
      BY <2>3, <2>7 DEF Monitor!Last
    <3> QED
      BY <2>2, <2>3, <2>7, <2>10, <3>1
  <2> QED
    BY <1>1, <2>6, <2>11, <2>12 DEF Due, Monitor!Expired
<1>5. CASE records'[key] = Monitor!Trimmed(records[key]) /\ UNCHANGED <<archived, last_cleanup>>
  <2>1. l = Monitor!Trimmed(old)
    BY <1>1, <1>5
  <2>2. /\ l \in Seq(Logged)
        /\ \A x \in 1 .. Len(old) : Monitor!Past(old[x]) \/ \E j \in 1 .. Len(l) : l[j] = old[x]
        /\ old # <<>> /\ expiration.preserve_latest_history => l # <<>>
    BY <1>2, <2>1, TrimmedFiled
  <2>3. \A y \in 1 .. Len(l) : l[y] # r
    BY <1>1, <2>2 DEF Monitor!Range
  <2>4. old # <<>>
    BY <1>3
  <2> QED
    BY <1>1, <1>3, <1>5, <2>2, <2>3, <2>4
<1> QED
  BY <1>4, <1>5 DEF RecordsJustified, Justified
-----------------------------------------------------------------------------
\* The records are in order as the contract is deployed.
LEMMA RecordsStart ==
    ASSUME Monitor!MonitorConstants, Monitor!Init
    PROVE  RecordsInv /\ SnapshotsInv /\ CountsInv
<1>1. /\ records = [key \in Monitor!Key |-> <<>>] /\ archived = [key \in Monitor!Key |-> <<>>]
      /\ keys = [k \in Monitor!Kind |->
                    IF k = "Checkpoints" THEN <<Monitor!CheckpointList>> ELSE <<>>]
      /\ last_cleanup = [k \in Monitor!Kind |-> 0] /\ expiration = DefaultExpiration
      /\ written = [key \in Monitor!Key |-> 0] /\ clock = 1
      /\ checkpointing = DefaultCheckpointing
      /\ snapshots = [id \in Monitor!CheckpointId |-> Monitor!Nothing]
  BY DEF Monitor!Init, Monitor!RetentionInit, Monitor!BaseInit
<1>2. Monitor!CheckpointList \in Monitor!Key /\ MaxRecords \in Nat
  BY DEF Monitor!Key, Monitor!MonitorConstants
<1>3. ASSUME NEW e \in Monitor!Key PROVE Filed(records[e], archived[e], written[e])
  <2>1. PICK l, n : l = records[e] /\ n = written[e] /\ l = archived[e]
    BY <1>1
  <2>2. l = <<>> /\ n = 0 /\ Len(l) = 0 /\ l \in Seq(Logged)
    BY <1>1, <2>1
  <2>3. Filed(l, l, n)
    BY <2>2 DEF Filed, Rising, Apart
  <2> QED
    BY <2>1, <2>3
<1>4. keys \in KeyLists
  <2>1. Monitor!KindOf(Monitor!CheckpointList) = "Checkpoints"
    BY DEF Monitor!KindOf, Monitor!MonitorConstants
  <2>2. PICK one, none : one = <<Monitor!CheckpointList>> /\ none = <<>>
    OBVIOUS
  <2>3. /\ one \in Seq(Monitor!Key) /\ none \in Seq(Monitor!Key) /\ Len(none) = 0
        /\ \A i \in 1 .. Len(one) : one[i] = Monitor!CheckpointList
    BY <1>2, <2>2
  <2>4. keys = [k \in Monitor!Kind |-> IF k = "Checkpoints" THEN one ELSE none]
    BY <1>1, <2>2
  <2>5. keys \in [Monitor!Kind -> Seq(Monitor!Key)]
    BY <2>3, <2>4
  <2>6. ASSUME NEW k \in Monitor!Kind, NEW i \in 1 .. Len(keys[k])
        PROVE  Monitor!KindOf(keys[k][i]) = k
    <3>1. CASE k = "Checkpoints"
      BY <2>1, <2>3, <2>4, <2>6, <3>1
    <3>2. CASE k # "Checkpoints"
      BY <2>3, <2>4, <2>6, <3>2
    <3> QED
      BY <3>1, <3>2
  <2> QED
    BY <2>5, <2>6 DEF KeyLists
<1>5. records \in Lists /\ archived \in Lists
  BY <1>1 DEF Lists
<1>6. RecordsInv
  BY <1>1, <1>3, <1>4, <1>5 DEF RecordsInv, Monitor!MonitorConstants
<1>7. SnapshotsInv
  BY <1>1, <1>2 DEF SnapshotsInv, Listed, Monitor!MonitorConstants
<1>8. CountsInv
  BY <1>1, <1>2 DEF CountsInv
<1> QED
  BY <1>6, <1>7, <1>8
-----------------------------------------------------------------------------
\* What a price history holds, and the readings of an asset.
Prices == [price : Scores, timestamp : Nat, expires_at : Nat]
IsReading(r) ==
    \E score, t, e : \E p, q \in BOOLEAN :
        r = [score |-> score, paused |-> p, active |-> q, timestamp |-> t, expires_at |-> e]

\* The sweep of the assets, as a table over sets of places in their list.
SweepBase(max) ==
    [health |-> health, price |-> price, result |-> result, history |-> price_history,
     left |-> max]
SweptTable(max) ==
    CHOOSE t : t = [s \in SUBSET DOMAIN monitored |->
        IF s = {} THEN SweepBase(max)
        ELSE Monitor!SweptAsset(t[s \ {Max(s)}], monitored[Max(s)])]

\* The sweep of the assets, as a recursive function.
LEMMA SweptUnfolded ==
    ASSUME NEW caller, NEW max, Monitor!CleanupExpiredData(caller, max)
    PROVE  /\ health' = SweptTable(max)[DOMAIN monitored].health
           /\ price_history' = SweptTable(max)[DOMAIN monitored].history
BY Zenon DEF Monitor!CleanupExpiredData, Monitor!FoldLeft, Monitor!MapThenFoldSet, Monitor!Max, Max,
       SweptTable, SweepBase, Monitor!SweptAsset

\* The batch of a submission, as a table over sets of places in it.
BatchTable(items) ==
    CHOOSE t : t = [s \in SUBSET DOMAIN items |->
        IF s = {} THEN health
        ELSE [t[s \ {Max(s)}] EXCEPT ![items[Max(s)][1]] =
                 Monitor!AssetHealth(items[Max(s)][2], @)]]

\* The batch, as a recursive function.
LEMMA BatchUnfolded ==
    ASSUME NEW caller, NEW items, Monitor!BatchWritten(caller, items)
    PROVE  health' = BatchTable(items)[DOMAIN items]
BY DEF Monitor!BatchWritten, Monitor!FoldLeft, Monitor!MapThenFoldSet, Monitor!Max, Max,
       BatchTable, Monitor!AssetHealth
-----------------------------------------------------------------------------
\* The expiry sweep leaves a history no longer than it was.
LEMMA TrimmedShorter ==
    ASSUME NEW R, NEW l \in Seq(R)
    PROVE  Monitor!Trimmed(l) \in Seq(R) /\ Len(Monitor!Trimmed(l)) <= Len(l)
<1>1. PICK m \in Nat : m = Len(l) /\ DOMAIN l = 1 .. m
  OBVIOUS
<1>2. PICK S : S = {i \in DOMAIN l : ~Monitor!Past(l[i])}
  OBVIOUS
<1>3. PICK c : c = Monitor!Chosen(l, S)
  OBVIOUS
<1>4. c \in Seq(R) /\ Len(c) <= m
  BY <1>1, <1>3, ChosenPicked DEF Picked, PickedBy
<1>5. PICK w : w = Monitor!Trimmed(l)
  OBVIOUS
<1>6. w = IF c = <<>> /\ l # <<>> /\ expiration.preserve_latest_history
          THEN <<Monitor!Last(l)>> ELSE c
  BY ONLY <1>2, <1>3, <1>5 DEF Monitor!Trimmed
<1>7. CASE w = c
  BY <1>1, <1>4, <1>5, <1>7
<1>8. CASE w # c
  <2>1. l # <<>> /\ w = <<Monitor!Last(l)>>
    BY <1>6, <1>8
  <2>2. m \in 1 .. m
    BY <1>1, <2>1, NoEntry
  <2>3. PICK r \in R : r = l[m]
    BY <1>1, <2>2
  <2>4. w = <<r>>
    BY <1>1, <2>1, <2>3 DEF Monitor!Last
  <2>5. w \in Seq(R) /\ Len(w) = 1
    BY <2>4
  <2> QED
    BY <1>1, <1>5, <2>2, <2>5
<1> QED
  BY <1>7, <1>8

\* What a sweep makes of records f: each stays or is gone.
Fewer(f) ==
    {f} \cup {g \in [DOMAIN f -> {f[x] : x \in DOMAIN f} \cup {Monitor!Nothing}] :
                \A x \in DOMAIN f : g[x] \in {f[x], Monitor!Nothing}}

\* Sweeping one more record.
LEMMA SweptFewer ==
    ASSUME NEW f, NEW g \in Fewer(f), NEW a, NEW left
    PROVE  [g EXCEPT ![a] = Monitor!Swept(@, left)] \in Fewer(f)
<1>1. PICK next : next = [g EXCEPT ![a] = Monitor!Swept(@, left)]
  OBVIOUS
<1>2. DOMAIN g = DOMAIN f /\ \A x \in DOMAIN f : g[x] \in {f[x], Monitor!Nothing}
  BY DEF Fewer
<1>3. next = [x \in DOMAIN f |-> IF x = a THEN Monitor!Swept(g[a], left) ELSE g[x]]
  BY <1>1, <1>2
<1>4. Monitor!Swept(g[a], left) \in {g[a], Monitor!Nothing}
  BY DEF Monitor!Swept
<1>5. \A x \in DOMAIN f : next[x] \in {f[x], Monitor!Nothing}
  BY <1>2, <1>3, <1>4
<1>6. PICK D, Z : D = DOMAIN f /\ Z = {f[x] : x \in DOMAIN f} \cup {Monitor!Nothing}
  OBVIOUS
<1>7. \A x \in D : next[x] \in Z
  BY <1>5, <1>6
<1>8. next = [x \in D |-> next[x]]
  BY <1>3, <1>6
<1>9. next \in [D -> Z]
  BY ONLY <1>7, <1>8
<1>10. next \in Fewer(f)
  BY <1>5, <1>6, <1>9 DEF Fewer
<1> QED
  BY ONLY <1>1, <1>10

\* What the sweep makes of the histories: each no longer than it was.
Shorter ==
    {x \in [Assets -> Seq(Prices)] : \A a \in Assets : Len(x[a]) <= Len(price_history[a])}
SweptStates ==
    [health : Fewer(health), price : Fewer(price), result : Fewer(result), history : Shorter,
     left : Int]

\* Sweeping one asset leaves such a state.
LEMMA SweptStays ==
    ASSUME price_history \in [Assets -> Seq(Prices)], NEW s \in SweptStates, NEW a \in Assets
    PROVE  Monitor!SweptAsset(s, a) \in SweptStates
<1>1. PICK left1, left2, left3 :
          /\ left1 = Monitor!Spent(s.health[a], s.left)
          /\ left2 = Monitor!Spent(s.price[a], left1)
          /\ left3 = Monitor!Spent(s.result[a], left2)
  OBVIOUS
<1>2. left1 \in Int /\ left2 \in Int /\ left3 \in Int
  BY <1>1 DEF SweptStates, Monitor!Spent
<1>3. PICK h, p, r, x : /\ h = [s.health EXCEPT ![a] = Monitor!Swept(@, s.left)]
                        /\ p = [s.price EXCEPT ![a] = Monitor!Swept(@, left1)]
                        /\ r = [s.result EXCEPT ![a] = Monitor!Swept(@, left2)]
                        /\ x = [s.history EXCEPT ![a] = Monitor!Trimmed(@)]
  OBVIOUS
<1>4. h \in Fewer(health) /\ p \in Fewer(price) /\ r \in Fewer(result)
  <2>1. s.health \in Fewer(health) /\ s.price \in Fewer(price) /\ s.result \in Fewer(result)
    BY DEF SweptStates
  <2> QED
    BY <1>3, <2>1, SweptFewer
<1>5. x \in Shorter
  <2>1. s.history \in [Assets -> Seq(Prices)]
        /\ \A b \in Assets : Len(s.history[b]) <= Len(price_history[b])
    BY DEF SweptStates, Shorter
  <2>2. PICK l : l = s.history[a]
    OBVIOUS
  <2>3. PICK w : w = Monitor!Trimmed(l)
    OBVIOUS
  <2>4. w \in Seq(Prices) /\ Len(w) <= Len(l)
    BY <2>1, <2>2, <2>3, TrimmedShorter
  <2>5. x = [s.history EXCEPT ![a] = w]
    BY <1>3, <2>2, <2>3
  <2>6. /\ x \in [Assets -> Seq(Prices)] /\ x[a] = w
        /\ \A b \in Assets : b # a => x[b] = s.history[b]
    BY <2>1, <2>4, <2>5
  <2>7. Len(w) <= Len(price_history[a])
    BY <2>1, <2>2, <2>4
  <2> QED
    BY <2>1, <2>6, <2>7 DEF Shorter
<1>6. [health |-> h, price |-> p, result |-> r, history |-> x, left |-> left3] \in SweptStates
  BY <1>2, <1>4, <1>5 DEF SweptStates
<1>7. Monitor!SweptAsset(s, a) =
          IF s.left = 0 THEN s
          ELSE [health |-> h, price |-> p, result |-> r, history |-> x, left |-> left3]
  BY <1>1, <1>3 DEF Monitor!SweptAsset
<1> QED
  BY <1>6, <1>7

\* The sweep of all assets leaves such a state.
LEMMA SweepStays ==
    ASSUME price_history \in [Assets -> Seq(Prices)], NEW n \in Nat,
           monitored \in [1 .. n -> Assets], NEW max \in Int
    PROVE  SweptTable(max)[1 .. n] \in SweptStates
<1> DEFINE V == SweptStates
           base == SweepBase(max)
           T == SweptTable(max)
           step == [p \in (1 .. n) \X V |-> Monitor!SweptAsset(p[2], monitored[p[1]])]
           Next1(t, s) == Monitor!SweptAsset(t[s \ {Max(s)}], monitored[Max(s)])
           Tabled(t) == t = [s \in SUBSET (1 .. n) |-> IF s = {} THEN base ELSE Next1(t, s)]
<1>1. base \in V
  <2>1. price_history \in Shorter
    BY DEF Shorter
  <2>2. health \in Fewer(health) /\ price \in Fewer(price) /\ result \in Fewer(result)
    BY DEF Fewer
  <2> QED
    BY <2>1, <2>2 DEF SweepBase, SweptStates
<1>2. ASSUME NEW i \in 1 .. n, NEW s \in V
      PROVE  /\ Monitor!SweptAsset(s, monitored[i]) \in V
             /\ step[<<i, s>>] = Monitor!SweptAsset(s, monitored[i])
  BY SweptStays
<1> HIDE DEF V, base
<1>3. step \in [(1 .. n) \X V -> V]
  BY <1>2
<1> HIDE DEF step
<1>4. \A s \in SUBSET (1 .. n) : s # {} => Max(s) \in 1 .. n
  BY MaxIsLargest
<1>5. \E t : Tabled(t)
  <2>1. PICK t \in [SUBSET (1 .. n) -> V] : Laddered(t, base, step, n)
    BY ONLY <1>1, <1>3, n \in Nat, LadderTable
  <2>2. ASSUME NEW s \in SUBSET (1 .. n)
        PROVE  t[s] = IF s = {} THEN base ELSE Next1(t, s)
    <3>1. t[s] = IF s = {} THEN base ELSE step[<<Max(s), t[s \ {Max(s)}]>>]
      BY <2>1, <2>2 DEF Laddered
    <3>2. CASE s # {}
      <4>1. t[s \ {Max(s)}] \in V /\ Max(s) \in 1 .. n
        BY <1>4, <2>1, <3>2
      <4>2. step[<<Max(s), t[s \ {Max(s)}]>>] = Next1(t, s)
        BY ONLY <1>2, <4>1
      <4> QED
        BY <3>1, <3>2, <4>2
    <3> QED
      BY <3>1, <3>2
  <2> HIDE DEF Next1
  <2>3. t = [s \in SUBSET (1 .. n) |-> t[s]]
    BY <2>1
  <2>4. [s \in SUBSET (1 .. n) |-> t[s]]
           = [s \in SUBSET (1 .. n) |-> IF s = {} THEN base ELSE Next1(t, s)]
    BY <2>2
  <2> QED
    BY <2>3, <2>4
<1>6. Tabled(T)
  <2>1. DOMAIN monitored = 1 .. n
    OBVIOUS
  <2>2. T = CHOOSE t : Tabled(t)
    BY <2>1 DEF SweptTable, base
  <2> HIDE DEF Tabled, T
  <2> QED
    BY <1>5, <2>2
<1>7. T[1 .. n] \in V
  <2>1. PICK t : t = T
    OBVIOUS
  <2>2. t = [s \in SUBSET (1 .. n) |-> IF s = {} THEN base ELSE Next1(t, s)]
    BY <1>6, <2>1
  <2> HIDE DEF T, Next1
  <2>3. \A s \in SUBSET (1 .. n) : t[s] = IF s = {} THEN base ELSE Next1(t, s)
    BY ONLY <2>2
  <2>4. {} \in SUBSET (1 .. n)
    OBVIOUS
  <2>5. t[{}] = base
    BY <2>3, <2>4
  <2>6. ASSUME NEW s \in SUBSET (1 .. n), s # {}, t[s \ {Max(s)}] \in V
        PROVE  t[s] = step[<<Max(s), t[s \ {Max(s)}]>>]
    <3>1. t[s] = Next1(t, s)
      BY <2>3, <2>6
    <3>2. Max(s) \in 1 .. n
      BY <1>4, <2>6
    <3>3. step[<<Max(s), t[s \ {Max(s)}]>>] = Next1(t, s)
      BY ONLY <1>2, <2>6, <3>2 DEF Next1
    <3> QED
      BY <3>1, <3>3
  <2>7. Climbs(t, step, n, V)
    BY ONLY <2>6 DEF Climbs
  <2> QED
    BY ONLY <1>1, <1>3, <2>1, <2>5, <2>7, n \in Nat, LadderStays
<1> QED
  BY <1>7 DEF V

\* What a batch makes of the health of the assets: of those that take submissions it writes
\* readings, the others stay.
Readings ==
    [score : Scores, paused : BOOLEAN, active : BOOLEAN, timestamp : {clock},
     expires_at : {clock + expiration.asset_ttl}]
BatchStates ==
    {h \in [Assets -> Readings \cup {health[a] : a \in Assets}] :
        \A a \in Assets :
            h[a] = health[a] \/ (Monitor!Accepting(a) /\ h[a] \in Readings)}

\* Writing one record of a batch leaves such a state.
LEMMA BatchedStays ==
    ASSUME NEW h \in BatchStates, NEW a \in Assets, NEW n \in Scores, Monitor!Accepting(a),
           health[a].paused \in BOOLEAN /\ health[a].active \in BOOLEAN
    PROVE  [h EXCEPT ![a] = Monitor!AssetHealth(n, @)] \in BatchStates
<1>1. PICK r : r = Monitor!AssetHealth(n, h[a])
  OBVIOUS
<1>2. h[a].paused \in BOOLEAN /\ h[a].active \in BOOLEAN
  BY DEF BatchStates, Readings
<1>3. r \in Readings
  BY <1>1, <1>2 DEF Monitor!AssetHealth, Readings
<1>4. PICK g : g = [h EXCEPT ![a] = r]
  OBVIOUS
<1>5. g \in BatchStates
  BY <1>3, <1>4 DEF BatchStates
<1> QED
  BY <1>1, <1>4, <1>5

\* The whole batch leaves such a state.
LEMMA BatchStays ==
    ASSUME NEW n \in Nat, NEW items \in [1 .. n -> Assets \X Scores],
           \A i \in 1 .. n : Monitor!Accepting(items[i][1]),
           health \in [Assets -> {health[a] : a \in Assets}],
           \A a \in Assets : Monitor!Accepting(a) =>
                health[a].paused \in BOOLEAN /\ health[a].active \in BOOLEAN
    PROVE  BatchTable(items)[1 .. n] \in BatchStates
<1> DEFINE V == BatchStates
           T == BatchTable(items)
           Put(h, i) == [h EXCEPT ![items[i][1]] = Monitor!AssetHealth(items[i][2], @)]
           step == [p \in (1 .. n) \X V |-> Put(p[2], p[1])]
           Next1(t, s) == Put(t[s \ {Max(s)}], Max(s))
           Tabled(t) == t = [s \in SUBSET (1 .. n) |-> IF s = {} THEN health ELSE Next1(t, s)]
<1>1. health \in V
  BY DEF BatchStates
<1>2. ASSUME NEW i \in 1 .. n, NEW h \in V
      PROVE  Put(h, i) \in V /\ step[<<i, h>>] = Put(h, i)
  <2>1. PICK a \in Assets, m \in Scores : a = items[i][1] /\ m = items[i][2]
    OBVIOUS
  <2>2. Monitor!Accepting(a)
    BY <2>1
  <2>3. [h EXCEPT ![a] = Monitor!AssetHealth(m, @)] \in V
    BY <2>2, BatchedStays
  <2> QED
    BY <2>1, <2>3
<1> HIDE DEF V, Put
<1>3. step \in [(1 .. n) \X V -> V]
  BY <1>2
<1> HIDE DEF step
<1>4. \A s \in SUBSET (1 .. n) : s # {} => Max(s) \in 1 .. n
  BY MaxIsLargest
<1>5. \E t : Tabled(t)
  <2>1. PICK t \in [SUBSET (1 .. n) -> V] : Laddered(t, health, step, n)
    BY ONLY <1>1, <1>3, n \in Nat, LadderTable
  <2>2. ASSUME NEW s \in SUBSET (1 .. n)
        PROVE  t[s] = IF s = {} THEN health ELSE Next1(t, s)
    <3>1. t[s] = IF s = {} THEN health ELSE step[<<Max(s), t[s \ {Max(s)}]>>]
      BY <2>1, <2>2 DEF Laddered
    <3>2. CASE s # {}
      <4>1. t[s \ {Max(s)}] \in V /\ Max(s) \in 1 .. n
        BY <1>4, <2>1, <3>2
      <4>2. step[<<Max(s), t[s \ {Max(s)}]>>] = Next1(t, s)
        BY ONLY <1>2, <4>1
      <4> QED
        BY <3>1, <3>2, <4>2
    <3> QED
      BY <3>1, <3>2
  <2> HIDE DEF Next1
  <2>3. t = [s \in SUBSET (1 .. n) |-> t[s]]
    BY <2>1
  <2>4. [s \in SUBSET (1 .. n) |-> t[s]]
           = [s \in SUBSET (1 .. n) |-> IF s = {} THEN health ELSE Next1(t, s)]
    BY <2>2
  <2> QED
    BY <2>3, <2>4
<1>6. Tabled(T)
  <2>1. DOMAIN items = 1 .. n
    OBVIOUS
  <2>2. T = CHOOSE t : Tabled(t)
    BY <2>1 DEF BatchTable, Put
  <2> HIDE DEF Tabled, T
  <2> QED
    BY <1>5, <2>2
<1>7. T[1 .. n] \in V
  <2>1. PICK t : t = T
    OBVIOUS
  <2>2. t = [s \in SUBSET (1 .. n) |-> IF s = {} THEN health ELSE Next1(t, s)]
    BY <1>6, <2>1
  <2> HIDE DEF T, Next1
  <2>3. \A s \in SUBSET (1 .. n) : t[s] = IF s = {} THEN health ELSE Next1(t, s)
    BY ONLY <2>2
  <2>4. {} \in SUBSET (1 .. n)
    OBVIOUS
  <2>5. t[{}] = health
    BY <2>3, <2>4
  <2>6. ASSUME NEW s \in SUBSET (1 .. n), s # {}, t[s \ {Max(s)}] \in V
        PROVE  t[s] = step[<<Max(s), t[s \ {Max(s)}]>>]
    <3>1. t[s] = Next1(t, s)
      BY <2>3, <2>6
    <3>2. Max(s) \in 1 .. n
      BY <1>4, <2>6
    <3>3. step[<<Max(s), t[s \ {Max(s)}]>>] = Next1(t, s)
      BY ONLY <1>2, <2>6, <3>2 DEF Next1
    <3> QED
      BY <3>1, <3>3
  <2>7. Climbs(t, step, n, V)
    BY ONLY <2>6 DEF Climbs
  <2> QED
    BY ONLY <1>1, <1>3, <2>1, <2>5, <2>7, n \in Nat, LadderStays
<1> QED
  BY <1>7 DEF V
-----------------------------------------------------------------------------
\* A record of health is one of an asset in the list, with a status.
Read(r, a, listed) == r = Monitor!Nothing \/ (a \in Monitor!Range(listed) /\ IsReading(r))
ReadingsInv ==
    /\ Monitor!IsInjective(monitored)
    /\ health = [a \in Assets |-> health[a]]
    /\ \A a \in Assets : Read(health[a], a, monitored)
    /\ price_history \in [Assets -> Seq(Prices)]
SavedInv ==
    \A id \in Monitor!CheckpointId : snapshots[id] # Monitor!Nothing =>
        /\ Monitor!IsInjective(snapshots[id].monitored)
        /\ \A a \in Assets : Read(snapshots[id].health[a], a, snapshots[id].monitored)

\* An asset that takes no submissions: what a step may do to its readings.
Untouched(a) ==
    /\ health[a] # Monitor!Nothing /\ health'[a] # Monitor!Nothing =>
            health'[a].score = health[a].score
    /\ Len(price_history'[a]) <= Len(price_history[a])

\* What the state after a step has of the invariant.
ReadAfter ==
    /\ Monitor!IsInjective(monitored')
    /\ health' = [a \in Assets |-> health'[a]]
    /\ \A a \in Assets : Read(health'[a], a, monitored')
    /\ price_history' \in [Assets -> Seq(Prices)]

\* A reading has a status.
LEMMA ReadingTyped ==
    ASSUME NEW r, IsReading(r)
    PROVE  r.paused \in BOOLEAN /\ r.active \in BOOLEAN
BY DEF IsReading

\* A record written is a reading.
LEMMA ReadingMade ==
    ASSUME NEW score, NEW status, status.paused \in BOOLEAN, status.active \in BOOLEAN
    PROVE  /\ IsReading(Monitor!AssetHealth(score, status))
           /\ Monitor!AssetHealth(score, status).score = score
BY DEF IsReading, Monitor!AssetHealth

\* Extending a record changes when it expires.
LEMMA ReadingExtended ==
    ASSUME NEW r, IsReading(r), NEW extra
    PROVE  \/ Monitor!Extended(r, extra) = r
           \/ /\ IsReading(Monitor!Extended(r, extra))
              /\ Monitor!Extended(r, extra).score = r.score
<1>1. PICK score, t, e : \E p, q \in BOOLEAN :
          r = [score |-> score, paused |-> p, active |-> q, timestamp |-> t, expires_at |-> e]
  BY DEF IsReading
<1>2. PICK p \in BOOLEAN, q \in BOOLEAN :
          r = [score |-> score, paused |-> p, active |-> q, timestamp |-> t, expires_at |-> e]
  BY <1>1
<1>3. PICK x : x = extra + (IF e > clock THEN e ELSE clock)
  OBVIOUS
<1>4. r.expires_at = e
  BY <1>2
<1>5. [r EXCEPT !.expires_at = x] =
          [score |-> score, paused |-> p, active |-> q, timestamp |-> t, expires_at |-> x]
  BY <1>2
<1>6. Monitor!Extended(r, extra) = r \/ Monitor!Extended(r, extra) = [r EXCEPT !.expires_at = x]
  BY <1>3, <1>4 DEF Monitor!Extended
<1>7. PICK v : v = [score |-> score, paused |-> p, active |-> q, timestamp |-> t,
                    expires_at |-> x]
  OBVIOUS
<1>8. IsReading(v) /\ v.score = r.score
  BY <1>2, <1>7 DEF IsReading
<1>9. Monitor!Extended(r, extra) = r \/ Monitor!Extended(r, extra) = v
  BY ONLY <1>5, <1>6, <1>7
<1> QED
  BY <1>8, <1>9

\* One asset is added to the list, with a first record.
LEMMA AddedReads ==
    ASSUME ReadingsInv, CheckpointsInv, NEW a \in Assets, a \notin Monitor!Range(monitored),
           health' = [health EXCEPT ![a] = Monitor!AssetHealth(0, Monitor!Fresh)],
           monitored' = Append(monitored, a), UNCHANGED price_history
    PROVE  ReadAfter /\ \A b \in Assets : Untouched(b)
<1>1. PICK m : m = monitored
  OBVIOUS
<1>2. PICK n \in Nat : n = Len(m) /\ m \in Seq(Assets)
  BY <1>1 DEF CheckpointsInv
<1>3. PICK g : g = Append(m, a)
  OBVIOUS
<1>4. /\ g \in Seq(Assets) /\ DOMAIN g = 1 .. n + 1 /\ g[n + 1] = a
      /\ DOMAIN m = 1 .. n /\ \A i \in 1 .. n : g[i] = m[i]
  BY <1>2, <1>3
<1>5. /\ \A i \in 1 .. n : m[i] # a
      /\ \A i, j \in 1 .. n : m[i] = m[j] => i = j
  BY <1>1, <1>4 DEF Monitor!Range, ReadingsInv, Monitor!IsInjective
<1>6. \A i \in 1 .. n + 1 : i = n + 1 \/ i \in 1 .. n
  OBVIOUS
<1>7. Monitor!IsInjective(g)
  BY <1>4, <1>5, <1>6 DEF Monitor!IsInjective
<1>8. a \in Monitor!Range(g) /\ \A b \in Monitor!Range(m) : b \in Monitor!Range(g)
  <2>1. n + 1 \in 1 .. n + 1 /\ \A i \in 1 .. n : i \in 1 .. n + 1
    OBVIOUS
  <2> QED
    BY <1>4, <2>1 DEF Monitor!Range
<1>9. PICK r : r = Monitor!AssetHealth(0, Monitor!Fresh)
  OBVIOUS
<1>10. IsReading(r)
  <2>1. Monitor!Fresh.paused \in BOOLEAN /\ Monitor!Fresh.active \in BOOLEAN
    BY DEF Monitor!Fresh
  <2> QED
    BY <1>9, <2>1, ReadingMade
<1>11. /\ health' = [b \in Assets |-> health'[b]] /\ health'[a] = r
       /\ \A b \in Assets : b # a => health'[b] = health[b]
  <2>1. health = [b \in Assets |-> health[b]]
    BY DEF ReadingsInv
  <2>2. health' = [b \in Assets |-> IF b = a THEN r ELSE health[b]]
    BY <1>9, <2>1
  <2> QED
    BY <2>2
<1>12. \A b \in Assets : Read(health[b], b, m)
  BY <1>1 DEF ReadingsInv
<1>13. health[a] = Monitor!Nothing
  BY <1>1, <1>12 DEF Read
<1>14. \A b \in Assets : Read(health'[b], b, g)
  BY <1>8, <1>10, <1>11, <1>12 DEF Read
<1>15. monitored' = g /\ price_history' \in [Assets -> Seq(Prices)]
  BY <1>1, <1>3 DEF ReadingsInv
<1>16. \A b \in Assets : Len(price_history'[b]) <= Len(price_history[b])
  <2>1. \A b \in Assets : Len(price_history[b]) \in Nat
    BY DEF ReadingsInv
  <2> QED
    BY <2>1
<1> QED
  BY <1>7, <1>11, <1>13, <1>14, <1>15, <1>16 DEF ReadAfter, Untouched

\* The record of one asset is written again.
Rewrites(a, score, status) ==
    /\ status.paused \in BOOLEAN /\ status.active \in BOOLEAN
    /\ health' = [health EXCEPT ![a] = Monitor!AssetHealth(score, status)]
    /\ UNCHANGED <<monitored, price_history>>

\* Then the readings stay readings, and those of the others stay.
LEMMA RewrittenReads ==
    ASSUME ReadingsInv, NEW a \in Assets, health[a] # Monitor!Nothing, NEW score, NEW status,
           Rewrites(a, score, status)
    PROVE  /\ ReadAfter
           /\ \A b \in Assets : b # a \/ score = health[a].score => Untouched(b)
<1>0. /\ status.paused \in BOOLEAN /\ status.active \in BOOLEAN
      /\ health' = [health EXCEPT ![a] = Monitor!AssetHealth(score, status)]
      /\ UNCHANGED <<monitored, price_history>>
  BY DEF Rewrites
<1>1. PICK r : r = Monitor!AssetHealth(score, status)
  OBVIOUS
<1>2. IsReading(r) /\ r.score = score
  BY <1>0, <1>1, ReadingMade
<1>3. /\ health' = [b \in Assets |-> health'[b]] /\ health'[a] = r
      /\ \A b \in Assets : b # a => health'[b] = health[b]
  <2>1. health = [b \in Assets |-> health[b]]
    BY DEF ReadingsInv
  <2>2. health' = [b \in Assets |-> IF b = a THEN r ELSE health[b]]
    BY <1>0, <1>1, <2>1
  <2> QED
    BY <2>2
<1>4. \A b \in Assets : Read(health'[b], b, monitored)
  BY <1>0, <1>2, <1>3 DEF ReadingsInv, Read
<1>5. \A b \in Assets : Len(price_history'[b]) <= Len(price_history[b])
  <2>1. \A b \in Assets : Len(price_history[b]) \in Nat
    BY DEF ReadingsInv
  <2> QED
    BY <1>0, <2>1
<1> QED
  BY <1>0, <1>2, <1>3, <1>4, <1>5 DEF ReadingsInv, ReadAfter, Untouched

\* A price is added to a history.
LEMMA PricedReads ==
    ASSUME ReadingsInv, NEW a \in Assets, NEW amount \in Scores, clock \in Nat,
           expiration.price_ttl \in Nat,
           price_history' = [price_history EXCEPT ![a] =
                                Append(price_history[a], Monitor!PriceRecord(amount))],
           UNCHANGED <<monitored, health>>
    PROVE  ReadAfter /\ \A b \in Assets : b # a => Untouched(b)
<1>1. PICK r : r = Monitor!PriceRecord(amount)
  OBVIOUS
<1>2. r \in Prices
  BY <1>1 DEF Monitor!PriceRecord, Prices
<1>3. PICK l \in Seq(Prices) : l = price_history[a]
  BY DEF ReadingsInv
<1>4. PICK g : g = Append(l, r)
  OBVIOUS
<1>5. price_history' = [price_history EXCEPT ![a] = g]
  BY <1>1, <1>3, <1>4
<1>8. g \in Seq(Prices)
  BY <1>2, <1>4
<1>6. /\ price_history' \in [Assets -> Seq(Prices)]
      /\ \A b \in Assets : b # a => price_history'[b] = price_history[b]
  BY <1>5, <1>8 DEF ReadingsInv
<1>7. \A b \in Assets : Len(price_history[b]) \in Nat
  BY DEF ReadingsInv
<1> QED
  BY <1>6, <1>7 DEF ReadingsInv, ReadAfter, Untouched

\* A batch writes assets that take submissions.
LEMMA BatchReads ==
    ASSUME ReadingsInv, NEW caller, NEW items \in Monitor!Items,
           Monitor!BatchWritten(caller, items)
    PROVE  ReadAfter /\ \A b \in Assets : Monitor!Accepting(b) \/ Untouched(b)
<1>1. PICK n \in Nat : items \in [1 .. n -> Assets \X Scores]
  <2>1. ASSUME NEW i \in Assets \X Scores, items = <<i>>
        PROVE  items \in [1 .. 1 -> Assets \X Scores]
    BY <2>1
  <2>2. ASSUME NEW i \in Assets \X Scores, NEW j \in Assets \X Scores, items = <<i, j>>
        PROVE  items \in [1 .. 2 -> Assets \X Scores]
    BY <2>2
  <2>3. \/ \E i \in Assets \X Scores : items = <<i>>
        \/ \E i \in Assets \X Scores, j \in Assets \X Scores : items = <<i, j>>
    BY DEF Monitor!Items
  <2> QED
    BY <2>1, <2>2, <2>3
<1>2. DOMAIN items = 1 .. n /\ \A i \in 1 .. n : Monitor!Accepting(items[i][1])
  BY <1>1 DEF Monitor!BatchWritten
<1>3. health \in [Assets -> {health[a] : a \in Assets}]
  BY DEF ReadingsInv
<1>4. ASSUME NEW a \in Assets, Monitor!Accepting(a)
      PROVE  /\ a \in Monitor!Range(monitored) /\ IsReading(health[a])
             /\ health[a].paused \in BOOLEAN /\ health[a].active \in BOOLEAN
  BY <1>4, ReadingTyped DEF Monitor!Accepting, ReadingsInv, Read
<1>5. BatchTable(items)[1 .. n] \in BatchStates
  BY <1>1, <1>2, <1>3, <1>4, BatchStays
<1>6. PICK h : h = BatchTable(items)[1 .. n]
  OBVIOUS
<1>7. health' = h /\ UNCHANGED <<monitored, price_history>>
  BY <1>2, <1>6, BatchUnfolded DEF Monitor!BatchWritten
<1>8. /\ h = [a \in Assets |-> h[a]]
      /\ \A a \in Assets : h[a] = health[a] \/ (Monitor!Accepting(a) /\ h[a] \in Readings)
  BY <1>5, <1>6 DEF BatchStates
<1>9. \A r \in Readings : IsReading(r)
  BY DEF Readings, IsReading
<1>10. \A a \in Assets : Read(h[a], a, monitored)
  BY <1>4, <1>8, <1>9 DEF ReadingsInv, Read
<1>11. \A b \in Assets : Len(price_history[b]) \in Nat
  BY DEF ReadingsInv
<1> QED
  BY <1>7, <1>8, <1>10, <1>11 DEF ReadingsInv, ReadAfter, Untouched

\* Extending the records of an asset keeps its readings.
LEMMA ExtendedReads ==
    ASSUME ReadingsInv, NEW caller, NEW a \in Assets, NEW extra,
           Monitor!ExtendExpiration(caller, a, extra)
    PROVE  ReadAfter /\ \A b \in Assets : Untouched(b)
<1>1. PICK r, x : r = health[a] /\ x = Monitor!Extended(r, extra)
  OBVIOUS
<1>2. health' = [health EXCEPT ![a] = x] /\ UNCHANGED <<monitored, price_history>>
  BY <1>1 DEF Monitor!ExtendExpiration
<1>3. health = [b \in Assets |-> health[b]]
  BY DEF ReadingsInv
<1>4. /\ health' = [b \in Assets |-> health'[b]] /\ health'[a] = x
      /\ \A b \in Assets : b # a => health'[b] = health[b]
  <2>1. health' = [b \in Assets |-> IF b = a THEN x ELSE health[b]]
    BY <1>2, <1>3
  <2> QED
    BY <2>1
<1>5. x = r \/ (r # Monitor!Nothing /\ IsReading(r) /\ IsReading(x) /\ x.score = r.score)
  <2>1. CASE r = Monitor!Nothing
    BY <1>1, <2>1 DEF Monitor!Extended
  <2>2. CASE r # Monitor!Nothing
    <3>1. IsReading(r)
      BY <1>1, <2>2 DEF ReadingsInv, Read
    <3> QED
      BY <1>1, <2>2, <3>1, ReadingExtended
  <2> QED
    BY <2>1, <2>2
<1>6. \A b \in Assets : Read(health'[b], b, monitored)
  BY <1>1, <1>4, <1>5 DEF ReadingsInv, Read
<1>7. \A b \in Assets : Len(price_history[b]) \in Nat
  BY DEF ReadingsInv
<1> QED
  BY <1>1, <1>2, <1>4, <1>5, <1>6, <1>7 DEF ReadingsInv, ReadAfter, Untouched

\* A sweep removes readings, and shortens histories.
LEMMA SweptReads ==
    ASSUME ReadingsInv, CheckpointsInv, NEW caller, NEW max \in Int,
           Monitor!CleanupExpiredData(caller, max)
    PROVE  ReadAfter /\ \A b \in Assets : Untouched(b)
<1>1. PICK n \in Nat : n = Len(monitored) /\ monitored \in [1 .. n -> Assets]
  BY DEF CheckpointsInv
<1>2. DOMAIN monitored = 1 .. n
  BY <1>1
<1>3. PICK s : s = SweptTable(max)[1 .. n]
  OBVIOUS
<1>4. s \in SweptStates
  BY <1>1, <1>3, SweepStays DEF ReadingsInv
<1>5. health' = s.health /\ price_history' = s.history /\ UNCHANGED monitored
  BY <1>2, <1>3, SweptUnfolded DEF Monitor!CleanupExpiredData
<1>6. s.health \in Fewer(health) /\ s.history \in Shorter
  BY <1>4 DEF SweptStates
<1>7. /\ health' = [a \in Assets |-> health'[a]]
      /\ \A a \in Assets : health'[a] \in {health[a], Monitor!Nothing}
  <2>1. health = [a \in Assets |-> health[a]] /\ DOMAIN health = Assets
    BY DEF ReadingsInv
  <2> QED
    BY <1>5, <1>6, <2>1 DEF Fewer
<1>8. \A a \in Assets : Read(health'[a], a, monitored)
  BY <1>7 DEF ReadingsInv, Read
<1>9. /\ price_history' \in [Assets -> Seq(Prices)]
      /\ \A a \in Assets : Len(price_history'[a]) <= Len(price_history[a])
  BY <1>5, <1>6 DEF Shorter
<1> QED
  BY <1>5, <1>7, <1>8, <1>9 DEF ReadingsInv, ReadAfter, Untouched

\* A restore brings back readings of the assets that the checkpoint lists.
LEMMA RestoredReads ==
    ASSUME ReadingsInv, SavedInv, NEW caller, NEW id \in Monitor!CheckpointId,
           Monitor!RestoreFromCheckpoint(caller, id)
    PROVE  ReadAfter
<1>1. PICK then : then = snapshots[id] /\ then # Monitor!Nothing
  BY DEF Monitor!RestoreFromCheckpoint
<1>2. /\ monitored' = then.monitored /\ UNCHANGED price_history
      /\ health' = [a \in Assets |-> Monitor!Restored(then, a, health[a], then.health[a])]
  BY <1>1 DEF Monitor!RestoreFromCheckpoint
<1>3. /\ Monitor!IsInjective(then.monitored)
      /\ \A a \in Assets : Read(then.health[a], a, then.monitored)
  BY <1>1 DEF SavedInv
<1>4. ASSUME NEW a \in Assets PROVE Read(health'[a], a, then.monitored)
  <2>1. health'[a] = Monitor!Restored(then, a, health[a], then.health[a])
    BY <1>2
  <2>2. Read(health[a], a, monitored) /\ Read(then.health[a], a, then.monitored)
    BY <1>3 DEF ReadingsInv
  <2> QED
    BY <2>1, <2>2 DEF Monitor!Restored, Read
<1> QED
  BY <1>2, <1>3, <1>4 DEF ReadingsInv, ReadAfter

\* A restore saves the checkpoint it makes.
LEMMA RestoreSeen ==
    ASSUME RecordsInv, SnapshotsInv, CheckpointsInv, Monitor!MonitorConstants,
           NEW caller, NEW from \in Monitor!CheckpointId,
           Monitor!RestoreFromCheckpoint(caller, from)
    PROVE  Monitor!Restores
<1>1. Monitor!Persisted(from)
  BY DEF Monitor!RestoreFromCheckpoint
<1>2. PICK id \in Monitor!CheckpointId :
          snapshots[id] = Monitor!Nothing /\ snapshots'[id] = NewSnapshot(from)
  BY <1>1, PersistedRefiles
<1>3. PICK new : new = NewSnapshot(from)
  OBVIOUS
<1>4. new.restored_from = from /\ new.expires_at = 0
  BY <1>3 DEF NewSnapshot
<1>5. new # Monitor!Nothing
  <2>1. Monitor!Nothing.expires_at = -1
    BY DEF Monitor!Nothing
  <2> QED
    BY <1>4, <2>1
<1>6. from # 0
  BY DEF Monitor!CheckpointId, Monitor!MonitorConstants
<1> QED
  BY <1>2, <1>3, <1>4, <1>5, <1>6 DEF Monitor!Restores

\* Every step keeps the readings, and writes those of assets that take submissions.
LEMMA ReadingsKeep ==
    ASSUME ReadingsInv, SavedInv, RecordsInv, SnapshotsInv, CheckpointsInv,
           Monitor!MonitorConstants, ReadingsMove
    PROVE  /\ ReadAfter
           /\ \A b \in Assets : Monitor!Restores \/ Monitor!Accepting(b) \/ Untouched(b)
<1>1. CASE UNCHANGED <<monitored, health, price_history>>
  <2>1. \A b \in Assets : Len(price_history[b]) \in Nat
    BY DEF ReadingsInv
  <2> QED
    BY <1>1, <2>1 DEF ReadingsInv, ReadAfter, Untouched
<1>2. ASSUME NEW a \in Assets, a \notin Monitor!Range(monitored),
             health' = [health EXCEPT ![a] = Monitor!AssetHealth(0, Monitor!Fresh)],
             monitored' = Append(monitored, a), UNCHANGED price_history
      PROVE  ReadAfter /\ \A b \in Assets : Untouched(b)
  BY <1>2, AddedReads
<1>3. ASSUME NEW a \in Assets, NEW score, NEW status,
             Monitor!Accepting(a) \/ (health[a] # Monitor!Nothing /\ score = health[a].score),
             status \in {health[a]} \cup [paused : BOOLEAN, active : BOOLEAN],
             health' = [health EXCEPT ![a] = Monitor!AssetHealth(score, status)],
             UNCHANGED <<monitored, price_history>>
      PROVE  ReadAfter /\ \A b \in Assets : Monitor!Accepting(b) \/ Untouched(b)
  <2>1. health[a] # Monitor!Nothing
    BY <1>3 DEF Monitor!Accepting
  <2>2. IsReading(health[a])
    BY <2>1 DEF ReadingsInv, Read
  <2>3. status.paused \in BOOLEAN /\ status.active \in BOOLEAN
    BY <1>3, <2>2, ReadingTyped
  <2>4. Rewrites(a, score, status)
    BY <1>3, <2>3 DEF Rewrites
  <2>5. /\ ReadAfter
        /\ \A b \in Assets : b # a \/ score = health[a].score => Untouched(b)
    BY <2>1, <2>4, RewrittenReads
  <2> QED
    BY <1>3, <2>5
<1>4. ASSUME NEW a \in Assets, NEW amount \in Scores, Monitor!Accepting(a),
             price_history' = [price_history EXCEPT ![a] =
                                  Append(price_history[a], Monitor!PriceRecord(amount))],
             UNCHANGED <<monitored, health>>
      PROVE  ReadAfter /\ \A b \in Assets : Monitor!Accepting(b) \/ Untouched(b)
  <2>1. clock \in Nat /\ expiration.price_ttl \in Nat
    BY DEF RecordsInv, Monitor!MonitorConstants, Monitor!ExpirationPolicy
  <2> QED
    BY <1>4, <2>1, PricedReads
<1>5. ASSUME NEW caller, NEW items \in Monitor!Items, Monitor!BatchWritten(caller, items)
      PROVE  ReadAfter /\ \A b \in Assets : Monitor!Accepting(b) \/ Untouched(b)
  BY <1>5, BatchReads
<1>6. ASSUME NEW caller, NEW a \in Assets, NEW extra, Monitor!ExtendExpiration(caller, a, extra)
      PROVE  ReadAfter /\ \A b \in Assets : Untouched(b)
  BY <1>6, ExtendedReads
<1>7. ASSUME NEW caller, NEW max \in Budgets, Monitor!CleanupExpiredData(caller, max)
      PROVE  ReadAfter /\ \A b \in Assets : Untouched(b)
  <2>1. max \in Int
    BY DEF Monitor!MonitorConstants
  <2> QED
    BY <1>7, <2>1, SweptReads
<1>8. ASSUME NEW caller, NEW id \in Monitor!CheckpointId,
             Monitor!RestoreFromCheckpoint(caller, id)
      PROVE  ReadAfter /\ Monitor!Restores
  BY <1>8, RestoredReads, RestoreSeen
<1> QED
  BY <1>1, <1>2, <1>3, <1>4, <1>5, <1>6, <1>7, <1>8 DEF ReadingsMove

\* Every step keeps what the checkpoints hold readings.
LEMMA SavedKeeps ==
    ASSUME SavedInv, CheckpointsInv, Monitor!MonitorConstants, ReadAfter, SnapshotsMove
    PROVE  SavedInv'
<1>1. ASSUME NEW from, Monitor!Persisted(from)
      PROVE  SavedInv'
  <2>1. PICK id \in Monitor!CheckpointId : \E gone : Saves(id, gone, from)
    BY <1>1, PersistedShape
  <2>2. \A j \in Monitor!CheckpointId : snapshots'[j] # Monitor!Nothing =>
            snapshots'[j] \in {NewSnapshot(from), snapshots[j]}
    BY <2>1 DEF Saves
  <2>3. PICK new : new = NewSnapshot(from)
    OBVIOUS
  <2>4. new.monitored = monitored' /\ new.health = health'
    BY <2>3 DEF NewSnapshot
  <2>5. /\ Monitor!IsInjective(new.monitored)
        /\ \A a \in Assets : Read(new.health[a], a, new.monitored)
    BY <2>4 DEF ReadAfter
  <2>6. ASSUME NEW j \in Monitor!CheckpointId, snapshots'[j] # Monitor!Nothing
        PROVE  /\ Monitor!IsInjective(snapshots'[j].monitored)
               /\ \A a \in Assets : Read(snapshots'[j].health[a], a, snapshots'[j].monitored)
    <3>1. CASE snapshots'[j] = new
      BY <2>5, <3>1
    <3>2. CASE snapshots'[j] = snapshots[j]
      BY <2>6, <3>2 DEF SavedInv
    <3> QED
      BY <2>2, <2>3, <2>6, <3>1, <3>2
  <2> QED
    BY <2>6 DEF SavedInv, Read
<1>2. ASSUME \/ UNCHANGED snapshots
             \/ \E before, after : snapshots' = Monitor!Dropped(snapshots, before, after)
      PROVE  SavedInv'
  <2>1. \A j \in Monitor!CheckpointId : snapshots'[j] # Monitor!Nothing =>
            snapshots'[j] = snapshots[j]
    BY <1>2 DEF Monitor!Dropped
  <2> QED
    BY <2>1 DEF SavedInv, Read
<1>3. ASSUME NEW caller, NEW id, Monitor!RestoreFromCheckpoint(caller, id)
      PROVE  Monitor!Persisted(id)
  BY <1>3 DEF Monitor!RestoreFromCheckpoint
<1> QED
  BY <1>1, <1>2, <1>3 DEF SnapshotsMove

\* No submission writes an asset that takes none.
LEMMA UntouchedChecked ==
    ASSUME ReadingsInv, ReadAfter,
           \A b \in Assets : Monitor!Restores \/ Monitor!Accepting(b) \/ Untouched(b)
    PROVE  Monitor!InactiveUntouched
<1> SUFFICES ASSUME NEW a \in Assets, Monitor!Writes(a), ~Monitor!Accepting(a)
             PROVE  FALSE
  BY DEF Monitor!InactiveUntouched
<1>1. Untouched(a)
  BY DEF Monitor!Writes
<1>2. Len(price_history[a]) \in Nat /\ Len(price_history'[a]) \in Nat
  BY DEF ReadingsInv, ReadAfter
<1> QED
  BY <1>1, <1>2 DEF Untouched, Monitor!Writes
-----------------------------------------------------------------------------
\* The limits of the callers, the settings of the clean-ups, the sources.
Used == [window_start : -1 .. LastTick, count : Nat]
TermsInv ==
    /\ blocked \in BOOLEAN
    /\ rate_limit \in Limits \cup {Monitor!NoLimit}
    /\ usage \in [Address -> Used]
    /\ policy \in [Monitor!Kind -> RetentionPolicies \cup {DefaultPolicy}]
    /\ last_checkpoint \in 0 .. LastTick
    /\ source \in [Address -> {"none", "active", "revoked"}]

\* Counting a call keeps the limits typed.
LEMMA LimitedTyped ==
    ASSUME usage \in [Address -> Used], clock \in 1 .. LastTick, NEW caller,
           Monitor!RateLimited(caller)
    PROVE  usage' \in [Address -> Used]
<1>1. CASE UNCHANGED usage
  BY <1>1
<1>2. CASE usage' = [usage EXCEPT ![caller] = [Monitor!Window(caller) EXCEPT !.count = @ + 1]]
  <2>1. PICK w, u : w = Monitor!Window(caller) /\ u = [w EXCEPT !.count = @ + 1]
    OBVIOUS
  <2>2. usage' = [usage EXCEPT ![caller] = u]
    BY <1>2, <2>1
  <2>3. caller \in Address => u \in Used
    <3> SUFFICES ASSUME caller \in Address PROVE u \in Used
      OBVIOUS
    <3>2. PICK old \in Used : old = usage[caller]
      OBVIOUS
    <3>3. w = old \/ w = [window_start |-> clock, count |-> 0]
      BY <2>1, <3>2 DEF Monitor!Window
    <3>4. clock \in -1 .. LastTick
      OBVIOUS
    <3>5. w \in Used
      BY <3>3, <3>4 DEF Used
    <3> QED
      BY <2>1, <3>5 DEF Used
  <2> QED
    BY <2>2, <2>3
<1> QED
  BY <1>1, <1>2 DEF Monitor!RateLimited

\* Every step keeps them typed.
LEMMA TermsStay ==
    ASSUME TermsInv, RecordsInv, BaseMove, TermsMove, SourcesMove
    PROVE  TermsInv'
<1>1. blocked' \in BOOLEAN
  <2>1. CASE UNCHANGED blocked
    BY <2>1 DEF TermsInv
  <2>2. CASE blocked' = ~blocked
    BY <2>2
  <2> QED
    BY <2>1, <2>2 DEF BaseMove
<1>2. rate_limit' \in Limits \cup {Monitor!NoLimit}
  BY DEF BaseMove, TermsInv
<1>3. usage' \in [Address -> Used]
  BY LimitedTyped DEF BaseMove, TermsInv, RecordsInv
<1>4. policy' \in [Monitor!Kind -> RetentionPolicies \cup {DefaultPolicy}]
  BY DEF TermsMove, TermsInv
<1>5. last_checkpoint' \in 0 .. LastTick
  BY DEF TermsMove, TermsInv, RecordsInv
<1>6. source' \in [Address -> {"none", "active", "revoked"}]
  BY DEF SourcesMove, TermsInv
<1> QED
  BY <1>1, <1>2, <1>3, <1>4, <1>5, <1>6 DEF TermsInv

\* The readings, the limits and the settings as the contract is deployed.
LEMMA ReadingsStart ==
    ASSUME Monitor!MonitorConstants, Monitor!Init
    PROVE  ReadingsInv /\ SavedInv /\ TermsInv
<1>1. /\ monitored = <<>> /\ health = [a \in Assets |-> Monitor!Nothing]
      /\ price_history = [a \in Assets |-> <<>>]
      /\ snapshots = [id \in Monitor!CheckpointId |-> Monitor!Nothing]
  BY DEF Monitor!Init
<1>2. ReadingsInv
  <2>1. <<>> \in Seq(Prices) /\ DOMAIN <<>> = {}
    OBVIOUS
  <2>2. Monitor!IsInjective(monitored)
    BY <1>1, <2>1 DEF Monitor!IsInjective
  <2>3. price_history \in [Assets -> Seq(Prices)]
    BY <1>1, <2>1
  <2> QED
    BY <1>1, <2>2, <2>3 DEF ReadingsInv, Read
<1>3. SavedInv
  BY <1>1 DEF SavedInv
<1>4. TermsInv
  <2>1. /\ blocked = FALSE /\ rate_limit = Monitor!NoLimit
        /\ usage = [a \in Address |-> Monitor!NoUsage]
        /\ policy = [k \in Monitor!Kind |-> DefaultPolicy] /\ last_checkpoint = 0
        /\ source = [a \in Address |-> "none"]
    BY DEF Monitor!Init, Monitor!BaseInit, Monitor!RetentionInit
  <2>2. Monitor!NoUsage \in Used /\ 0 \in 0 .. LastTick
    BY DEF Monitor!NoUsage, Used, Monitor!MonitorConstants
  <2> QED
    BY <2>1, <2>2 DEF TermsInv
<1> QED
  BY <1>2, <1>3, <1>4

\* All of it gives the types of the monitor.
LEMMA TypesChecked ==
    ASSUME TermsInv, RecordsInv, ReadingsInv, CheckpointsInv, LocksInv, Monitor!SignersTypeOK
    PROVE  Monitor!TypeOK
<1>1. Monitor!BaseTypeOK
  <2>1. \A a \in Address : usage[a].window_start \in -1 .. LastTick /\ usage[a].count \in Nat
    BY DEF TermsInv, Used
  <2> QED
    BY <2>1 DEF Monitor!BaseTypeOK, TermsInv, RecordsInv
<1>2. Monitor!RetentionTypeOK
  <2>1. ASSUME NEW key \in Monitor!Key,
               NEW r \in Monitor!Range(records[key]) \cup Monitor!Range(archived[key])
        PROVE  r.id \in 1 .. written[key] /\ r.timestamp \in 1 .. LastTick
    <3>1. PICK l, a, n : l = records[key] /\ a = archived[key] /\ n = written[key]
      OBVIOUS
    <3>2. /\ l \in Seq(Logged) /\ a \in Seq(Logged)
          /\ DOMAIN l = 1 .. Len(l) /\ DOMAIN a = 1 .. Len(a)
      BY <3>1 DEF RecordsInv, Lists
    <3>3. /\ \A i \in 1 .. Len(l) : l[i].id \in 1 .. n
          /\ \A i \in 1 .. Len(a) : a[i].id \in 1 .. n
      BY <3>1 DEF RecordsInv, Filed
    <3>4. r \in Logged
      BY <2>1, <3>1, <3>2 DEF Monitor!Range
    <3>5. r.id \in 1 .. n
      BY <2>1, <3>1, <3>2, <3>3 DEF Monitor!Range
    <3> QED
      BY <3>1, <3>4, <3>5 DEF Logged
  <2>2. ASSUME NEW k \in Monitor!Kind, NEW key \in Monitor!Range(keys[k])
        PROVE  key \in Monitor!Key /\ Monitor!KindOf(key) = k
    <3>1. PICK l : l = keys[k]
      OBVIOUS
    <3>2. /\ l \in Seq(Monitor!Key) /\ DOMAIN l = 1 .. Len(l)
          /\ \A i \in 1 .. Len(l) : Monitor!KindOf(l[i]) = k
      BY <3>1 DEF RecordsInv, KeyLists
    <3> QED
      BY <2>2, <3>1, <3>2 DEF Monitor!Range
  <2> QED
    BY <2>1, <2>2 DEF Monitor!RetentionTypeOK, TermsInv, RecordsInv
<1>3. Monitor!Range(monitored) \subseteq Assets
  <2>1. monitored \in Seq(Assets) /\ DOMAIN monitored = 1 .. Len(monitored)
    BY DEF CheckpointsInv
  <2> QED
    BY <2>1 DEF Monitor!Range
<1>4. ASSUME NEW a \in Assets, health[a] # Monitor!Nothing
      PROVE  health[a].paused \in BOOLEAN /\ health[a].active \in BOOLEAN
  BY <1>4, ReadingTyped DEF ReadingsInv, Read
<1> QED
  BY <1>1, <1>2, <1>3, <1>4 DEF Monitor!TypeOK, TermsInv, ReadingsInv, LocksInv
-----------------------------------------------------------------------------
\* The inductive invariant of the monitor.
MonitorInv ==
    /\ SignersInv /\ LocksInv /\ CheckpointsInv
    /\ RecordsInv /\ SnapshotsInv /\ CountsInv
    /\ ReadingsInv /\ SavedInv /\ TermsInv

\* The invariant holds as the contract is deployed.
LEMMA MonitorStarts ==
    ASSUME Monitor!MonitorConstants, Monitor!Init
    PROVE  MonitorInv
<1>1. SignersInv
  <2>1. MaxNonce \in Nat /\ 0 \in 0 .. MaxNonce
    BY DEF Monitor!MonitorConstants
  <2>2. /\ signer = [id \in SignerId |-> "none"] /\ nonce = [id \in SignerId |-> 0]
        /\ sig_cache = {} /\ sig_threshold = 1 /\ taken = <<>>
    BY DEF Monitor!Init, Monitor!SignersInit
  <2>3. Monitor!Ledger \in Book
    BY <2>1, <2>2 DEF Monitor!Ledger, Book
  <2>4. Kept(Monitor!Ledger)
    BY <2>2 DEF Monitor!Ledger, Kept, NoncesSpent, TakenOnce, Earned
  <2> QED
    BY <2>2, <2>3, <2>4 DEF SignersInv, SoundBooks
<1>2. LocksInv
  BY DEF Monitor!Init, LocksInv, Monitor!LockHistoryTrue
<1>3. CheckpointsInv
  BY DEF Monitor!Init, Monitor!RetentionInit, CheckpointsInv, Monitor!RestoreExact
<1> QED
  BY <1>1, <1>2, <1>3, RecordsStart, ReadingsStart DEF MonitorInv

\* Every step keeps the invariant, and takes away or writes only what it may.
LEMMA MonitorKeeps ==
    ASSUME Monitor!MonitorConstants, MonitorInv, [Monitor!Next]_(Monitor!vars)
    PROVE  MonitorInv' /\ Monitor!DeletedDue /\ Monitor!InactiveUntouched
<1>1. Moves /\ Writings
  BY StepMoves, StepWrites
<1>2. SignersInv' /\ LocksInv' /\ CheckpointsInv'
  BY <1>1, SignersKeep, LocksKeep, CheckpointsKeep DEF Moves, MonitorInv
<1>3. RecordsInv' /\ SnapshotsInv' /\ RecordsJustified
  BY <1>1, RecordsKeep DEF MonitorInv
<1>4. CountsInv'
  BY <1>1, CountsKeep DEF MonitorInv
<1>5. /\ ReadAfter
      /\ \A b \in Assets : Monitor!Restores \/ Monitor!Accepting(b) \/ Untouched(b)
  BY <1>1, ReadingsKeep DEF MonitorInv, Writings
<1>6. ReadingsInv'
  BY <1>5 DEF ReadAfter, ReadingsInv, Read
<1>7. SavedInv'
  BY <1>1, <1>5, SavedKeeps DEF MonitorInv, Moves
<1>8. TermsInv'
  BY <1>1, TermsStay DEF MonitorInv, Writings
<1>9. Monitor!DeletedDue
  BY <1>3, DueChecked DEF MonitorInv
<1>10. Monitor!InactiveUntouched
  BY <1>5, UntouchedChecked DEF MonitorInv
<1> QED
  BY <1>2, <1>3, <1>4, <1>6, <1>7, <1>8, <1>9, <1>10 DEF MonitorInv

\* The invariant holds in every reachable state.
LEMMA MonitorInvariant ==
    ASSUME Monitor!MonitorConstants
    PROVE  Monitor!Spec => []MonitorInv
<1>1. Monitor!Init => MonitorInv
  BY MonitorStarts
<1>2. MonitorInv /\ [Monitor!Next]_(Monitor!vars) => MonitorInv'
  BY MonitorKeeps
<1> QED
  BY <1>1, <1>2, PTL DEF Monitor!Spec

\* verify_signature and verify_multi_sig take the nonces of a signer in rising order, none
\* twice, by whatever call and payload they come, and the first signature taken for a payload
\* is genuine: one that is not is taken only after it.  For any number of signers, payloads
\* and signatures.
THEOREM SignaturesCount ==
    ASSUME Monitor!MonitorConstants
    PROVE  Monitor!Spec =>
              [](Monitor!SignersTypeOK /\ Monitor!SignaturesOnce /\ Monitor!CacheEarned)
<1>1. MonitorInv => Monitor!SignersTypeOK /\ Monitor!SignaturesOnce /\ Monitor!CacheEarned
  BY SignersChecked DEF MonitorInv
<1> QED
  BY <1>1, MonitorInvariant, PTL

\* What is recorded agrees with what happened, through every call, clean-up and pruning: the
\* history of the locks of an asset with its lock, the list of checkpoints with the ones
\* stored and with the maximum, a restored checkpoint with what it was restored from; and no
\* record is kept twice, in its list, its archive or both.
THEOREM RestoresAreExact ==
    ASSUME Monitor!MonitorConstants
    PROVE  Monitor!Spec =>
              [](/\ Monitor!LockHistoryTrue /\ Monitor!SnapshotsListed
                 /\ Monitor!RestoreExact /\ Monitor!RecordsOnce)
<1>1. MonitorInv => /\ Monitor!LockHistoryTrue /\ Monitor!SnapshotsListed
                    /\ Monitor!RestoreExact /\ Monitor!RecordsOnce
  BY ListedChecked, OnceChecked DEF MonitorInv, LocksInv, CheckpointsInv
<1> QED
  BY <1>1, MonitorInvariant, PTL

\* The records of the monitor, the readings and the settings hold values of their types: no
\* asset is listed twice, every record has a number that was given out, a list of keys has
\* keys of its kind.
THEOREM MonitorTyped ==
    ASSUME Monitor!MonitorConstants
    PROVE  Monitor!Spec => []Monitor!TypeOK
<1>1. MonitorInv => Monitor!TypeOK
  BY SignersChecked, TypesChecked DEF MonitorInv
<1> QED
  BY <1>1, MonitorInvariant, PTL

\* A record of a bridge or a pair leaves its list only when it is due: in an expiry sweep, past
\* its time to live, which archives nothing and leaves an entry where the policy preserves one;
\* or in a clean-up, automatic or by hand, older than its retention, which archives it where
\* the policy of its kind says so and leaves a later record.  And no submission of any kind
\* writes an asset while it is paused or after it is deregistered.
THEOREM StepsAreJustified ==
    ASSUME Monitor!MonitorConstants
    PROVE  Monitor!Spec =>
              [][Monitor!DeletedDue /\ Monitor!InactiveUntouched]_(Monitor!vars)
<1>1. MonitorInv /\ [Monitor!Next]_(Monitor!vars) =>
          Monitor!DeletedDue /\ Monitor!InactiveUntouched
  BY MonitorKeeps
<1> QED
  BY <1>1, MonitorInvariant, PTL DEF Monitor!Spec
=============================================================================
