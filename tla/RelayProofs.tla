------------------------------ MODULE RelayProofs ------------------------------
(***************************************************************************)
(* Proofs about module Relay, and about module Reputation, which keeps     *)
(* the scores of relay operators, for every value of their constants.      *)
(***************************************************************************)
EXTENDS Relay, TLAPS, FiniteSetTheorems, SequenceTheorems, SumTheorems

-----------------------------------------------------------------------------
(***************************************************************************)
(* The queue after some ids are removed.                                   *)
(***************************************************************************)

\* What is kept of the first n entries, given what is kept of fewer.
Keep(g, ids, n) ==
    IF n = 0 THEN <<>>
    ELSE IF queue[n] \in ids THEN g[n - 1]
    ELSE Append(g[n - 1], queue[n])

\* The table in the definition of Without.
Kept(ids) == CHOOSE g : g = [n \in 0 .. Len(queue) |-> Keep(g, ids, n)]

\* Without is the last entry of that table.
LEMMA WithoutUnfolded ==
    ASSUME NEW ids
    PROVE  Without(ids) = Kept(ids)[Len(queue)]
BY DEF Without, Kept, Keep

\* The recursion has a solution: one for the first n entries extends to one more.
LEMMA KeptExists ==
    ASSUME NEW ids, queue \in Seq(MessageId)
    PROVE  Kept(ids) = [n \in 0 .. Len(queue) |-> Keep(Kept(ids), ids, n)]
<1> DEFINE Solves(g, n) == g = [k \in 0 .. n |-> Keep(g, ids, k)]
           Good == {n \in Nat : \E g : Solves(g, n)}
<1>1. 0 \in Good
  <2> DEFINE g0 == [k \in 0 .. 0 |-> <<>>]
  <2>1. \A k \in 0 .. 0 : Keep(g0, ids, k) = <<>>
    BY DEF Keep
  <2>2. Solves(g0, 0)
    BY <2>1
  <2> QED
    BY <2>2
<1>2. ASSUME NEW n \in Nat, n \in Good PROVE n + 1 \in Good
  <2>1. PICK g : Solves(g, n)
    BY <1>2
  <2> DEFINE last == IF queue[n + 1] \in ids THEN g[n] ELSE Append(g[n], queue[n + 1])
             h == [k \in 0 .. n + 1 |-> IF k = n + 1 THEN last ELSE g[k]]
  <2>2. ASSUME NEW k \in 0 .. n + 1 PROVE h[k] = Keep(h, ids, k)
    <3>1. CASE k = n + 1
      <4>1. k # 0 /\ k - 1 = n /\ n \in 0 .. n + 1 /\ n # n + 1
        BY <3>1
      <4>2. h[k - 1] = g[n] /\ h[k] = last
        BY <3>1, <4>1
      <4> HIDE DEF h
      <4> QED
        BY <3>1, <4>1, <4>2 DEF Keep
    <3>2. CASE k # n + 1
      <4>1. k \in 0 .. n /\ h[k] = g[k]
        BY <3>2
      <4>2. k # 0 => k - 1 \in 0 .. n + 1 /\ k - 1 # n + 1
        BY <4>1
      <4>3. k # 0 => h[k - 1] = g[k - 1]
        BY <4>2
      <4>4. g[k] = Keep(g, ids, k)
        BY <2>1, <4>1
      <4> HIDE DEF h
      <4> QED
        BY <4>1, <4>3, <4>4 DEF Keep
    <3> QED
      BY <3>1, <3>2
  <2>3. h = [k \in 0 .. n + 1 |-> h[k]]
    OBVIOUS
  <2>4. Solves(h, n + 1)
    <3> HIDE DEF h
    <3> QED
      BY <2>2, <2>3
  <2> HIDE DEF h, Solves
  <2> QED
    BY <2>4
<1>3. Nat \subseteq Good
  <2> HIDE DEF Good
  <2> QED
    BY <1>1, <1>2, NumberInduction
<1>4. Len(queue) \in Nat
  OBVIOUS
<1> HIDE DEF Solves
<1>5. \E g : Solves(g, Len(queue))
  BY <1>3, <1>4
<1> QED
  BY <1>5 DEF Solves, Kept

\* s holds the entries of the first n places of the queue whose id is not in ids, in
\* their order: the j-th stood at place at[j].
Sieves(s, at, ids, n) ==
    /\ s \in Seq(MessageId)
    /\ at \in [1 .. Len(s) -> 1 .. n]
    /\ \A j \in 1 .. Len(s) : s[j] = queue[at[j]] /\ s[j] \notin ids
    /\ \A j, k \in 1 .. Len(s) : j < k => at[j] < at[k]
    /\ \A k \in 1 .. n : queue[k] \notin ids => \E j \in 1 .. Len(s) : s[j] = queue[k]

\* Without leaves exactly the other ids, in the order they were in.
LEMMA WithoutSieves ==
    ASSUME NEW ids, queue \in Seq(MessageId)
    PROVE  \E at : Sieves(Without(ids), at, ids, Len(queue))
<1> DEFINE L == Len(queue)
           kept == Kept(ids)
           Good == {n \in Nat : n <= L => \E at : Sieves(kept[n], at, ids, n)}
<1>0. L \in Nat /\ \A n \in 1 .. L : queue[n] \in MessageId
  OBVIOUS
<1>k. kept = [n \in 0 .. L |-> Keep(kept, ids, n)]
  BY KeptExists
<1> HIDE DEF kept, L
<1>1. 0 \in Good
  <2> DEFINE none == [j \in 1 .. 0 |-> 0]
  <2>1. kept[0] = <<>>
    BY <1>0, <1>k DEF Keep
  <2>2. Sieves(<<>>, none, ids, 0)
    BY DEF Sieves
  <2> QED
    BY <2>1, <2>2
<1>2. ASSUME NEW n \in Nat, n \in Good PROVE n + 1 \in Good
  <2> SUFFICES ASSUME n + 1 <= L
               PROVE  \E at : Sieves(kept[n + 1], at, ids, n + 1)
    OBVIOUS
  <2>1. n + 1 \in 0 .. L /\ n + 1 # 0 /\ (n + 1) - 1 = n /\ n <= L
    BY <1>0
  <2> DEFINE q == queue[n + 1]
             s == kept[n]
  <2>2. PICK at : Sieves(s, at, ids, n)
    BY <1>2, <2>1
  <2>q. q \in MessageId
    BY <1>0, <2>1
  <2>3. kept[n + 1] = IF q \in ids THEN s ELSE Append(s, q)
    BY <1>k, <2>1 DEF Keep
  <2> HIDE DEF s
  <2>4. CASE q \in ids
    <3>1. kept[n + 1] = s
      BY <2>3, <2>4
    <3>2. at \in [1 .. Len(s) -> 1 .. n + 1]
      BY <2>2 DEF Sieves
    <3>3. \A k \in 1 .. n + 1 : queue[k] \notin ids => k \in 1 .. n
      BY <2>4
    <3>4. Sieves(s, at, ids, n + 1)
      BY <2>2, <3>2, <3>3 DEF Sieves
    <3> QED
      BY <3>1, <3>4
  <2>5. CASE q \notin ids
    <3> DEFINE t == Append(s, q)
               l == Len(s)
               put == [j \in 1 .. l + 1 |-> IF j = l + 1 THEN n + 1 ELSE at[j]]
    <3>1. kept[n + 1] = t
      BY <2>3, <2>5
    <3>2. /\ t \in Seq(MessageId) /\ l \in Nat /\ Len(t) = l + 1
          /\ t[l + 1] = q /\ \A j \in 1 .. l : t[j] = s[j]
      BY <2>2, <2>q DEF Sieves
    <3>3. /\ \A j \in 1 .. l : at[j] \in 1 .. n
          /\ \A j \in 1 .. l : s[j] = queue[at[j]] /\ s[j] \notin ids
          /\ \A j, k \in 1 .. l : j < k => at[j] < at[k]
          /\ \A k \in 1 .. n : queue[k] \notin ids => \E j \in 1 .. l : s[j] = queue[k]
      BY <2>2 DEF Sieves
    <3> HIDE DEF t, l
    <3>4. /\ put[l + 1] = n + 1
          /\ \A j \in 1 .. l : put[j] = at[j]
      BY <3>2
    <3>5. put \in [1 .. l + 1 -> 1 .. n + 1]
      BY <3>2, <3>3
    <3> HIDE DEF put
    <3>6. \A j \in 1 .. l + 1 : j = l + 1 \/ j \in 1 .. l
      BY <3>2
    <3>7. \A j \in 1 .. l + 1 : t[j] = queue[put[j]] /\ t[j] \notin ids
      BY <2>5, <3>2, <3>3, <3>4, <3>6
    <3>8. ASSUME NEW j \in 1 .. l + 1, NEW k \in 1 .. l + 1, j < k PROVE put[j] < put[k]
      <4>1. j \in 1 .. l
        BY <3>2, <3>8
      <4>2. at[j] \in 1 .. n /\ put[j] = at[j]
        BY <3>3, <3>4, <4>1
      <4>3. CASE k = l + 1
        BY <3>4, <4>2, <4>3
      <4>4. CASE k \in 1 .. l
        BY <3>3, <3>4, <3>8, <4>1, <4>4
      <4> QED
        BY <3>6, <4>3, <4>4
    <3>9. ASSUME NEW k \in 1 .. n + 1, queue[k] \notin ids
          PROVE  \E j \in 1 .. l + 1 : t[j] = queue[k]
      <4>1. CASE k = n + 1
        <5>1. l + 1 \in 1 .. l + 1
          BY <3>2
        <5> QED
          BY <3>2, <4>1, <5>1
      <4>2. CASE k # n + 1
        <5>1. PICK j \in 1 .. l : s[j] = queue[k]
          BY <3>3, <3>9, <4>2
        <5>2. j \in 1 .. l + 1 /\ t[j] = queue[k]
          BY <3>2, <5>1
        <5> QED
          BY <5>2
      <4> QED
        BY <4>1, <4>2
    <3>10. Sieves(t, put, ids, n + 1)
      BY <3>2, <3>5, <3>7, <3>8, <3>9 DEF Sieves
    <3> QED
      BY <3>1, <3>10
  <2> QED
    BY <2>4, <2>5
<1>3. Nat \subseteq Good
  <2> HIDE DEF Good
  <2> QED
    BY <1>1, <1>2, NumberInduction
<1>4. \E at : Sieves(kept[L], at, ids, L)
  BY <1>0, <1>3
<1> QED
  BY <1>4, WithoutUnfolded DEF kept, L

\* Without keeps order and distinctness, and removes the ids and nothing else.
LEMMA WithoutQueue ==
    ASSUME NEW ids, queue \in Seq(MessageId),
           \A j, k \in DOMAIN queue : queue[j] = queue[k] => j = k
    PROVE  /\ Without(ids) \in Seq(MessageId)
           /\ \A j, k \in DOMAIN Without(ids) : Without(ids)[j] = Without(ids)[k] => j = k
           /\ \A id : id \in Range(Without(ids)) <=> id \in Range(queue) /\ id \notin ids
           /\ \A j, k \in DOMAIN Without(ids) : j < k =>
                \E l, m \in DOMAIN queue : /\ l < m
                                           /\ Without(ids)[j] = queue[l]
                                           /\ Without(ids)[k] = queue[m]
<1> DEFINE s == Without(ids)
           L == Len(queue)
           n == Len(s)
<1>1. PICK at : Sieves(s, at, ids, L)
  BY WithoutSieves
<1> HIDE DEF s
<1>2. /\ s \in Seq(MessageId)
      /\ \A j \in 1 .. n : at[j] \in 1 .. L
      /\ \A j \in 1 .. n : s[j] = queue[at[j]] /\ s[j] \notin ids
      /\ \A j, k \in 1 .. n : j < k => at[j] < at[k]
      /\ \A k \in 1 .. L : queue[k] \notin ids => \E j \in 1 .. n : s[j] = queue[k]
  BY <1>1 DEF Sieves
<1>3. /\ n \in Nat /\ L \in Nat
      /\ DOMAIN s = 1 .. n /\ DOMAIN queue = 1 .. L
  BY <1>2
<1> HIDE DEF n, L
<1>4. ASSUME NEW j \in 1 .. n, NEW k \in 1 .. n, j < k PROVE s[j] # s[k]
  <2>1. at[j] < at[k] /\ at[j] \in 1 .. L /\ at[k] \in 1 .. L
    BY <1>2, <1>4
  <2>2. at[j] # at[k]
    BY <1>3, <2>1
  <2>3. queue[at[j]] # queue[at[k]]
    BY <1>3, <2>1, <2>2
  <2> QED
    BY <1>2, <2>3
<1>5. \A j, k \in 1 .. n : s[j] = s[k] => j = k
  <2> SUFFICES ASSUME NEW j \in 1 .. n, NEW k \in 1 .. n, j # k PROVE s[j] # s[k]
    OBVIOUS
  <2>1. j < k \/ k < j
    BY <1>3
  <2> QED
    BY <1>4, <2>1
<1>6. ASSUME NEW id PROVE id \in Range(s) <=> id \in Range(queue) /\ id \notin ids
  <2>1. id \in Range(s) <=> \E j \in 1 .. n : s[j] = id
    BY <1>3 DEF Range
  <2>2. id \in Range(queue) <=> \E j \in 1 .. L : queue[j] = id
    BY <1>3 DEF Range
  <2> QED
    BY <1>2, <2>1, <2>2
<1>7. \A j, k \in 1 .. n : j < k =>
        \E l, m \in 1 .. L : l < m /\ s[j] = queue[l] /\ s[k] = queue[m]
  BY <1>2, SMTT(30)
<1>8. \A id : id \in Range(s) <=> id \in Range(queue) /\ id \notin ids
  BY <1>6
<1>9. /\ s \in Seq(MessageId)
      /\ \A j, k \in DOMAIN s : s[j] = s[k] => j = k
      /\ \A j, k \in DOMAIN s : j < k =>
            \E l, m \in DOMAIN queue : l < m /\ s[j] = queue[l] /\ s[k] = queue[m]
  <2>1. s \in Seq(MessageId)
    BY <1>2
  <2>2. \A j, k \in DOMAIN s : s[j] = s[k] => j = k
    BY <1>3, <1>5
  <2>3. ASSUME NEW j \in DOMAIN s, NEW k \in DOMAIN s, j < k
        PROVE  \E l, m \in DOMAIN queue : l < m /\ s[j] = queue[l] /\ s[k] = queue[m]
    <3>1. j \in 1 .. n /\ k \in 1 .. n
      BY <1>3
    <3>2. PICK l \in 1 .. L, m \in 1 .. L : l < m /\ s[j] = queue[l] /\ s[k] = queue[m]
      BY <1>7, <2>3, <3>1
    <3>3. l \in DOMAIN queue /\ m \in DOMAIN queue
      BY <1>3
    <3> QED
      BY <3>2, <3>3
  <2> QED
    BY <2>1, <2>2, <2>3
<1> QED
  BY <1>8, <1>9 DEF s

-----------------------------------------------------------------------------
(***************************************************************************)
(* The queue after a message is inserted.                                  *)
(***************************************************************************)

\* id stands at place at of s, with the queue up to there before it and the rest behind.
Inserted(s, id, at) ==
    /\ s \in Seq(MessageId)
    /\ Len(s) = Len(queue) + 1
    /\ \A j \in 1 .. Len(queue) + 1 :
          s[j] = IF j < at THEN queue[j] ELSE IF j = at THEN id ELSE queue[j - 1]

\* A sequence cut at a place, with an element put between the parts.
LEMMA CutAndPut ==
    ASSUME queue \in Seq(MessageId), NEW id \in MessageId, NEW at \in 1 .. Len(queue) + 1
    PROVE  Inserted(SubSeq(queue, 1, at - 1) \o <<id>> \o SubSeq(queue, at, Len(queue)), id, at)
<1> DEFINE L == Len(queue)
           a == SubSeq(queue, 1, at - 1)
           b == SubSeq(queue, at, L)
           c == a \o <<id>>
<1>1. L \in Nat
  OBVIOUS
<1>2. a \in Seq(MessageId) /\ Len(a) = at - 1 /\ \A j \in 1 .. at - 1 : a[j] = queue[j]
  OBVIOUS
<1>3. /\ b \in Seq(MessageId) /\ Len(b) = L - at + 1
      /\ \A j \in 1 .. L - at + 1 : b[j] = queue[at + j - 1]
  OBVIOUS
<1> HIDE DEF a, b
<1>4. /\ c \in Seq(MessageId) /\ Len(c) = at
      /\ \A j \in 1 .. at : c[j] = IF j < at THEN a[j] ELSE id
  BY <1>2
<1> HIDE DEF c
<1>5. /\ c \o b \in Seq(MessageId) /\ Len(c \o b) = L + 1
      /\ \A j \in 1 .. L + 1 : (c \o b)[j] = IF j <= at THEN c[j] ELSE b[j - at]
  <2>1. c \o b \in Seq(MessageId) /\ Len(c \o b) = Len(c) + Len(b)
    BY <1>3, <1>4, ConcatProperties
  <2>2. Len(c) + Len(b) = L + 1
    BY <1>1, <1>3, <1>4
  <2>3. \A j \in 1 .. Len(c) + Len(b) :
          (c \o b)[j] = IF j <= Len(c) THEN c[j] ELSE b[j - Len(c)]
    BY <1>3, <1>4
  <2> QED
    BY <1>4, <2>1, <2>2, <2>3
<1>6. ASSUME NEW j \in 1 .. L + 1
      PROVE  (c \o b)[j] = IF j < at THEN queue[j] ELSE IF j = at THEN id ELSE queue[j - 1]
  <2>1. CASE j < at
    <3>1. j <= at /\ j \in 1 .. at /\ j \in 1 .. at - 1
      BY <2>1
    <3> QED
      BY <1>2, <1>4, <1>5, <2>1, <3>1
  <2>2. CASE j = at
    <3>1. j <= at /\ j \in 1 .. at /\ ~(j < at)
      BY <2>2
    <3> QED
      BY <1>4, <1>5, <2>2, <3>1
  <2>3. CASE j > at
    <3>1. ~(j <= at) /\ ~(j < at) /\ j # at
      BY <1>1, <2>3
    <3>2. j - at \in 1 .. L - at + 1 /\ at + (j - at) - 1 = j - 1
      BY <1>1, <2>3
    <3>3. (c \o b)[j] = b[j - at]
      BY <1>5, <3>1
    <3>4. b[j - at] = queue[at + (j - at) - 1]
      BY <1>3, <3>2
    <3> QED
      BY <3>1, <3>2, <3>3, <3>4
  <2>4. j < at \/ j = at \/ j > at
    BY <1>1
  <2> QED
    BY <2>1, <2>2, <2>3, <2>4
<1> QED
  BY <1>5, <1>6 DEF Inserted, a, b, c, L

\* InsertByPriority puts the id behind everything at least as urgent, and before the
\* first less urgent message.
LEMMA InsertPlaces ==
    ASSUME queue \in Seq(MessageId), NEW id \in MessageId, NEW priority \in Int,
           \A k \in 1 .. Len(queue) : messages[queue[k]].priority \in Int
    PROVE  \E at \in 1 .. Len(queue) + 1 :
              /\ Inserted(InsertByPriority(id, priority), id, at)
              /\ \A k \in 1 .. Len(queue) :
                    k < at => messages[queue[k]].priority <= priority
              /\ at <= Len(queue) => messages[queue[at]].priority > priority
<1> DEFINE after == Behind(priority)
           L == Len(queue)
           at == IF after = {} THEN L + 1 ELSE CHOOSE k \in after : \A j \in after : k <= j
<1>1. /\ L \in Nat
      /\ after = {k \in 1 .. L : messages[queue[k]].priority > priority}
  BY DEF Behind
<1>2. InsertByPriority(id, priority) =
        SubSeq(queue, 1, at - 1) \o <<id>> \o SubSeq(queue, at, L)
  BY DEF InsertByPriority
<1>3. after # {} => at \in after /\ \A j \in after : at <= j
  <2>1. after \in SUBSET Nat
    BY <1>1
  <2>2. after # {} => \E k \in after : \A j \in after : k <= j
    <3> HIDE DEF after
    <3> QED
      BY <2>1, LeastNumber
  <2> HIDE DEF after
  <2> QED
    BY <2>2
<1>4. after = {} => at = L + 1
  OBVIOUS
<1> HIDE DEF at
<1>5. at \in 1 .. L + 1
  BY <1>1, <1>3, <1>4
<1>6. Inserted(InsertByPriority(id, priority), id, at)
  BY <1>2, <1>5, CutAndPut
<1>7. ASSUME NEW k \in 1 .. L, k < at PROVE messages[queue[k]].priority <= priority
  <2>1. k \notin after
    BY <1>1, <1>3, <1>4, <1>7, SMTT(30)
  <2> QED
    BY <1>1, <2>1
<1>8. at <= L => messages[queue[at]].priority > priority
  BY <1>1, <1>3, <1>4
<1> QED
  BY <1>5, <1>6, <1>7, <1>8

-----------------------------------------------------------------------------
(***************************************************************************)
(* The inductive invariant.                                                *)
(***************************************************************************)

\* What send_message relies on: a nonce the sender has not reached has no message, no
\* fee and no relay; and what later sends rely on: orders are below total_messages.
Recorded ==
    \A id \in MessageId :
        /\ ~Sent(id) => relays[id] = 0 /\ messages[id].fee = 0
        /\ Sent(id) => messages[id].order < total_messages

\* An address that is not registered is not active and has relayed nothing, so that
\* registering it resets no count.
OperatorsKnown ==
    \A o \in Operator :
        ~operators[o].registered =>
            ~operators[o].is_active /\ operators[o].messages_relayed = 0

IInv ==
    /\ TypeOK
    /\ QueueFaithful
    /\ QueueOrdered
    /\ RelayBooks
    /\ Recorded
    /\ OperatorsKnown

\* The functions the books add up.
Counts == [o \in Operator |-> operators[o].messages_relayed]
Fees == [id \in MessageId |-> messages[id].fee]

\* The ids are finitely many, and the sums of the books run over known sets.
LEMMA BooksDomains ==
    ASSUME TypeOK
    PROVE  /\ IsFiniteSet(MessageId) /\ IsFiniteSet(Sender) /\ IsFiniteSet(Operator)
           /\ SumFunction(relays) = SumFunctionOnSet(relays, MessageId)
           /\ SumFunction(Counts) = SumFunctionOnSet(Counts, Operator)
           /\ SumFunction(nonces) = SumFunctionOnSet(nonces, Sender)
           /\ SumFunction(Fees) = SumFunctionOnSet(Fees, MessageId)
<1>1. IsFiniteSet(0 .. MaxNonce - 1)
  BY FS_Interval, RelayAssumption
<1>2. IsFiniteSet(MessageId)
  BY <1>1, FS_Product, RelayAssumption DEF MessageId
<1>3. /\ DOMAIN relays = MessageId /\ DOMAIN nonces = Sender
      /\ DOMAIN Counts = Operator /\ DOMAIN Fees = MessageId
  BY DEF TypeOK, Counts, Fees
<1> QED
  BY <1>2, <1>3, RelayAssumption DEF SumFunction

\* Every state starts with nothing sent, queued or relayed.
LEMMA InitIInv == Init => IInv
<1> SUFFICES ASSUME Init PROVE IInv
  OBVIOUS
<1>1. (CHOOSE c \in Chain : TRUE) \in Chain
  BY RelayAssumption
<1>2. \A id \in MessageId : ~Sent(id) /\ relays[id] = 0 /\ messages[id].fee = 0
  BY DEF Init, Sent, Status
<1>3. TypeOK
  <2>1. MaxNonce \in Nat /\ 0 \in Seconds /\ chain_config \in [Chain -> ChainConfig]
    BY RelayAssumption DEF Init, Seconds
  <2>2. nonces \in [Sender -> 0 .. MaxNonce]
    BY <2>1 DEF Init
  <2>3. operators \in [Operator -> RelayOperator]
    BY DEF Init, RelayOperator
  <2>4. messages \in [MessageId -> CrossChainMessage]
    BY <1>1, <2>1 DEF Init, CrossChainMessage, MessageStatus
  <2>5. queue \in Seq(MessageId) /\ relays \in [MessageId -> Nat]
    BY DEF Init
  <2>6. \A id \in MessageId : Sent(id) <=> id[2] < nonces[SenderOf(id)]
    <3> SUFFICES ASSUME NEW id \in MessageId PROVE ~(id[2] < nonces[SenderOf(id)])
      BY <1>2
    <3>1. id[1] \in Sender /\ id[2] \in 0 .. MaxNonce - 1
      BY DEF MessageId
    <3>2. nonces[SenderOf(id)] = 0
      BY <3>1 DEF Init, SenderOf
    <3> QED
      BY <2>1, <3>1, <3>2
  <2> QED
    BY <2>1, <2>2, <2>3, <2>4, <2>5, <2>6 DEF TypeOK, Init
<1>4. QueueFaithful
  <2>1. DOMAIN queue = {} /\ \A id \in MessageId : Status(id) = "None"
    BY DEF Init, Status
  <2>2. \A id \in MessageId : ~InQueue(id)
    BY <2>1 DEF InQueue, Range
  <2> QED
    BY <2>1, <2>2 DEF QueueFaithful, Open
<1>5. QueueOrdered
  BY DEF Init, QueueOrdered
<1>6. RelayBooks
  <2>1. SumFunction(relays) = 0 /\ SumFunction(nonces) = 0
        /\ SumFunction(Counts) = 0 /\ SumFunction(Fees) = 0
    <3>1. /\ \A id \in MessageId : relays[id] = 0 /\ Fees[id] = 0
          /\ \A s \in Sender : nonces[s] = 0
          /\ \A o \in Operator : Counts[o] = 0
      BY DEF Init, Fees, Counts
    <3> QED
      BY <1>3, <3>1, BooksDomains, SumConstantZero
  <2>2. \A id \in MessageId : relays[id] = 0 /\ Status(id) = "None"
    BY DEF Init, Status
  <2>3. total_relayed = 0 /\ total_messages = 0 /\ total_fees = 0
    BY DEF Init
  <2> QED
    BY <2>1, <2>2, <2>3 DEF RelayBooks, Counts, Fees
<1>7. Recorded /\ OperatorsKnown
  BY <1>2 DEF Recorded, OperatorsKnown, Init
<1> QED
  BY <1>3, <1>4, <1>5, <1>6, <1>7 DEF IInv

-----------------------------------------------------------------------------
(***************************************************************************)
(* Steps that change no message but its status.                            *)
(***************************************************************************)

\* The records keep everything but the status, and no message appears or disappears.
OnlyStatus ==
    /\ messages' = [id \in MessageId |-> messages'[id]]
    /\ \A id \in MessageId : \E st \in MessageStatus \cup {"None"} :
          /\ messages'[id] = [messages[id] EXCEPT !.status = st]
          /\ st = "None" <=> ~Sent(id)

\* Such a step keeps the records' type and their other fields.
LEMMA OnlyStatusRecords ==
    ASSUME TypeOK, OnlyStatus
    PROVE  /\ messages' \in [MessageId -> CrossChainMessage]
           /\ \A id \in MessageId :
                 /\ messages'[id].priority = messages[id].priority
                 /\ messages'[id].order = messages[id].order
                 /\ messages'[id].fee = messages[id].fee
                 /\ Sent(id)' <=> Sent(id)
<1>1. ASSUME NEW id \in MessageId
      PROVE  /\ messages'[id] \in CrossChainMessage
             /\ messages'[id].priority = messages[id].priority
             /\ messages'[id].order = messages[id].order
             /\ messages'[id].fee = messages[id].fee
             /\ Sent(id)' <=> Sent(id)
  <2>1. PICK st \in MessageStatus \cup {"None"} :
          /\ messages'[id] = [messages[id] EXCEPT !.status = st]
          /\ st = "None" <=> ~Sent(id)
    BY DEF OnlyStatus
  <2>2. messages[id] \in CrossChainMessage
    BY DEF TypeOK
  <2>3. /\ messages'[id] \in CrossChainMessage
        /\ messages'[id].priority = messages[id].priority
        /\ messages'[id].order = messages[id].order
        /\ messages'[id].fee = messages[id].fee
        /\ messages'[id].status = st
    BY <2>1, <2>2 DEF CrossChainMessage
  <2> QED
    BY <2>1, <2>3 DEF Sent, Status
<1>2. messages' \in [MessageId -> CrossChainMessage]
  <2>1. messages' = [id \in MessageId |-> messages'[id]]
    BY DEF OnlyStatus
  <2>2. \A id \in MessageId : messages'[id] \in CrossChainMessage
    BY <1>1
  <2> QED
    BY <2>1, <2>2
<1> QED
  BY <1>1, <1>2

\* Such a step keeps the types, if it keeps those of what else it changes.
LEMMA OnlyStatusTypes ==
    ASSUME TypeOK, OnlyStatus, UNCHANGED <<chain_config, nonces, total_messages, total_fees>>,
           now' \in Seconds, operators' \in [Operator -> RelayOperator],
           queue' \in Seq(MessageId), total_relayed' \in Nat, relays' \in [MessageId -> Nat]
    PROVE  TypeOK'
<1>1. /\ messages' \in [MessageId -> CrossChainMessage]
      /\ \A id \in MessageId : Sent(id)' <=> Sent(id)
  BY OnlyStatusRecords
<1>2. \A id \in MessageId : Sent(id)' <=> id[2] < nonces'[SenderOf(id)]
  BY <1>1 DEF TypeOK
<1> QED
  BY <1>1, <1>2 DEF TypeOK

\* Such a step keeps the queue in order when it removes ids that are no longer open, and
\* relays no others.
LEMMA QueueShrinks ==
    ASSUME TypeOK, QueueFaithful, QueueOrdered, OnlyStatus,
           NEW ids \in SUBSET MessageId, queue' = Without(ids),
           \A id \in MessageId \ ids :
               relays'[id] = relays[id] /\ (Status(id)' \in Open => Status(id) \in Open),
           \A id \in ids : Status(id)' \notin Open
    PROVE  queue' \in Seq(MessageId) /\ QueueFaithful' /\ QueueOrdered'
<1>0. queue \in Seq(MessageId) /\ \A j, k \in DOMAIN queue : queue[j] = queue[k] => j = k
  BY DEF TypeOK, QueueFaithful
<1>1. /\ queue' \in Seq(MessageId)
      /\ \A j, k \in DOMAIN queue' : queue'[j] = queue'[k] => j = k
      /\ \A id : id \in Range(queue') <=> id \in Range(queue) /\ id \notin ids
      /\ \A j, k \in DOMAIN queue' : j < k =>
            \E l, m \in DOMAIN queue : l < m /\ queue'[j] = queue[l] /\ queue'[k] = queue[m]
  BY <1>0, WithoutQueue
<1>2. \A id \in MessageId : /\ messages'[id].priority = messages[id].priority
                            /\ messages'[id].order = messages[id].order
                            /\ Sent(id)' <=> Sent(id)
  BY OnlyStatusRecords
<1>3. ASSUME NEW id \in MessageId
      PROVE  /\ Status(id)' \in Open => InQueue(id)'
             /\ InQueue(id)' => Sent(id)' /\ relays'[id] = 0
  <2>1. InQueue(id)' <=> InQueue(id) /\ id \notin ids
    BY <1>1 DEF InQueue
  <2>2. /\ Status(id) \in Open => InQueue(id)
        /\ InQueue(id) => Sent(id) /\ relays[id] = 0
    BY DEF QueueFaithful
  <2> QED
    BY <1>2, <2>1, <2>2
<1>4. QueueFaithful'
  BY <1>1, <1>3 DEF QueueFaithful
<1>5. QueueOrdered'
  <2> SUFFICES ASSUME NEW j \in DOMAIN queue', NEW k \in DOMAIN queue', j < k
               PROVE  LET a == messages'[queue'[j]]
                          b == messages'[queue'[k]]
                      IN  \/ a.priority < b.priority
                          \/ (a.priority = b.priority /\ a.order < b.order)
    BY DEF QueueOrdered
  <2>1. PICK l \in DOMAIN queue, m \in DOMAIN queue :
           l < m /\ queue'[j] = queue[l] /\ queue'[k] = queue[m]
    BY <1>1
  <2>2. queue[l] \in MessageId /\ queue[m] \in MessageId
    BY <1>0
  <2>3. LET a == messages[queue[l]]
            b == messages[queue[m]]
        IN  \/ a.priority < b.priority
            \/ (a.priority = b.priority /\ a.order < b.order)
    BY <2>1 DEF QueueOrdered
  <2> QED
    BY <1>2, <2>1, <2>2, <2>3
<1> QED
  BY <1>1, <1>4, <1>5

\* Such a step keeps the queue's invariants when it leaves the queue alone and opens no
\* message.
LEMMA QueueKept ==
    ASSUME TypeOK, QueueFaithful, QueueOrdered, OnlyStatus, UNCHANGED <<queue, relays>>,
           \A id \in MessageId : Status(id)' \in Open => Status(id) \in Open
    PROVE  QueueFaithful' /\ QueueOrdered'
<1>1. \A id \in MessageId : /\ messages'[id].priority = messages[id].priority
                            /\ messages'[id].order = messages[id].order
                            /\ Sent(id)' <=> Sent(id)
  BY OnlyStatusRecords
<1>2. QueueFaithful'
  <2>1. \A id \in MessageId : InQueue(id)' <=> InQueue(id)
    BY DEF InQueue
  <2> QED
    BY <1>1, <2>1 DEF QueueFaithful
<1>3. \A j \in DOMAIN queue : queue[j] \in MessageId
  BY DEF TypeOK
<1>4. QueueOrdered'
  BY <1>1, <1>3 DEF QueueOrdered
<1> QED
  BY <1>2, <1>4

\* Such a step that neither relays nor counts leaves the books as they were.
LEMMA QuietBooks ==
    ASSUME RelayBooks, Recorded, TypeOK, OnlyStatus, UNCHANGED <<nonces, metrics, relays>>,
           \A o \in Operator :
               operators'[o].messages_relayed = operators[o].messages_relayed,
           \A id \in MessageId : Status(id)' = "Relayed" => Status(id) = "Relayed"
    PROVE  RelayBooks' /\ Recorded'
<1>1. \A id \in MessageId : /\ messages'[id].order = messages[id].order
                            /\ messages'[id].fee = messages[id].fee
                            /\ Sent(id)' <=> Sent(id)
  BY OnlyStatusRecords
<1>2. [o \in Operator |-> operators'[o].messages_relayed] =
         [o \in Operator |-> operators[o].messages_relayed]
  OBVIOUS
<1>3. [id \in MessageId |-> messages'[id].fee] = [id \in MessageId |-> messages[id].fee]
  BY <1>1
<1>4. /\ total_relayed' = total_relayed /\ total_messages' = total_messages
      /\ total_fees' = total_fees /\ relays' = relays /\ nonces' = nonces
  BY DEF metrics
<1>5. RelayBooks'
  BY <1>2, <1>3, <1>4 DEF RelayBooks
<1>6. Recorded'
  BY <1>1, <1>4 DEF Recorded
<1> QED
  BY <1>5, <1>6

\* Relaying a set of open messages adds as many to the total and to the operator's count
\* as there are messages in the set, and none of them was relayed before.
LEMMA RelayAllBooks ==
    ASSUME IInv, OnlyStatus, UNCHANGED <<now, chain_config, nonces, total_messages, total_fees>>,
           NEW operator \in Operator, operators[operator].is_active,
           NEW ids \in SUBSET MessageId, \A id \in ids : Status(id) \in Open,
           RelayAll(operator, ids),
           \A id \in ids : Status(id)' = "Relayed",
           \A id \in MessageId \ ids :
               /\ Status(id)' = "Relayed" => Status(id) = "Relayed"
               /\ Status(id)' \in Open => Status(id) \in Open
    PROVE  IInv'
<1> USE DEF IInv
<1>1. /\ operators' = [operators EXCEPT ![operator].messages_relayed = @ + Cardinality(ids)]
      /\ queue' = Without(ids)
      /\ total_relayed' = total_relayed + Cardinality(ids)
      /\ relays' = [id \in MessageId |-> IF id \in ids THEN relays[id] + 1 ELSE relays[id]]
  BY DEF RelayAll
<1>2. Cardinality(ids) \in Nat
  <2>1. IsFiniteSet(ids)
    BY BooksDomains, FS_Subset
  <2> QED
    BY <2>1, FS_CardinalityType
<1>3. /\ operators' \in [Operator -> RelayOperator]
      /\ \A o \in Operator :
            /\ operators'[o].registered = operators[o].registered
            /\ operators'[o].is_active = operators[o].is_active
            /\ operators'[o].messages_relayed =
                  IF o = operator THEN operators[o].messages_relayed + Cardinality(ids)
                  ELSE operators[o].messages_relayed
  <2>1. operators \in [Operator -> RelayOperator]
    BY DEF TypeOK
  <2>2. ASSUME NEW o \in Operator
        PROVE  operators'[o] = IF o = operator
                  THEN [operators[o] EXCEPT !.messages_relayed = @ + Cardinality(ids)]
                  ELSE operators[o]
    BY <1>1, <2>1
  <2>3. ASSUME NEW o \in Operator
        PROVE  /\ operators'[o] \in RelayOperator
               /\ operators'[o].registered = operators[o].registered
               /\ operators'[o].is_active = operators[o].is_active
               /\ operators'[o].messages_relayed =
                     IF o = operator THEN operators[o].messages_relayed + Cardinality(ids)
                     ELSE operators[o].messages_relayed
    <3>1. operators[o] \in RelayOperator
      BY <2>1
    <3>2. CASE o = operator
      <4> DEFINE n == operators[o].messages_relayed + Cardinality(ids)
      <4>1. n \in Nat
        BY <1>2, <3>1 DEF RelayOperator
      <4>2. operators'[o] = [operators[o] EXCEPT !.messages_relayed = n]
        BY <2>2, <3>2
      <4> HIDE DEF n
      <4>3. /\ operators'[o] \in RelayOperator
            /\ operators'[o].registered = operators[o].registered
            /\ operators'[o].is_active = operators[o].is_active
            /\ operators'[o].messages_relayed = n
        BY <3>1, <4>1, <4>2 DEF RelayOperator
      <4> QED
        BY <3>2, <4>3 DEF n
    <3>3. CASE o # operator
      BY <2>2, <3>1, <3>3
    <3> QED
      BY <3>2, <3>3
  <2>4. operators' \in [Operator -> RelayOperator]
    BY <1>1, <2>1, <2>3
  <2> QED
    BY <2>3, <2>4
<1>4. relays' \in [MessageId -> Nat] /\ total_relayed' \in Nat
  BY <1>1, <1>2 DEF TypeOK
<1>5. queue' \in Seq(MessageId) /\ QueueFaithful' /\ QueueOrdered'
  <2>1. \A id \in MessageId \ ids :
           relays'[id] = relays[id] /\ (Status(id)' \in Open => Status(id) \in Open)
    BY <1>1
  <2>2. \A id \in ids : Status(id)' \notin Open
    BY DEF Open
  <2> QED
    BY <1>1, <2>1, <2>2, QueueShrinks
<1>6. TypeOK'
  <2>1. now' \in Seconds
    BY DEF TypeOK
  <2> QED
    BY <1>3, <1>4, <1>5, <2>1, OnlyStatusTypes
<1>7. OperatorsKnown'
  BY <1>3 DEF OperatorsKnown
<1>8. \A id \in MessageId : /\ messages'[id].order = messages[id].order
                            /\ messages'[id].fee = messages[id].fee
                            /\ Sent(id)' <=> Sent(id)
  BY OnlyStatusRecords
<1>9. Recorded'
  <2>1. \A id \in MessageId : ~Sent(id) => id \notin ids
    BY DEF Sent, Open
  <2> QED
    BY <1>1, <1>8, <2>1 DEF Recorded
<1>10. \A id \in ids : relays[id] = 0
  BY DEF QueueFaithful
<1>11. SumFunction(relays') = SumFunction(relays) + Cardinality(ids)
  <2>1. SumFunctionOnSet(relays', MessageId) =
           SumFunctionOnSet(relays, MessageId) + Cardinality(ids)
    <3>1. IsFiniteSet(MessageId) /\ \A id \in MessageId : relays[id] \in Int
      BY BooksDomains DEF TypeOK
    <3>2. /\ \A id \in ids : relays'[id] = relays[id] + 1
          /\ \A id \in MessageId \ ids : relays'[id] = relays[id]
      BY <1>1
    <3> HIDE DEF IInv
    <3> QED
      BY <3>1, <3>2, SumRaised
  <2>2. DOMAIN relays' = MessageId
    BY <1>1
  <2> QED
    BY <2>1, <2>2, BooksDomains DEF SumFunction
<1>12. SumFunction(Counts') = SumFunction(Counts) + Cardinality(ids)
  <2>1. /\ IsFiniteSet(Operator)
        /\ \A o \in Operator : Counts[o] \in Int /\ Counts'[o] \in Int
    BY <1>3, BooksDomains DEF TypeOK, RelayOperator, Counts
  <2>2. /\ Counts'[operator] = Counts[operator] + Cardinality(ids)
        /\ \A o \in Operator \ {operator} : Counts'[o] = Counts[o]
    BY <1>3 DEF Counts
  <2>3. SumFunctionOnSet(Counts', Operator) =
           SumFunctionOnSet(Counts, Operator) + Counts'[operator] - Counts[operator]
    BY <2>1, <2>2, SumChange
  <2>4. SumFunctionOnSet(Counts, Operator) \in Int
    BY <2>1, SumType
  <2>5. DOMAIN Counts' = Operator
    BY DEF Counts
  <2>6. SumFunction(Counts') = SumFunctionOnSet(Counts', Operator)
    BY <2>5 DEF SumFunction
  <2> QED
    BY <1>2, <2>1, <2>2, <2>3, <2>4, <2>6, BooksDomains
<1>13. Fees' = Fees
  BY <1>8 DEF Fees
<1>14. RelayBooks'
  <2>1. \A id \in MessageId : relays'[id] <= 1
    BY <1>1, <1>10 DEF RelayBooks
  <2>2. \A id \in MessageId : Status(id)' = "Relayed" => relays'[id] = 1
    BY <1>1, <1>10 DEF RelayBooks
  <2>3. total_relayed' = SumFunction(relays')
    BY <1>1, <1>11 DEF RelayBooks
  <2>4. total_relayed' = SumFunction(Counts')
    BY <1>1, <1>12 DEF RelayBooks, Counts
  <2>5. total_messages' = SumFunction(nonces')
    BY DEF RelayBooks
  <2>6. total_fees' = SumFunction(Fees')
    BY <1>13 DEF RelayBooks, Fees
  <2> QED
    BY <2>1, <2>2, <2>3, <2>4, <2>5, <2>6 DEF RelayBooks, Counts, Fees
<1> QED
  BY <1>5, <1>6, <1>7, <1>9, <1>14

-----------------------------------------------------------------------------
(***************************************************************************)
(* The actions.                                                            *)
(***************************************************************************)

\* The steps that relay, send and remove nothing.
LEMMA QuietStep ==
    ASSUME IInv, OnlyStatus,
           UNCHANGED <<nonces, total_messages, total_relayed, total_fees, relays, queue>>,
           now' \in Seconds, chain_config' \in [Chain -> ChainConfig],
           operators' \in [Operator -> RelayOperator], OperatorsKnown',
           \A o \in Operator :
               operators'[o].messages_relayed = operators[o].messages_relayed,
           \A id \in MessageId : /\ Status(id)' \in Open => Status(id) \in Open
                                 /\ Status(id)' = "Relayed" => Status(id) = "Relayed"
    PROVE  IInv'
<1> USE DEF IInv
<1>1. TypeOK'
  <2>1. /\ messages' \in [MessageId -> CrossChainMessage]
        /\ \A id \in MessageId : Sent(id)' <=> Sent(id)
    BY OnlyStatusRecords
  <2>2. \A id \in MessageId : Sent(id)' <=> id[2] < nonces'[SenderOf(id)]
    BY <2>1 DEF TypeOK
  <2> QED
    BY <2>1, <2>2 DEF TypeOK
<1>2. QueueFaithful' /\ QueueOrdered'
  BY QueueKept
<1>3. RelayBooks' /\ Recorded'
  BY QuietBooks DEF metrics
<1> QED
  BY <1>1, <1>2, <1>3

\* A step that leaves the messages alone is one of those.
LEMMA SameMessages ==
    ASSUME TypeOK, messages' = messages
    PROVE  /\ OnlyStatus
           /\ \A id \in MessageId : Status(id)' = Status(id)
<1>1. messages' = [id \in MessageId |-> messages'[id]]
  BY DEF TypeOK
<1>2. ASSUME NEW id \in MessageId
      PROVE  /\ Status(id) \in MessageStatus \cup {"None"}
             /\ messages'[id] = [messages[id] EXCEPT !.status = Status(id)]
             /\ Status(id) = "None" <=> ~Sent(id)
  <2>1. messages[id] \in CrossChainMessage
    BY DEF TypeOK
  <2> QED
    BY <2>1 DEF CrossChainMessage, Status, Sent
<1>3. OnlyStatus
  BY <1>1, <1>2 DEF OnlyStatus
<1> QED
  BY <1>3 DEF Status

\* A chain's configuration is read by no invariant but the types.
LEMMA ConfigureKeeps ==
    ASSUME IInv, NEW chain \in Chain, NEW config \in ChainConfigs, ConfigureChain(chain, config)
    PROVE  IInv'
<1>1. OnlyStatus /\ \A id \in MessageId : Status(id)' = Status(id)
  BY SameMessages DEF IInv, ConfigureChain
<1>2. chain_config' \in [Chain -> ChainConfig]
  BY RelayAssumption DEF IInv, TypeOK, ConfigureChain
<1>3. now' \in Seconds /\ operators' \in [Operator -> RelayOperator] /\ OperatorsKnown'
  BY DEF IInv, TypeOK, ConfigureChain, OperatorsKnown
<1> QED
  BY <1>1, <1>2, <1>3, QuietStep DEF ConfigureChain, metrics

\* Nor is the time.
LEMMA TickKeeps ==
    ASSUME IInv, Tick
    PROVE  IInv'
<1>1. OnlyStatus /\ \A id \in MessageId : Status(id)' = Status(id)
  BY SameMessages DEF IInv, Tick
<1>2. now' \in Seconds
  BY RelayAssumption DEF IInv, TypeOK, Tick, Seconds
<1>3. chain_config' \in [Chain -> ChainConfig] /\ operators' \in [Operator -> RelayOperator]
      /\ OperatorsKnown'
  BY DEF IInv, TypeOK, Tick, OperatorsKnown
<1> QED
  BY <1>1, <1>2, <1>3, QuietStep DEF Tick, metrics

\* Registering and deactivating keep every count: a new operator has none to lose.
LEMMA OperatorsKeep ==
    ASSUME IInv, NEW operator \in Operator,
           RegisterRelayOperator(operator) \/ DeactivateRelayOperator(operator)
    PROVE  IInv'
<1>0. operators \in [Operator -> RelayOperator] /\ OperatorsKnown
  BY DEF IInv, TypeOK
<1>1. /\ operators' \in [Operator -> RelayOperator] /\ OperatorsKnown'
      /\ \A o \in Operator : operators'[o].messages_relayed = operators[o].messages_relayed
  <2>1. CASE RegisterRelayOperator(operator)
    <3>1. operators' \in [Operator -> RelayOperator]
      BY <1>0, <2>1 DEF RegisterRelayOperator, RelayOperator
    <3>2. \A o \in Operator :
             operators'[o] = IF o = operator
                THEN [registered |-> TRUE, is_active |-> TRUE, messages_relayed |-> 0]
                ELSE operators[o]
      BY <1>0, <2>1 DEF RegisterRelayOperator
    <3>3. operators[operator].messages_relayed = 0
      BY <1>0, <2>1 DEF RegisterRelayOperator, OperatorsKnown
    <3>4. \A o \in Operator : operators'[o].messages_relayed = operators[o].messages_relayed
      BY <3>2, <3>3
    <3>5. OperatorsKnown'
      BY <1>0, <3>2 DEF OperatorsKnown
    <3> QED
      BY <3>1, <3>4, <3>5
  <2>2. CASE DeactivateRelayOperator(operator)
    <3>1. ASSUME NEW o \in Operator
          PROVE  /\ operators'[o] \in RelayOperator
                 /\ operators'[o].registered = operators[o].registered
                 /\ operators'[o].is_active => operators[o].is_active
                 /\ operators'[o].messages_relayed = operators[o].messages_relayed
      <4>1. operators[o] \in RelayOperator
        BY <1>0
      <4>2. operators'[o] = IF o = operator THEN [operators[o] EXCEPT !.is_active = FALSE]
                                            ELSE operators[o]
        BY <1>0, <2>2 DEF DeactivateRelayOperator
      <4> QED
        BY <4>1, <4>2 DEF RelayOperator
    <3>2. operators' \in [Operator -> RelayOperator]
      BY <1>0, <2>2, <3>1 DEF DeactivateRelayOperator
    <3>3. OperatorsKnown'
      BY <1>0, <3>1 DEF OperatorsKnown
    <3> QED
      BY <3>1, <3>2, <3>3
  <2> QED
    BY <2>1, <2>2
<1>2. UNCHANGED <<now, chain_config, nonces, messages, queue, total_messages,
                  total_relayed, total_fees, relays>>
  BY DEF RegisterRelayOperator, DeactivateRelayOperator, metrics
<1>3. OnlyStatus /\ \A id \in MessageId : Status(id)' = Status(id)
  BY <1>2, SameMessages DEF IInv
<1>4. now' \in Seconds /\ chain_config' \in [Chain -> ChainConfig]
  BY <1>2 DEF IInv, TypeOK
<1> QED
  BY <1>1, <1>2, <1>3, <1>4, QuietStep

\* One message's status is set to st.
LEMMA OneStatus ==
    ASSUME TypeOK, NEW id \in MessageId, Sent(id), NEW st \in MessageStatus,
           messages' = [messages EXCEPT ![id].status = st]
    PROVE  /\ OnlyStatus
           /\ Status(id)' = st
           /\ \A other \in MessageId \ {id} : Status(other)' = Status(other)
<1>1. messages' = [x \in MessageId |-> messages'[x]]
  BY DEF TypeOK
<1>2. ASSUME NEW x \in MessageId
      PROVE  LET s == IF x = id THEN st ELSE Status(x)
             IN  /\ s \in MessageStatus \cup {"None"}
                 /\ messages'[x] = [messages[x] EXCEPT !.status = s]
                 /\ s = "None" <=> ~Sent(x)
                 /\ Status(x)' = s
  <2>1. messages[x] \in CrossChainMessage
    BY DEF TypeOK
  <2>2. messages'[x] = IF x = id THEN [messages[x] EXCEPT !.status = st] ELSE messages[x]
    BY DEF TypeOK
  <2>3. st # "None"
    BY DEF MessageStatus, Open
  <2>4. CASE x = id
    BY <2>1, <2>2, <2>3, <2>4 DEF CrossChainMessage, Status
  <2>5. CASE x # id
    BY <2>1, <2>2, <2>5 DEF CrossChainMessage, Status, Sent
  <2> QED
    BY <2>4, <2>5
<1>3. OnlyStatus
  BY <1>1, <1>2 DEF OnlyStatus
<1> QED
  BY <1>2, <1>3

\* A verified message stays open and in its place.
LEMMA VerifyKeeps ==
    ASSUME IInv, NEW id \in MessageId, NEW proof \in Proof, VerifyMessage(id, proof)
    PROVE  IInv'
<1>1. Sent(id) /\ Status(id) = "Pending" /\ messages' = [messages EXCEPT ![id].status = "Verified"]
  BY DEF VerifyMessage
<1>2. "Verified" \in MessageStatus
  BY DEF MessageStatus, Open
<1>3. /\ OnlyStatus
      /\ Status(id)' = "Verified"
      /\ \A other \in MessageId \ {id} : Status(other)' = Status(other)
  BY <1>1, <1>2, OneStatus DEF IInv
<1>4. \A x \in MessageId : /\ Status(x)' \in Open => Status(x) \in Open
                           /\ Status(x)' = "Relayed" => Status(x) = "Relayed"
  BY <1>1, <1>3 DEF Open
<1>5. /\ now' \in Seconds /\ chain_config' \in [Chain -> ChainConfig]
      /\ operators' \in [Operator -> RelayOperator] /\ OperatorsKnown'
      /\ \A o \in Operator : operators'[o].messages_relayed = operators[o].messages_relayed
  BY DEF IInv, TypeOK, VerifyMessage, OperatorsKnown
<1> QED
  BY <1>3, <1>4, <1>5, QuietStep DEF VerifyMessage, metrics

\* A single relay is a relay of one message.
LEMMA RelayKeeps ==
    ASSUME IInv, NEW operator \in Operator, NEW id \in MessageId, RelayMessage(operator, id)
    PROVE  IInv'
<1>1. /\ operators[operator].is_active
      /\ Sent(id) /\ Status(id) \in Open
      /\ messages' = [messages EXCEPT ![id].status = "Relayed"]
      /\ RelayAll(operator, {id})
  BY DEF RelayMessage, CanRelay
<1>2. "Relayed" \in MessageStatus
  BY DEF MessageStatus
<1>3. /\ OnlyStatus
      /\ Status(id)' = "Relayed"
      /\ \A other \in MessageId \ {id} : Status(other)' = Status(other)
  BY <1>1, <1>2, OneStatus DEF IInv
<1>4. UNCHANGED <<now, chain_config, nonces, total_messages, total_fees>>
  BY DEF RelayMessage
<1> QED
  BY <1>1, <1>3, <1>4, RelayAllBooks

\* The messages a batch relays were open, and the late ones it marks are not relayed.
LEMMA BatchKeeps ==
    ASSUME IInv, NEW operator \in Operator, NEW listed \in SUBSET MessageId,
           NEW genuine \in SUBSET listed, BatchRelay(operator, listed, genuine)
    PROVE  IInv'
<1> DEFINE late == {id \in listed : Sent(id) /\ is_expired(id)}
           relayed == {id \in genuine : CanRelay(id)}
<1>1. /\ operators[operator].is_active
      /\ messages' = [id \in MessageId |->
            IF id \in late THEN [messages[id] EXCEPT !.status = "Expired"]
            ELSE IF id \in relayed THEN [messages[id] EXCEPT !.status = "Relayed"]
            ELSE messages[id]]
      /\ RelayAll(operator, relayed)
      /\ UNCHANGED <<now, chain_config, nonces, total_messages, total_fees>>
  BY DEF BatchRelay
<1>2. relayed \in SUBSET MessageId
  OBVIOUS
<1>3. \A id \in relayed : Status(id) \in Open /\ Sent(id) /\ id \notin late
  BY DEF CanRelay
<1>4. \A id \in late : Sent(id)
  OBVIOUS
<1> HIDE DEF late, relayed
<1>5. ASSUME NEW id \in MessageId
      PROVE  LET s == IF id \in late THEN "Expired"
                      ELSE IF id \in relayed THEN "Relayed" ELSE Status(id)
             IN  /\ s \in MessageStatus \cup {"None"}
                 /\ messages'[id] = [messages[id] EXCEPT !.status = s]
                 /\ s = "None" <=> ~Sent(id)
                 /\ Status(id)' = s
  <2>1. messages[id] \in CrossChainMessage
    BY DEF IInv, TypeOK
  <2>2. messages'[id] = IF id \in late THEN [messages[id] EXCEPT !.status = "Expired"]
            ELSE IF id \in relayed THEN [messages[id] EXCEPT !.status = "Relayed"]
            ELSE messages[id]
    BY <1>1
  <2>3. CASE id \in late
    BY <1>4, <2>1, <2>2, <2>3 DEF CrossChainMessage, Status, MessageStatus
  <2>4. CASE id \notin late /\ id \in relayed
    BY <1>3, <2>1, <2>2, <2>4 DEF CrossChainMessage, Status, MessageStatus
  <2>5. CASE id \notin late /\ id \notin relayed
    BY <2>1, <2>2, <2>5 DEF CrossChainMessage, Status, Sent
  <2> QED
    BY <2>3, <2>4, <2>5
<1>6. OnlyStatus
  <2>1. messages' = [id \in MessageId |-> messages'[id]]
    BY <1>1
  <2> QED
    BY <1>5, <2>1 DEF OnlyStatus
<1>7. \A id \in relayed : Status(id)' = "Relayed"
  BY <1>2, <1>3, <1>5
<1>8. \A id \in MessageId \ relayed : /\ Status(id)' = "Relayed" => Status(id) = "Relayed"
                                      /\ Status(id)' \in Open => Status(id) \in Open
  BY <1>5 DEF Open
<1> QED
  BY <1>1, <1>2, <1>3, <1>6, <1>7, <1>8, RelayAllBooks

\* Clean-up removes only messages that are settled or late, and settles the late ones.
LEMMA CleanupKeeps ==
    ASSUME IInv, NEW max_items \in CleanupSizes, CleanupExpiredMessages(max_items)
    PROVE  IInv'
<1> USE DEF IInv
<1>1. PICK removed \in SUBSET MessageId :
        /\ \A id \in removed : Stale(id)
        /\ queue' = Without(removed)
        /\ messages' = [id \in MessageId |->
              IF id \in removed THEN [messages[id] EXCEPT !.status =
                                        IF @ \in Open THEN "Expired" ELSE @]
              ELSE messages[id]]
  <2> DEFINE kept(k) == Cardinality({j \in 1 .. k : ~Stale(queue[j])})
             scanned == {queue[k] : k \in {j \in DOMAIN queue : kept(j - 1) < max_items}}
             removed == {id \in scanned : Stale(id)}
  <2>1. /\ queue' = Without(removed)
        /\ messages' = [id \in MessageId |->
              IF id \in removed THEN [messages[id] EXCEPT !.status =
                                        IF @ \in Open THEN "Expired" ELSE @]
              ELSE messages[id]]
    BY DEF CleanupExpiredMessages
  <2>2. \A k \in DOMAIN queue : queue[k] \in MessageId
    BY DEF TypeOK
  <2> HIDE DEF kept
  <2>3. scanned \in SUBSET MessageId
    BY <2>2
  <2> HIDE DEF scanned
  <2>4. removed \in SUBSET MessageId /\ \A id \in removed : Stale(id)
    BY <2>3
  <2> HIDE DEF removed
  <2> QED
    BY <2>1, <2>4
<1>2. ASSUME NEW id \in MessageId
      PROVE  LET s == IF id \in removed /\ Status(id) \in Open THEN "Expired" ELSE Status(id)
             IN  /\ s \in MessageStatus \cup {"None"}
                 /\ messages'[id] = [messages[id] EXCEPT !.status = s]
                 /\ s = "None" <=> ~Sent(id)
                 /\ Status(id)' = s
  <2>1. messages[id] \in CrossChainMessage
    BY DEF TypeOK
  <2>2. messages'[id] =
          IF id \in removed
          THEN [messages[id] EXCEPT !.status = IF @ \in Open THEN "Expired" ELSE @]
          ELSE messages[id]
    BY <1>1
  <2>3. CASE id \in removed /\ Status(id) \in Open
    <3>1. messages'[id] = [messages[id] EXCEPT !.status = "Expired"]
      BY <2>1, <2>2, <2>3 DEF Status
    <3>2. Sent(id)
      BY <2>3 DEF Sent, Open
    <3> QED
      BY <2>1, <2>3, <3>1, <3>2 DEF CrossChainMessage, Status, MessageStatus
  <2>4. CASE ~(id \in removed /\ Status(id) \in Open)
    <3>1. messages'[id] = messages[id]
      BY <2>1, <2>2, <2>4 DEF Status, CrossChainMessage
    <3> QED
      BY <2>1, <2>4, <3>1 DEF CrossChainMessage, Status, Sent
  <2> QED
    BY <2>3, <2>4
<1>3. OnlyStatus
  <2>1. messages' = [id \in MessageId |-> messages'[id]]
    BY <1>1
  <2> QED
    BY <1>2, <2>1 DEF OnlyStatus
<1>4. UNCHANGED <<now, chain_config, operators, nonces, total_messages, total_relayed,
                  total_fees, relays>>
  BY DEF CleanupExpiredMessages, metrics
<1>5. \A id \in MessageId \ removed :
         relays'[id] = relays[id] /\ (Status(id)' \in Open => Status(id) \in Open)
  BY <1>2, <1>4
<1>6. \A id \in removed : Status(id)' \notin Open
  BY <1>2 DEF Open
<1>7. queue' \in Seq(MessageId) /\ QueueFaithful' /\ QueueOrdered'
  BY <1>1, <1>3, <1>5, <1>6, QueueShrinks
<1>8. TypeOK'
  BY <1>3, <1>4, <1>7, OnlyStatusTypes DEF TypeOK
<1>9. \A id \in MessageId : Status(id)' = "Relayed" => Status(id) = "Relayed"
  BY <1>2
<1>10. RelayBooks' /\ Recorded'
  BY <1>3, <1>4, <1>9, QuietBooks DEF metrics
<1>11. OperatorsKnown'
  BY <1>4 DEF OperatorsKnown
<1> QED
  BY <1>7, <1>8, <1>10, <1>11

-----------------------------------------------------------------------------
(***************************************************************************)
(* send_message puts a new message in its place of the queue.              *)
(***************************************************************************)

\* An estimate is a number.
LEMMA FeeType ==
    ASSUME NEW config \in ChainConfig, NEW size \in Nat
    PROVE  EstimateFee(config, size) \in Nat
<1>1. config.base_fee \in Nat /\ config.fee_per_byte \in Nat
  BY DEF ChainConfig
<1>2. config.fee_per_byte * size \in Nat
  BY <1>1
<1> QED
  BY <1>1, <1>2 DEF EstimateFee

\* The queue stays faithful and ordered: the new id was in it nowhere, everything before
\* it is at least as urgent and was sent before, and everything behind is less urgent.
LEMMA SendQueue ==
    ASSUME IInv, NEW id \in MessageId, NEW priority \in 0 .. 3, ~Sent(id),
           queue' = InsertByPriority(id, priority),
           messages'[id].priority = priority, messages'[id].order = total_messages,
           Status(id)' = "Pending", relays' = relays,
           \A other \in MessageId \ {id} : messages'[other] = messages[other]
    PROVE  queue' \in Seq(MessageId) /\ QueueFaithful' /\ QueueOrdered'
<1> DEFINE L == Len(queue)
<1>0. /\ L \in Nat /\ DOMAIN queue = 1 .. L
      /\ queue \in Seq(MessageId)
      /\ \A k \in 1 .. L : queue[k] \in MessageId
      /\ \A j, k \in 1 .. L : queue[j] = queue[k] => j = k
  BY SMTT(30) DEF IInv, TypeOK, QueueFaithful
<1>1. /\ priority \in Int
      /\ \A x \in MessageId : messages[x].priority \in Int /\ messages[x].order \in Int
  BY DEF IInv, TypeOK, CrossChainMessage
<1>2. PICK at \in 1 .. L + 1 :
        /\ Inserted(queue', id, at)
        /\ \A k \in 1 .. L : k < at => messages[queue[k]].priority <= priority
        /\ at <= L => messages[queue[at]].priority > priority
  <2>1. \A k \in 1 .. L : messages[queue[k]].priority \in Int
    BY <1>0, <1>1
  <2> QED
    BY <1>0, <1>1, <2>1, InsertPlaces
<1>3. /\ queue' \in Seq(MessageId) /\ DOMAIN queue' = 1 .. L + 1
      /\ \A j \in 1 .. L + 1 :
            queue'[j] = IF j < at THEN queue[j] ELSE IF j = at THEN id ELSE queue[j - 1]
  BY <1>0, <1>2 DEF Inserted
<1>4. \A x \in MessageId : InQueue(x) <=> \E k \in 1 .. L : queue[k] = x
  BY <1>0 DEF InQueue, Range
<1>5. \A k \in 1 .. L : queue[k] # id
  BY <1>4 DEF IInv, QueueFaithful
<1>6. \A k \in 1 .. L : /\ messages'[queue[k]] = messages[queue[k]]
                        /\ messages[queue[k]].order < total_messages
  <2> SUFFICES ASSUME NEW k \in 1 .. L
               PROVE  /\ messages'[queue[k]] = messages[queue[k]]
                      /\ messages[queue[k]].order < total_messages
    OBVIOUS
  <2>1. queue[k] \in MessageId /\ queue[k] # id
    BY <1>0, <1>5
  <2>2. Sent(queue[k])
    BY <1>4, <2>1 DEF IInv, QueueFaithful
  <2> QED
    BY <2>1, <2>2 DEF IInv, Recorded
<1> HIDE DEF L
\* The places of the old entries: those from at on move one place back.
<1>7. ASSUME NEW j \in 1 .. L + 1, j # at
      PROVE  \E l \in 1 .. L : /\ queue'[j] = queue[l]
                               /\ l = IF j < at THEN j ELSE j - 1
  <2>1. CASE j < at
    <3>1. j \in 1 .. L
      BY <1>0, <2>1
    <3> QED
      BY <1>3, <2>1, <3>1
  <2>2. CASE ~(j < at)
    <3>1. j - 1 \in 1 .. L
      BY <1>0, <1>7, <2>2
    <3> QED
      BY <1>3, <1>7, <2>2, <3>1
  <2> QED
    BY <2>1, <2>2
<1>8. queue'[at] = id
  <2>1. ~(at < at)
    OBVIOUS
  <2> QED
    BY <1>3, <2>1
<1>9. \A j, k \in 1 .. L + 1 : queue'[j] = queue'[k] => j = k
  <2> SUFFICES ASSUME NEW j \in 1 .. L + 1, NEW k \in 1 .. L + 1, queue'[j] = queue'[k]
               PROVE  j = k
    OBVIOUS
  <2>1. CASE j = at /\ k = at
    BY <2>1
  <2>2. CASE j # at /\ k = at
    <3>1. PICK l \in 1 .. L : queue'[j] = queue[l]
      BY <1>7, <2>2
    <3> QED
      BY <1>5, <1>8, <2>2, <3>1
  <2>3. CASE j = at /\ k # at
    <3>1. PICK l \in 1 .. L : queue'[k] = queue[l]
      BY <1>7, <2>3
    <3> QED
      BY <1>5, <1>8, <2>3, <3>1
  <2>4. CASE j # at /\ k # at
    <3>1. PICK l \in 1 .. L : queue'[j] = queue[l] /\ l = IF j < at THEN j ELSE j - 1
      BY <1>7, <2>4
    <3>2. PICK m \in 1 .. L : queue'[k] = queue[m] /\ m = IF k < at THEN k ELSE k - 1
      BY <1>7, <2>4
    <3>3. l = m
      BY <1>0, <3>1, <3>2
    <3>4. at \in Int /\ j \in Int /\ k \in Int
      BY <1>0
    <3>5. (IF j < at THEN j ELSE j - 1) = (IF k < at THEN k ELSE k - 1)
      BY <3>1, <3>2, <3>3
    <3> QED
      BY <2>4, <3>4, <3>5
  <2> QED
    BY <2>1, <2>2, <2>3, <2>4
<1>10. ASSUME NEW x \in MessageId
       PROVE  InQueue(x)' <=> x = id \/ InQueue(x)
  <2>1. InQueue(x)' <=> \E j \in 1 .. L + 1 : queue'[j] = x
    BY <1>3 DEF InQueue, Range
  <2>2. ASSUME NEW j \in 1 .. L + 1, queue'[j] = x PROVE x = id \/ InQueue(x)
    BY <1>4, <1>7, <1>8, <2>2
  <2>3. ASSUME x = id PROVE \E j \in 1 .. L + 1 : queue'[j] = x
    BY <1>8, <2>3
  <2>4. ASSUME NEW k \in 1 .. L, queue[k] = x PROVE \E j \in 1 .. L + 1 : queue'[j] = x
    <3>1. CASE k < at
      <4>1. k \in 1 .. L + 1
        BY <1>0
      <4> QED
        BY <1>3, <2>4, <3>1, <4>1
    <3>2. CASE ~(k < at)
      <4>1. k + 1 \in 1 .. L + 1 /\ ~(k + 1 < at) /\ k + 1 # at /\ (k + 1) - 1 = k
        BY <1>0, <3>2
      <4> QED
        BY <1>3, <2>4, <4>1
    <3> QED
      BY <3>1, <3>2
  <2> QED
    BY <1>4, <2>1, <2>2, <2>3, <2>4
<1>11. ASSUME NEW x \in MessageId
       PROVE  /\ Status(x)' \in Open => InQueue(x)'
              /\ InQueue(x)' => Sent(x)' /\ relays'[x] = 0
  <2>1. CASE x = id
    <3>1. relays[id] = 0
      BY DEF IInv, Recorded
    <3> QED
      BY <1>10, <2>1, <3>1 DEF Sent
  <2>2. CASE x # id
    <3>1. Status(x)' = Status(x) /\ (Sent(x)' <=> Sent(x))
      BY <2>2 DEF Status, Sent
    <3>2. /\ Status(x) \in Open => InQueue(x)
          /\ InQueue(x) => Sent(x) /\ relays[x] = 0
      BY DEF IInv, QueueFaithful
    <3> QED
      BY <1>10, <2>2, <3>1, <3>2
  <2> QED
    BY <2>1, <2>2
<1>12. QueueFaithful'
  BY <1>3, <1>9, <1>11 DEF QueueFaithful
\* What stands from at on was behind the first less urgent message, or is that message.
<1>13. ASSUME NEW l \in 1 .. L, ~(l < at) PROVE messages[queue[l]].priority > priority
  <2>1. at \in 1 .. L /\ at <= L
    BY <1>0, <1>13
  <2>2. messages[queue[at]].priority > priority
    BY <1>2, <2>1 DEF L
  <2>3. CASE l = at
    BY <2>2, <2>3
  <2>4. CASE l # at
    <3>1. at < l
      BY <1>0, <1>13, <2>4
    <3>2. \/ messages[queue[at]].priority < messages[queue[l]].priority
          \/ messages[queue[at]].priority = messages[queue[l]].priority
      BY <1>0, <2>1, <3>1 DEF IInv, QueueOrdered
    <3>3. messages[queue[at]].priority \in Int /\ messages[queue[l]].priority \in Int
      BY <1>0, <1>1, <2>1
    <3> QED
      BY <1>1, <2>2, <3>2, <3>3
  <2> QED
    BY <2>3, <2>4
<1>14. ASSUME NEW j \in 1 .. L + 1, NEW k \in 1 .. L + 1, j < k
       PROVE  LET a == messages'[queue'[j]]
                  b == messages'[queue'[k]]
              IN  \/ a.priority < b.priority
                  \/ (a.priority = b.priority /\ a.order < b.order)
  <2>0. at \in Int /\ j \in Int /\ k \in Int
    BY <1>0
  <2>1. CASE j = at
    <3>1. k # at /\ ~(k < at)
      BY <1>14, <2>0, <2>1
    <3>2. PICK m \in 1 .. L : queue'[k] = queue[m] /\ m = k - 1
      BY <1>7, <3>1
    <3>3. ~(m < at)
      BY <1>14, <2>0, <2>1, <3>2
    <3>4. messages[queue[m]].priority > priority /\ messages[queue[m]].priority \in Int
      BY <1>0, <1>1, <1>13, <3>3
    <3>5. messages'[queue'[j]].priority = priority
          /\ messages'[queue'[k]].priority = messages[queue[m]].priority
      BY <1>6, <1>8, <2>1, <3>2 DEF L
    <3> QED
      BY <1>1, <3>4, <3>5
  <2>2. CASE k = at
    <3>1. j # at /\ j < at
      BY <1>14, <2>0, <2>2
    <3>2. PICK l \in 1 .. L : queue'[j] = queue[l] /\ l = j
      BY <1>7, <3>1
    <3>3. messages[queue[l]].priority <= priority
      BY <1>2, <3>1, <3>2 DEF L
    <3>4. messages[queue[l]].priority \in Int
      BY <1>0, <1>1
    <3>5. messages'[queue'[j]] = messages[queue[l]]
          /\ messages[queue[l]].order < total_messages
      BY <1>6, <3>2 DEF L
    <3>6. messages'[queue'[k]].priority = priority /\ messages'[queue'[k]].order = total_messages
      BY <1>8, <2>2
    <3>7. messages[queue[l]].priority < priority \/ messages[queue[l]].priority = priority
      BY <1>1, <3>3, <3>4
    <3> QED
      BY <3>5, <3>6, <3>7
  <2>3. CASE j # at /\ k # at
    <3>1. PICK l \in 1 .. L : queue'[j] = queue[l] /\ l = IF j < at THEN j ELSE j - 1
      BY <1>7, <2>3
    <3>2. PICK m \in 1 .. L : queue'[k] = queue[m] /\ m = IF k < at THEN k ELSE k - 1
      BY <1>7, <2>3
    <3>3. l < m
      BY <1>14, <2>0, <2>3, <3>1, <3>2
    <3>4. LET a == messages[queue[l]]
              b == messages[queue[m]]
          IN  \/ a.priority < b.priority
              \/ (a.priority = b.priority /\ a.order < b.order)
      BY <1>0, <3>3 DEF IInv, QueueOrdered
    <3>5. messages'[queue'[j]] = messages[queue[l]] /\ messages'[queue'[k]] = messages[queue[m]]
      BY <1>6, <3>1, <3>2
    <3> QED
      BY <3>4, <3>5
  <2> QED
    BY <2>1, <2>2, <2>3
<1>15. QueueOrdered'
  BY <1>3, <1>14 DEF QueueOrdered
<1> QED
  BY <1>3, <1>12, <1>15

\* A sender's next message takes the first nonce without one, so the counts of nonces,
\* messages and fees rise together.
LEMMA SendKeeps ==
    ASSUME IInv, NEW sender \in Sender, NEW source \in Chain, NEW dest \in Chain,
           NEW size \in PayloadSizes, NEW nonce \in 0 .. MaxNonce, NEW priority \in Priorities,
           NEW ttl_override \in Ttls, NEW fee_paid \in FeesPaid,
           SendMessage(sender, source, dest, size, nonce, priority, ttl_override, fee_paid)
    PROVE  IInv'
<1> DEFINE fee == EstimateFee(chain_config[dest], size)
           ttl == IF ttl_override = 0 THEN DefaultTtl ELSE ttl_override
           id == <<sender, nonce>>
           expiry == SaturatingAdd(now, ttl)
           record == [source_chain |-> source, expiry |-> expiry, priority |-> priority,
                      status |-> "Pending", fee |-> fee, order |-> total_messages]
<1>1. /\ nonce < MaxNonce /\ nonce = nonces[sender]
      /\ messages' = [messages EXCEPT ![id] = record]
      /\ queue' = InsertByPriority(id, priority)
      /\ nonces' = [nonces EXCEPT ![sender] = nonce + 1]
      /\ total_messages' = total_messages + 1
      /\ total_fees' = total_fees + fee
      /\ UNCHANGED <<now, chain_config, operators, total_relayed, relays>>
  BY DEF SendMessage
<1>t. TypeOK
  BY DEF IInv
<1>2. fee \in Nat
  BY <1>t, RelayAssumption, FeeType DEF TypeOK
<1>3. expiry \in Seconds
  <2>1. now \in 0 .. U64Max /\ ttl \in 0 .. U64Max /\ U64Max \in Nat
    BY <1>t, RelayAssumption DEF TypeOK, Seconds
  <2> HIDE DEF ttl
  <2> QED
    BY <2>1 DEF SaturatingAdd, Seconds
<1>4. priority \in 0 .. 3 /\ MaxNonce \in Nat
  BY RelayAssumption
<1>5. id \in MessageId /\ id[1] = sender /\ id[2] = nonce
  BY <1>1, <1>4 DEF MessageId
<1>6. ~Sent(id)
  BY <1>1, <1>5, <1>t DEF TypeOK, SenderOf
<1>7. record \in CrossChainMessage /\ record.fee = fee /\ record.status = "Pending"
      /\ record.priority = priority /\ record.order = total_messages
  <2> HIDE DEF fee, expiry
  <2> QED
    BY <1>2, <1>3, <1>4, <1>t DEF TypeOK, CrossChainMessage, MessageStatus, Open
<1> HIDE DEF fee, ttl, expiry, record
<1>8. /\ messages' \in [MessageId -> CrossChainMessage]
      /\ messages'[id] = record
      /\ \A x \in MessageId \ {id} : messages'[x] = messages[x]
  BY <1>1, <1>5, <1>7, <1>t DEF TypeOK
<1>9. Status(id)' = "Pending" /\ \A x \in MessageId \ {id} : Status(x)' = Status(x)
  BY <1>7, <1>8 DEF Status
<1>10. queue' \in Seq(MessageId) /\ QueueFaithful' /\ QueueOrdered'
  <2> HIDE DEF id
  <2> QED
    BY <1>1, <1>4, <1>5, <1>6, <1>7, <1>8, <1>9, SendQueue
<1>11. nonces' \in [Sender -> 0 .. MaxNonce]
  BY <1>1, <1>4, <1>t DEF TypeOK
<1>12. ASSUME NEW x \in MessageId
       PROVE  Sent(x)' <=> x[2] < nonces'[SenderOf(x)]
  <2>1. x[1] \in Sender /\ x[2] \in Int /\ x = <<x[1], x[2]>>
    BY DEF MessageId
  <2>2. CASE x = id
    <3>1. Sent(x)'
      BY <1>9, <2>2 DEF Sent
    <3>2. nonces'[SenderOf(x)] = nonce + 1 /\ x[2] = nonce
      BY <1>1, <1>5, <1>t, <2>2 DEF TypeOK, SenderOf
    <3> QED
      BY <3>1, <3>2
  <2>3. CASE x # id
    <3>1. Sent(x)' <=> x[2] < nonces[x[1]]
      BY <1>9, <1>t, <2>3 DEF Sent, TypeOK, SenderOf
    <3>2. CASE x[1] = sender
      <4>1. x[2] # nonce
        BY <2>1, <2>3, <3>2
      <4>2. nonces[x[1]] = nonce /\ nonces'[x[1]] = nonce + 1
        BY <1>1, <1>t, <3>2 DEF TypeOK
      <4>3. x[2] < nonce <=> x[2] < nonce + 1
        BY <2>1, <4>1
      <4> QED
        BY <3>1, <4>2, <4>3 DEF SenderOf
    <3>3. CASE x[1] # sender
      <4>1. nonces'[x[1]] = nonces[x[1]]
        BY <1>1, <1>t, <2>1, <3>3 DEF TypeOK
      <4> QED
        BY <3>1, <4>1 DEF SenderOf
    <3> QED
      BY <3>2, <3>3
  <2> QED
    BY <2>2, <2>3
<1>13. TypeOK'
  <2>1. total_messages' \in Nat /\ total_fees' \in Nat
    BY <1>1, <1>2, <1>t DEF TypeOK
  <2> QED
    BY <1>1, <1>8, <1>10, <1>11, <1>12, <1>t, <2>1 DEF TypeOK
<1>14. relays[id] = 0 /\ messages[id].fee = 0
  BY <1>5, <1>6 DEF IInv, Recorded
<1>15. Recorded'
  <2>0. total_messages \in Nat
    BY <1>t DEF TypeOK
  <2> SUFFICES ASSUME NEW x \in MessageId
               PROVE  /\ ~Sent(x)' => relays'[x] = 0 /\ messages'[x].fee = 0
                      /\ Sent(x)' => messages'[x].order < total_messages'
    BY DEF Recorded
  <2>1. CASE x = id
    <3>1. Sent(x)' /\ messages'[x].order = total_messages
      BY <1>7, <1>8, <1>9, <2>1 DEF Sent
    <3> QED
      BY <1>1, <2>0, <3>1
  <2>2. CASE x # id
    <3>1. (Sent(x)' <=> Sent(x)) /\ messages'[x] = messages[x] /\ relays'[x] = relays[x]
      BY <1>1, <1>8, <1>9, <2>2 DEF Sent
    <3>2. messages[x].order \in Nat
      BY <1>t DEF TypeOK, CrossChainMessage
    <3>3. /\ ~Sent(x) => relays[x] = 0 /\ messages[x].fee = 0
          /\ Sent(x) => messages[x].order < total_messages
      BY DEF IInv, Recorded
    <3>4. messages[x].order < total_messages => messages[x].order < total_messages'
      BY <1>1, <2>0, <3>2
    <3> QED
      BY <3>1, <3>3, <3>4
  <2> QED
    BY <2>1, <2>2
<1>16. SumFunction(nonces') = SumFunction(nonces) + 1
  <2>1. /\ IsFiniteSet(Sender)
        /\ \A s \in Sender : nonces[s] \in Int /\ nonces'[s] \in Int
    BY <1>11, <1>t, BooksDomains DEF TypeOK
  <2>2. /\ nonces[sender] = nonce /\ nonces'[sender] = nonce + 1
        /\ \A s \in Sender \ {sender} : nonces'[s] = nonces[s]
    BY <1>1, <1>t DEF TypeOK
  <2>3. SumFunctionOnSet(nonces', Sender) =
           SumFunctionOnSet(nonces, Sender) + nonces'[sender] - nonces[sender]
    BY <2>1, <2>2, SumChange
  <2>4. SumFunctionOnSet(nonces, Sender) \in Int
    BY <2>1, SumType
  <2>5. SumFunction(nonces') = SumFunctionOnSet(nonces', Sender)
    BY <1>11 DEF SumFunction
  <2> QED
    BY <1>t, <2>2, <2>3, <2>4, <2>5, BooksDomains
<1>17. SumFunction(Fees') = SumFunction(Fees) + fee
  <2>1. IsFiniteSet(MessageId)
    BY <1>t, BooksDomains
  <2>2. \A x \in MessageId : Fees[x] = messages[x].fee /\ Fees'[x] = messages'[x].fee
    BY DEF Fees
  <2>3. \A x \in MessageId : messages[x].fee \in Int /\ messages'[x].fee \in Int
    BY <1>8, <1>t, SMTT(30) DEF TypeOK, CrossChainMessage
  <2>4. /\ Fees[id] = 0 /\ Fees'[id] = fee
        /\ \A x \in MessageId \ {id} : Fees'[x] = Fees[x]
    BY <1>5, <1>7, <1>8, <1>14, <2>2
  <2>5. SumFunctionOnSet(Fees', MessageId) =
           SumFunctionOnSet(Fees, MessageId) + Fees'[id] - Fees[id]
    <3>1. \A x \in MessageId : Fees[x] \in Int /\ Fees'[x] \in Int
      BY <2>2, <2>3
    <3> HIDE DEF id
    <3> QED
      BY <1>5, <2>1, <2>4, <3>1, SumChange
  <2>6. SumFunctionOnSet(Fees, MessageId) \in Int
    <3>1. \A x \in MessageId : Fees[x] \in Int
      BY <2>2, <2>3
    <3> QED
      BY <2>1, <3>1, SumType
  <2>7. SumFunction(Fees') = SumFunctionOnSet(Fees', MessageId)
    <3>1. DOMAIN Fees' = MessageId
      BY DEF Fees
    <3> QED
      BY <3>1 DEF SumFunction
  <2> QED
    BY <1>2, <1>t, <2>4, <2>5, <2>6, <2>7, BooksDomains
<1>18. RelayBooks'
  <2>1. \A x \in MessageId : relays'[x] <= 1
    BY <1>1 DEF IInv, RelayBooks
  <2>2. \A x \in MessageId : Status(x)' = "Relayed" => relays'[x] = 1
    BY <1>1, <1>9 DEF IInv, RelayBooks
  <2>3. total_relayed' = SumFunction(relays')
    BY <1>1 DEF IInv, RelayBooks
  <2>4. total_relayed' = SumFunction(Counts')
    BY <1>1 DEF IInv, RelayBooks, Counts
  <2>5. total_messages' = SumFunction(nonces')
    BY <1>1, <1>16 DEF IInv, RelayBooks
  <2>6. total_fees' = SumFunction(Fees')
    BY <1>1, <1>17 DEF IInv, RelayBooks, Fees
  <2> QED
    BY <2>1, <2>2, <2>3, <2>4, <2>5, <2>6 DEF RelayBooks, Counts, Fees
<1>19. OperatorsKnown'
  BY <1>1 DEF IInv, OperatorsKnown
<1> QED
  BY <1>10, <1>13, <1>15, <1>18, <1>19 DEF IInv

-----------------------------------------------------------------------------
\* Every step keeps the invariant: one case per action.
LEMMA NextIInv == IInv /\ [Next]_vars => IInv'
<1> SUFFICES ASSUME IInv, [Next]_vars PROVE IInv'
  OBVIOUS
<1>1. CASE Administer
  <2>1. ASSUME NEW chain \in Chain, NEW config \in ChainConfigs, ConfigureChain(chain, config)
        PROVE  IInv'
    BY <2>1, ConfigureKeeps
  <2>2. ASSUME NEW operator \in Operator,
               RegisterRelayOperator(operator) \/ DeactivateRelayOperator(operator)
        PROVE  IInv'
    BY <2>2, OperatorsKeep
  <2> QED
    BY <1>1, <2>1, <2>2 DEF Administer
<1>2. CASE Send
  <2>1. PICK sender \in Sender, source \in Chain, dest \in Chain, size \in PayloadSizes,
             nonce \in 0 .. MaxNonce, priority \in Priorities, ttl \in Ttls,
             fee \in FeesPaid :
           SendMessage(sender, source, dest, size, nonce, priority, ttl, fee)
    BY <1>2 DEF Send
  <2> QED
    BY <2>1, SendKeeps
<1>3. ASSUME NEW id \in MessageId, NEW proof \in Proof, VerifyMessage(id, proof)
      PROVE  IInv'
  BY <1>3, VerifyKeeps
<1>4. ASSUME NEW operator \in Operator, NEW id \in MessageId, RelayMessage(operator, id)
      PROVE  IInv'
  BY <1>4, RelayKeeps
<1>5. ASSUME NEW operator \in Operator, NEW listed \in SUBSET MessageId,
             NEW genuine \in SUBSET listed, BatchRelay(operator, listed, genuine)
      PROVE  IInv'
  BY <1>5, BatchKeeps
<1>6. ASSUME NEW max_items \in CleanupSizes, CleanupExpiredMessages(max_items)
      PROVE  IInv'
  BY <1>6, CleanupKeeps
<1>7. CASE Tick
  BY <1>7, TickKeeps
<1>8. CASE UNCHANGED vars
  <2>1. /\ UNCHANGED <<nonces, total_messages, total_relayed, total_fees, relays, queue>>
        /\ UNCHANGED <<now, chain_config, operators, messages>>
    BY <1>8 DEF vars
  <2>2. OnlyStatus /\ \A id \in MessageId : Status(id)' = Status(id)
    BY <2>1, SameMessages DEF IInv
  <2>3. /\ now' \in Seconds /\ chain_config' \in [Chain -> ChainConfig]
        /\ operators' \in [Operator -> RelayOperator] /\ OperatorsKnown'
    BY <2>1 DEF IInv, TypeOK, OperatorsKnown
  <2> QED
    BY <2>1, <2>2, <2>3, QuietStep
<1> QED
  BY <1>1, <1>2, <1>3, <1>4, <1>5, <1>6, <1>7, <1>8 DEF Next

\* The invariant holds in every reachable state.
LEMMA SpecIInv == Spec => []IInv
BY InitIInv, NextIInv, PTL DEF Spec

\* Every variable keeps its type, and a sender's messages are numbered without gaps:
\* send_message accepts no nonce but the next.
THEOREM TypesHold == Spec => []TypeOK
<1>1. IInv => TypeOK
  BY DEF IInv
<1> QED
  BY <1>1, SpecIInv, PTL

\* The queue holds every message that may still be relayed, exactly once, and none that
\* was relayed, however sends, single relays, batches, verifications and clean-ups of any
\* size interleave.
THEOREM QueueIsFaithful == Spec => []QueueFaithful
<1>1. IInv => QueueFaithful
  BY DEF IInv
<1> QED
  BY <1>1, SpecIInv, PTL

\* The queue is in order of priority and first come first served within one, though
\* messages are inserted in its middle and taken from anywhere.
THEOREM QueueIsOrdered == Spec => []QueueOrdered
<1>1. IInv => QueueOrdered
  BY DEF IInv
<1> QED
  BY <1>1, SpecIInv, PTL

\* No message is ever relayed twice, and the contract's totals are the sums they claim to
\* be: of the relays, of the operators' counts, of the nonces and of the fees.
THEOREM BooksAgree == Spec => []RelayBooks
<1>1. IInv => RelayBooks
  BY DEF IInv
<1> QED
  BY <1>1, SpecIInv, PTL
-----------------------------------------------------------------------------
(***************************************************************************)
(* The reputation system, where relay operators have a score.  It shares   *)
(* no state with the relay; that its clock below is the relay's variable   *)
(* says nothing of it.                                                     *)
(***************************************************************************)
CONSTANTS
    Entity, EntityType, Weights, Readings, Won, Amounts, HalfLife, YearLong, MaxHistory,
    MaxRecords, MaxNow

VARIABLES reputation, history, leaderboard, total_entities, config

Standing == INSTANCE Reputation

Badge == {"None", "Bronze", "Silver", "Gold", "Platinum", "Diamond"}

\* What is recorded of an entity that is registered, and a row of a leaderboard.
Standings ==
    [kind : {"data"}, entity_type : EntityType, overall_score : Nat,
     factors : [Standing!Factor -> 0 .. Standing!Scale], is_slashed : BOOLEAN,
     badge_level : Badge, last_update_time : Nat]
BoardRow == [entity_address : Entity, score : Nat, badge_level : Badge]

\* The badge is that of the score, or of a registration.
BadgeTrue(data, rows) ==
    \/ data.badge_level = Standing!BadgeLevel(data.overall_score)
    \/ /\ data.badge_level = "None"
       /\ data.overall_score = Standing!InitialScore /\ rows = <<>>

\* A leaderboard of a type lists registered entities of the type, each once.
BoardTrue(board, t, rep) ==
    /\ board \in Seq(BoardRow)
    /\ \A j, k \in 1 .. Len(board) :
          board[j].entity_address = board[k].entity_address => j = k
    /\ \A k \in 1 .. Len(board) :
          LET data == rep[board[k].entity_address]
          IN  data # Standing!Nothing /\ data.entity_type = t

\* The inductive invariant of the reputation system.
ReputationInv ==
    /\ now \in 0 .. MaxNow /\ config \in Standing!Settings
    /\ reputation = [e \in Entity |-> reputation[e]]
    /\ history = [e \in Entity |-> history[e]]
    /\ \A e \in Entity : reputation[e] # Standing!Nothing =>
          /\ reputation[e] \in Standings /\ reputation[e].last_update_time <= now
          /\ BadgeTrue(reputation[e], history[e])
    /\ leaderboard \in [EntityType -> Seq(BoardRow)]
    /\ total_entities = [t \in EntityType |-> Len(leaderboard[t])]
    /\ \A t \in EntityType : BoardTrue(leaderboard[t], t, reputation)

\* The instance counts as this module does.
LEMMA ReputationCounts ==
    /\ \A S : Standing!Cardinality(S) = Cardinality(S)
    /\ \A S : Standing!IsFiniteSet(S) <=> IsFiniteSet(S)
BY DEF Standing!Cardinality, Cardinality, Standing!IsFiniteSet, IsFiniteSet

\* Nothing is recorded of an entity exactly when its record is no data.
LEMMA DataOrNothing ==
    ASSUME ReputationInv, NEW e \in Entity
    PROVE  (reputation[e].kind = "data") <=> (reputation[e] # Standing!Nothing)
<1>1. Standing!Nothing.kind # "data"
  BY DEF Standing!Nothing
<1>2. reputation[e] # Standing!Nothing => reputation[e].kind = "data"
  BY DEF ReputationInv, Standings
<1> QED
  BY <1>1, <1>2

\* Every score has a badge.
LEMMA BadgeLevelType ==
    ASSUME NEW n \in Nat
    PROVE  Standing!BadgeLevel(n) \in Badge
BY DEF Standing!BadgeLevel, Badge, Standing!Scale

\* A leaderboard has no more rows than there are entities.
LEMMA BoardFits ==
    ASSUME IsFiniteSet(Entity), NEW t, NEW board, NEW rep, BoardTrue(board, t, rep)
    PROVE  Len(board) <= Cardinality(Entity)
<1> DEFINE names == [k \in 1 .. Len(board) |-> board[k].entity_address]
<1>1. Len(board) \in Nat
  BY DEF BoardTrue
<1>2. names \in [1 .. Len(board) -> Entity]
  <2>1. board \in Seq(BoardRow)
    BY DEF BoardTrue
  <2>2. \A k \in 1 .. Len(board) : board[k] \in BoardRow
    BY <2>1
  <2>3. \A k \in 1 .. Len(board) : board[k].entity_address \in Entity
    BY <2>2 DEF BoardRow
  <2> QED
    BY <2>3
<1>3. names \in Injection(1 .. Len(board), Entity)
  BY <1>2 DEF BoardTrue, Injection, IsInjective
<1>4. Cardinality(1 .. Len(board)) <= Cardinality(Entity)
  BY <1>3, FS_Injection
<1>5. Cardinality(1 .. Len(board)) = Len(board)
  <2>1. PICK n \in Nat : n = Len(board)
    BY <1>1
  <2>2. 1 \in Int /\ n \in Int
    OBVIOUS
  <2>3. Cardinality(1 .. n) = IF 1 > n THEN 0 ELSE n - 1 + 1
    BY ONLY <2>2, FS_Interval, Zenon
  <2>4. Cardinality(1 .. n) = n
    BY ONLY <2>1, <2>2, <2>3
  <2> QED
    BY <2>1, <2>4, Zenon
<1> QED
  BY <1>4, <1>5

\* What the reputation invariant says of the properties the run checks.
LEMMA ReputationChecked ==
    ASSUME Standing!ReputationConstants, ReputationInv
    PROVE  Standing!TypeOK /\ Standing!BoardCounted /\ Standing!BadgeOfScore
<1>1. Standing!TypeOK
  <2>1. ASSUME NEW e \in Entity, reputation[e].kind = "data"
        PROVE  /\ reputation[e].overall_score \in Nat
               /\ \A f \in Standing!Factor : reputation[e].factors[f] \in 0 .. Standing!Scale
    BY <2>1, DataOrNothing DEF ReputationInv, Standings
  <2>2. ASSUME NEW t \in EntityType
        PROVE  total_entities[t] \in 0 .. Cardinality(Entity)
    <3>1. total_entities[t] = Len(leaderboard[t]) /\ Len(leaderboard[t]) \in Nat
      BY DEF ReputationInv
    <3>2. BoardTrue(leaderboard[t], t, reputation)
      BY DEF ReputationInv
    <3>3. IsFiniteSet(Entity)
      BY ReputationCounts DEF Standing!ReputationConstants
    <3>4. Len(leaderboard[t]) <= Cardinality(Entity) /\ Cardinality(Entity) \in Nat
      BY <3>2, <3>3, BoardFits, FS_CardinalityType
    <3> QED
      BY <3>1, <3>4
  <2> QED
    BY <2>1, <2>2, ReputationCounts DEF Standing!TypeOK, ReputationInv
<1>2. Standing!BoardCounted
  <2> SUFFICES ASSUME NEW t \in EntityType
               PROVE  /\ Len(leaderboard[t]) = total_entities[t]
                      /\ \A j, k \in DOMAIN leaderboard[t] :
                            leaderboard[t][j].entity_address = leaderboard[t][k].entity_address => j = k
                      /\ \A k \in DOMAIN leaderboard[t] :
                            reputation[leaderboard[t][k].entity_address].entity_type = t
    BY DEF Standing!BoardCounted
  <2>1. BoardTrue(leaderboard[t], t, reputation)
    BY DEF ReputationInv
  <2>2. DOMAIN leaderboard[t] = 1 .. Len(leaderboard[t])
    BY DEF ReputationInv
  <2> QED
    BY <2>1, <2>2 DEF ReputationInv, BoardTrue
<1>3. Standing!BadgeOfScore
  BY DataOrNothing DEF Standing!BadgeOfScore, ReputationInv, BadgeTrue
<1> QED
  BY <1>1, <1>2, <1>3

\* The invariant holds before anyone is registered.
LEMMA InitReputation ==
    ASSUME Standing!ReputationConstants, Standing!Init
    PROVE  ReputationInv
<1>1. /\ now = 0 /\ reputation = [e \in Entity |-> Standing!Nothing]
      /\ history = [e \in Entity |-> <<>>]
      /\ leaderboard = [t \in EntityType |-> <<>>]
      /\ total_entities = [t \in EntityType |-> 0]
      /\ config \in [weights : Weights, slashing : {10}, reward : {5}, decay : BOOLEAN]
  BY DEF Standing!Init
<1>2. now \in 0 .. MaxNow /\ config \in Standing!Settings
  BY <1>1 DEF Standing!ReputationConstants, Standing!Settings
<1>3. leaderboard \in [EntityType -> Seq(BoardRow)]
  BY <1>1
<1>4. \A t \in EntityType : BoardTrue(leaderboard[t], t, reputation)
  BY <1>1 DEF BoardTrue
<1>5. total_entities = [t \in EntityType |-> Len(leaderboard[t])]
  BY <1>1
<1> QED
  BY <1>1, <1>2, <1>3, <1>4, <1>5 DEF ReputationInv

\* One turn of the loop over the half-lives.
Halved(t, i) == IF i = 0 THEN Standing!Scale ELSE t[i - 1] \div 2

\* The loop has a table up to every turn.
LEMMA HalvedTable ==
    ASSUME NEW n \in Nat
    PROVE  \E t : t = [i \in 0 .. n |-> Halved(t, i)]
<1> DEFINE Fits(m, t) == t = [i \in 0 .. m |-> Halved(t, i)]
           Good == {m \in Nat : \E t : Fits(m, t)}
<1>1. 0 \in Good
  <2>1. Fits(0, [i \in 0 .. 0 |-> Standing!Scale])
    BY DEF Halved
  <2> QED
    BY <2>1
<1>2. ASSUME NEW m \in Nat, m \in Good PROVE m + 1 \in Good
  <2>1. PICK t : Fits(m, t)
    BY <1>2
  <2> DEFINE u == [i \in 0 .. m + 1 |-> IF i = m + 1 THEN Halved(t, i) ELSE t[i]]
  <2>2. DOMAIN u = 0 .. m + 1 /\ \A i \in 0 .. m : u[i] = t[i]
    OBVIOUS
  <2>3. ASSUME NEW i \in 0 .. m + 1 PROVE u[i] = Halved(u, i)
    <3>1. u[i] = Halved(t, i)
      <4>1. CASE i = m + 1
        BY <4>1
      <4>2. CASE i \in 0 .. m
        <5>1. t[i] = Halved(t, i)
          BY <2>1, <4>2
        <5> QED
          BY <2>2, <4>2, <5>1
      <4> QED
        BY <4>1, <4>2
    <3>2. i # 0 => i - 1 \in 0 .. m
      OBVIOUS
    <3>3. i # 0 => u[i - 1] = t[i - 1]
      BY <2>2, <3>2
    <3> QED
      BY <3>1, <3>3 DEF Halved
  <2>4. u = [i \in 0 .. m + 1 |-> u[i]]
    OBVIOUS
  <2>5. [i \in 0 .. m + 1 |-> u[i]] = [i \in 0 .. m + 1 |-> Halved(u, i)]
    <3> HIDE DEF u
    <3> QED
      BY <2>3
  <2>6. Fits(m + 1, u)
    <3> HIDE DEF u
    <3> QED
      BY <2>4, <2>5
  <2> HIDE DEF Fits, u
  <2> QED
    BY <2>6
<1>3. Nat \subseteq Good
  <2> HIDE DEF Good
  <2> QED
    BY <1>1, <1>2, NumberInduction
<1> QED
  BY <1>3

\* The factor of a decay is a number: so many halvings of the scale.
LEMMA DecayNumber ==
    ASSUME Standing!ReputationConstants, NEW elapsed \in Nat
    PROVE  Standing!DecayFactor(elapsed) \in Nat
<1>1. PICK n \in Nat : n = elapsed \div HalfLife
  <2>1. HalfLife \in Nat \ {0}
    BY DEF Standing!ReputationConstants
  <2> QED
    BY <2>1
<1> DEFINE t == CHOOSE t : t = [i \in 0 .. n |-> Halved(t, i)]
           Good == {i \in Nat : i <= n => t[i] \in Nat}
<1>2. t = [i \in 0 .. n |-> Halved(t, i)]
  BY HalvedTable
<1>3. Standing!DecayFactor(elapsed) = t[n]
  BY <1>1 DEF Standing!DecayFactor, Halved
<1> HIDE DEF t
<1>4. \A i \in 0 .. n : t[i] = Halved(t, i)
  <2>1. PICK v : v = t
    OBVIOUS
  <2>2. v = [i \in 0 .. n |-> Halved(v, i)]
    BY <1>2, <2>1
  <2>3. \A i \in 0 .. n : v[i] = Halved(v, i)
    BY ONLY <2>2
  <2> QED
    BY <2>1, <2>3
<1>5. 0 \in Good
  BY <1>4 DEF Halved, Standing!Scale
<1>6. ASSUME NEW i \in Nat, i \in Good PROVE i + 1 \in Good
  <2>1. SUFFICES ASSUME i + 1 <= n PROVE t[i + 1] \in Nat
    OBVIOUS
  <2>2. i + 1 \in 0 .. n /\ i + 1 # 0 /\ (i + 1) - 1 = i /\ i <= n
    BY <2>1
  <2>3. t[i] \in Nat
    BY <1>6, <2>2
  <2>4. t[i + 1] = t[i] \div 2
    BY <1>4, <2>2 DEF Halved
  <2> QED
    BY <2>3, <2>4
<1>7. Nat \subseteq Good
  <2> HIDE DEF Good
  <2> QED
    BY <1>5, <1>6, NumberInduction
<1> QED
  BY <1>3, <1>7

\* A decayed record is one of the same entity, with the badge of its score unless it did
\* not change.
LEMMA DecayedRecord ==
    ASSUME Standing!ReputationConstants, now \in Nat,
           NEW data \in Standings, data.last_update_time <= now,
           NEW rows, BadgeTrue(data, rows)
    PROVE  /\ Standing!Decayed(data) \in Standings
           /\ Standing!Decayed(data).last_update_time <= now
           /\ Standing!Decayed(data).entity_type = data.entity_type
           /\ BadgeTrue(Standing!Decayed(data), rows)
<1> DEFINE score == (data.overall_score * Standing!DecayFactor(now - data.last_update_time))
                       \div Standing!Scale
<1>1. score \in Nat
  <2>1. PICK factor : factor = Standing!DecayFactor(now - data.last_update_time)
    OBVIOUS
  <2>2. PICK s \in Nat : s = data.overall_score
    BY DEF Standings
  <2>3. now - data.last_update_time \in Nat
    BY DEF Standings
  <2>4. factor \in Nat
    BY <2>1, <2>3, DecayNumber
  <2>5. (s * factor) \div 10000 \in Nat
    BY <2>2, <2>4
  <2> QED
    BY <2>1, <2>2, <2>5 DEF Standing!Scale
<1>2. Standing!BadgeLevel(score) \in Badge
  BY <1>1, BadgeLevelType
<1>3. CASE score = data.overall_score
  <2>1. Standing!Decayed(data) = data
    BY <1>3 DEF Standing!Decayed
  <2> QED
    BY <2>1
<1>4. CASE score # data.overall_score
  <2>1. Standing!Decayed(data) =
           [data EXCEPT !.overall_score = score, !.badge_level = Standing!BadgeLevel(score),
                        !.last_update_time = now]
    BY <1>4 DEF Standing!Decayed
  <2> HIDE DEF score
  <2>2. PICK badge \in Badge : badge = Standing!BadgeLevel(score)
    BY <1>2
  <2>3. /\ Standing!Decayed(data) \in Standings
        /\ Standing!Decayed(data).last_update_time = now
        /\ Standing!Decayed(data).entity_type = data.entity_type
        /\ Standing!Decayed(data).overall_score = score
        /\ Standing!Decayed(data).badge_level = badge
    BY <1>1, <2>1, <2>2 DEF Standings
  <2> QED
    BY <2>2, <2>3 DEF BadgeTrue
<1> QED
  BY <1>3, <1>4

\* A leaderboard says the same of records that keep their types.
LEMMA BoardStays ==
    ASSUME NEW t, NEW board, NEW rep, NEW new, BoardTrue(board, t, rep),
           \A e \in Entity : rep[e] # Standing!Nothing =>
              new[e] # Standing!Nothing /\ new[e].entity_type = rep[e].entity_type
    PROVE  BoardTrue(board, t, new)
<1>1. \A k \in 1 .. Len(board) : board[k].entity_address \in Entity
  <2>1. \A k \in 1 .. Len(board) : board[k] \in BoardRow
    BY DEF BoardTrue
  <2> QED
    BY <2>1 DEF BoardRow
<1> QED
  BY <1>1 DEF BoardTrue

\* Who registers is on no leaderboard, and is put at the end of one.
LEMMA EnrolKeeps ==
    ASSUME Standing!ReputationConstants, ReputationInv,
           NEW e \in Entity, NEW t \in EntityType, Standing!RegisterEntity(e, t)
    PROVE  ReputationInv'
<1> DEFINE data == [kind |-> "data", entity_type |-> t, overall_score |-> Standing!InitialScore,
                    factors |-> [f \in Standing!Factor |-> Standing!InitialScore],
                    is_slashed |-> FALSE, badge_level |-> "None", last_update_time |-> now]
           row == [entity_address |-> e, score |-> Standing!InitialScore, badge_level |-> "None"]
<1>1. /\ reputation[e] = Standing!Nothing
      /\ reputation' = [reputation EXCEPT ![e] = data]
      /\ history' = [history EXCEPT ![e] = <<>>]
      /\ total_entities' = [total_entities EXCEPT ![t] = @ + 1]
      /\ leaderboard' = [leaderboard EXCEPT ![t] =
                           Standing!Listed(leaderboard[t], e, Standing!InitialScore, "None")]
      /\ now' = now /\ config' = config
  BY DEF Standing!RegisterEntity
<1>2. PICK board \in Seq(BoardRow) : board = leaderboard[t]
  BY DEF ReputationInv
<1>3. BoardTrue(board, t, reputation)
  BY <1>2 DEF ReputationInv
<1>4. \A k \in 1 .. Len(board) : board[k].entity_address # e
  BY <1>1, <1>3 DEF BoardTrue
<1>5. Standing!Listed(board, e, Standing!InitialScore, "None") = Append(board, row)
  BY <1>4 DEF Standing!Listed
<1>6. data \in Standings /\ data.last_update_time = now /\ data.entity_type = t
      /\ data # Standing!Nothing
  <2>1. now \in Nat
    BY DEF ReputationInv, Standing!ReputationConstants
  <2>2. data \in Standings
    BY <2>1 DEF Standings, Standing!InitialScore, Standing!Scale, Badge
  <2>3. data.kind # Standing!Nothing.kind
    BY DEF Standing!Nothing
  <2> QED
    BY <2>2, <2>3
<1>7. row \in BoardRow /\ row.entity_address = e
  BY DEF BoardRow, Standing!InitialScore, Badge
<1>8. BadgeTrue(data, <<>>)
  BY DEF BadgeTrue
<1> HIDE DEF data, row
<1>9. \A a \in Entity : /\ reputation'[a] = IF a = e THEN data ELSE reputation[a]
                        /\ history'[a] = IF a = e THEN <<>> ELSE history[a]
  BY <1>1 DEF ReputationInv
<1>s. \A a \in Entity : reputation[a] # Standing!Nothing =>
         reputation'[a] # Standing!Nothing
         /\ reputation'[a].entity_type = reputation[a].entity_type
  BY <1>1, <1>9
<1>10. ASSUME NEW a \in Entity, reputation'[a] # Standing!Nothing
       PROVE  /\ reputation'[a] \in Standings /\ reputation'[a].last_update_time <= now'
              /\ BadgeTrue(reputation'[a], history'[a])
  <2>1. CASE a = e
    <3>1. reputation'[a] = data /\ history'[a] = <<>>
      BY <1>9, <2>1
    <3>2. now <= now
      BY DEF ReputationInv, Standing!ReputationConstants
    <3> QED
      BY <1>1, <1>6, <1>8, <3>1, <3>2
  <2>2. CASE a # e
    BY <1>1, <1>9, <1>10, <2>2 DEF ReputationInv
  <2> QED
    BY <2>1, <2>2
<1>11. Append(board, row) \in Seq(BoardRow) /\ Len(Append(board, row)) = Len(board) + 1
  BY <1>2, <1>7
<1>12. BoardTrue(Append(board, row), t, reputation')
  <2>1. BoardTrue(board, t, reputation')
    BY <1>3, <1>s, BoardStays
  <2>2. PICK n \in Nat : n = Len(board)
    BY <1>2
  <2>3. \A k \in 1 .. n + 1 :
            Append(board, row)[k] = IF k = n + 1 THEN row ELSE board[k]
    BY <1>2, <2>2
  <2>4. ASSUME NEW j \in 1 .. n + 1, NEW k \in 1 .. n + 1,
               Append(board, row)[j].entity_address = Append(board, row)[k].entity_address
        PROVE  j = k
    BY <1>4, <1>7, <2>1, <2>2, <2>3, <2>4, SMTT(30) DEF BoardTrue
  <2>5. ASSUME NEW k \in 1 .. n + 1
        PROVE  LET r == reputation'[Append(board, row)[k].entity_address]
               IN  r # Standing!Nothing /\ r.entity_type = t
    <3>1. CASE k = n + 1
      BY <1>6, <1>7, <1>9, <2>3, <3>1
    <3>2. CASE k \in 1 .. n
      BY <2>1, <2>2, <2>3, <3>2 DEF BoardTrue
    <3>3. k = n + 1 \/ k \in 1 .. n
      OBVIOUS
    <3> QED
      BY ONLY <3>1, <3>2, <3>3
  <2> QED
    BY <1>11, <2>2, <2>4, <2>5 DEF BoardTrue
<1>13. /\ leaderboard' = [leaderboard EXCEPT ![t] = Append(board, row)]
       /\ leaderboard' \in [EntityType -> Seq(BoardRow)]
  BY <1>1, <1>2, <1>5, <1>11 DEF ReputationInv
<1>14. ASSUME NEW u \in EntityType PROVE BoardTrue(leaderboard'[u], u, reputation')
  <2>1. CASE u = t
    BY <1>12, <1>13, <2>1 DEF ReputationInv
  <2>2. CASE u # t
    <3>1. leaderboard'[u] = leaderboard[u] /\ BoardTrue(leaderboard[u], u, reputation)
      BY <1>13, <2>2 DEF ReputationInv
    <3> QED
      BY <1>s, <3>1, BoardStays
  <2> QED
    BY <2>1, <2>2
<1>15. total_entities' = [u \in EntityType |-> Len(leaderboard'[u])]
  <2>1. total_entities[t] = Len(board)
    BY <1>2 DEF ReputationInv
  <2>2. ASSUME NEW u \in EntityType PROVE total_entities'[u] = Len(leaderboard'[u])
    BY <1>1, <1>11, <1>13, <2>1 DEF ReputationInv
  <2>3. total_entities' = [u \in EntityType |-> total_entities'[u]]
    BY <1>1 DEF ReputationInv
  <2> QED
    BY <2>2, <2>3
<1>16. /\ now' \in 0 .. MaxNow /\ config' \in Standing!Settings
       /\ reputation' = [a \in Entity |-> reputation'[a]]
       /\ history' = [a \in Entity |-> history'[a]]
  BY <1>1 DEF ReputationInv
<1> QED
  BY <1>10, <1>13, <1>14, <1>15, <1>16 DEF ReputationInv

\* A hundredth of a number up to a hundred times a scale is in the scale.
LEMMA HundredthInScale ==
    ASSUME NEW n \in Nat, NEW scale \in Nat, n <= 100 * scale
    PROVE  n \div 100 \in 0 .. scale
OBVIOUS

\* A factor moves within the scale.
LEMMA FactorMoved ==
    ASSUME NEW x \in 0 .. Standing!Scale, NEW y \in 0 .. Standing!Scale
    PROVE  Standing!EmaUpdate(x, y) \in 0 .. Standing!Scale
<1>1. PICK scale \in Nat : scale = Standing!Scale
  BY DEF Standing!Scale
<1>2. x \in 0 .. scale /\ y \in 0 .. scale
  BY ONLY x \in 0 .. Standing!Scale, y \in 0 .. Standing!Scale, <1>1
<1>3. PICK n : n = x * 80 + y * 20
  OBVIOUS
<1>4. n \in Nat /\ n <= 100 * scale
  BY ONLY <1>2, <1>3
<1>5. n \div 100 \in 0 .. scale
  BY ONLY <1>4, HundredthInScale
<1>6. Standing!EmaUpdate(x, y) = n \div 100
  BY <1>2, <1>3 DEF Standing!EmaUpdate, Standing!Alpha
<1> QED
  BY <1>1, <1>5, <1>6

\* A report moves the factors, the score and its badge.
LEMMA RecordKeeps ==
    ASSUME Standing!ReputationConstants, ReputationInv, NEW e \in Entity,
           NEW reading \in Readings, NEW won \in Won,
           Standing!RecordPerformance(e, reading, won)
    PROVE  ReputationInv'
<1> DEFINE scores == <<reading, reading, reading, won>>
           factors == [f \in Standing!Factor |->
                         Standing!EmaUpdate(reputation[e].factors[f],
                            IF scores[f] > Standing!Scale THEN Standing!Scale ELSE scores[f])]
           score == Standing!Overall(factors)
           new == [reputation[e] EXCEPT !.factors = factors, !.overall_score = score,
                      !.badge_level = Standing!BadgeLevel(score), !.last_update_time = now]
<1>1. /\ reputation[e].kind = "data"
      /\ reputation' = [reputation EXCEPT ![e] = new]
      /\ \E rows : history' = [history EXCEPT ![e] = rows]
      /\ leaderboard' = leaderboard /\ total_entities' = total_entities
      /\ now' = now /\ config' = config
  BY DEF Standing!RecordPerformance
<1>2. reputation[e] \in Standings /\ reputation[e] # Standing!Nothing
  BY <1>1, DataOrNothing DEF ReputationInv
<1>3. factors \in [Standing!Factor -> 0 .. Standing!Scale]
  <2>1. ASSUME NEW f \in Standing!Factor
        PROVE  Standing!EmaUpdate(reputation[e].factors[f],
                  IF scores[f] > Standing!Scale THEN Standing!Scale ELSE scores[f])
                  \in 0 .. Standing!Scale
    <3>1. reputation[e].factors[f] \in 0 .. Standing!Scale
      <4>1. PICK g : g = reputation[e].factors
        OBVIOUS
      <4>2. g \in [Standing!Factor -> 0 .. Standing!Scale]
        BY <1>2, <4>1 DEF Standings
      <4>3. g[f] \in 0 .. Standing!Scale
        BY <4>2
      <4> QED
        BY <4>1, <4>3
    <3>2. PICK s \in Nat : s = scores[f]
      BY DEF Standing!ReputationConstants, Standing!Factor
    <3>3. (IF s > Standing!Scale THEN Standing!Scale ELSE s) \in 0 .. Standing!Scale
      BY DEF Standing!Scale
    <3>4. (IF scores[f] > Standing!Scale THEN Standing!Scale ELSE scores[f])
             \in 0 .. Standing!Scale
      BY <3>2, <3>3
    <3> HIDE DEF scores
    <3> QED
      BY <3>1, <3>4, FactorMoved
  <2> QED
    BY <2>1
<1> HIDE DEF factors
<1>4. score \in Nat
  <2>1. PICK w \in [1 .. 4 -> Nat] : w = config.weights
    BY DEF ReputationInv, Standing!Settings, Standing!ReputationConstants
  <2>2. /\ factors[1] \in Nat /\ factors[2] \in Nat /\ factors[3] \in Nat /\ factors[4] \in Nat
    <3>1. 1 \in Standing!Factor /\ 2 \in Standing!Factor /\ 3 \in Standing!Factor
          /\ 4 \in Standing!Factor
      BY DEF Standing!Factor
    <3>2. 0 .. Standing!Scale \subseteq Nat
      BY DEF Standing!Scale
    <3> QED
      BY <1>3, <3>1, <3>2
  <2>3. /\ factors[1] * w[1] \in Nat /\ factors[2] * w[2] \in Nat
        /\ factors[3] * w[3] \in Nat /\ factors[4] * w[4] \in Nat
    BY <2>1, <2>2
  <2>4. (factors[1] * w[1] + factors[2] * w[2] + factors[3] * w[3] + factors[4] * w[4])
           \div 100 \in Nat
    BY <2>3
  <2> QED
    BY <2>1, <2>4 DEF Standing!Overall
<1> HIDE DEF score
<1>5. PICK badge \in Badge : badge = Standing!BadgeLevel(score)
  BY <1>4, BadgeLevelType
<1>6. /\ new \in Standings /\ new.last_update_time = now
      /\ new.entity_type = reputation[e].entity_type
      /\ new.overall_score = score /\ new.badge_level = badge
      /\ new # Standing!Nothing
  <2>1. now \in Nat
    BY DEF ReputationInv, Standing!ReputationConstants
  <2>2. /\ new \in Standings /\ new.last_update_time = now
        /\ new.entity_type = reputation[e].entity_type
        /\ new.overall_score = score /\ new.badge_level = badge /\ new.kind = "data"
    BY <1>2, <1>3, <1>4, <1>5, <2>1 DEF Standings
  <2>3. Standing!Nothing.kind # "data"
    BY DEF Standing!Nothing
  <2> QED
    BY <2>2, <2>3
<1> HIDE DEF new
<1>7. \A a \in Entity : /\ reputation'[a] = IF a = e THEN new ELSE reputation[a]
                        /\ a # e => history'[a] = history[a]
  BY <1>1 DEF ReputationInv
<1>8. ASSUME NEW a \in Entity, reputation'[a] # Standing!Nothing
      PROVE  /\ reputation'[a] \in Standings /\ reputation'[a].last_update_time <= now'
             /\ BadgeTrue(reputation'[a], history'[a])
  <2>1. CASE a = e
    <3>1. reputation'[a] = new /\ now <= now
      BY <1>7, <2>1 DEF ReputationInv, Standing!ReputationConstants
    <3>2. BadgeTrue(new, history'[a])
      BY <1>5, <1>6 DEF BadgeTrue
    <3> QED
      BY <1>1, <1>6, <3>1, <3>2
  <2>2. CASE a # e
    BY <1>1, <1>7, <1>8, <2>2 DEF ReputationInv
  <2> QED
    BY <2>1, <2>2
<1>9. ASSUME NEW u \in EntityType PROVE BoardTrue(leaderboard'[u], u, reputation')
  <2>1. BoardTrue(leaderboard[u], u, reputation)
    BY DEF ReputationInv
  <2>2. \A a \in Entity : reputation[a] # Standing!Nothing =>
           reputation'[a] # Standing!Nothing
           /\ reputation'[a].entity_type = reputation[a].entity_type
    BY <1>6, <1>7
  <2>3. BoardTrue(leaderboard[u], u, reputation')
    BY ONLY <2>1, <2>2, BoardStays, Zenon
  <2>4. leaderboard'[u] = leaderboard[u]
    BY <1>1
  <2> QED
    BY <2>3, <2>4
<1>10. /\ now' \in 0 .. MaxNow /\ config' \in Standing!Settings
       /\ reputation' = [a \in Entity |-> reputation'[a]]
       /\ history' = [a \in Entity |-> history'[a]]
       /\ leaderboard' \in [EntityType -> Seq(BoardRow)]
       /\ total_entities' = [u \in EntityType |-> Len(leaderboard'[u])]
  BY <1>1 DEF ReputationInv
<1> QED
  BY <1>8, <1>9, <1>10 DEF ReputationInv

\* What a decay makes of a row: its entity stays.
RowDecayed(row, changed, data) ==
    IF changed THEN [row EXCEPT !.score = data.overall_score, !.badge_level = data.badge_level]
    ELSE row

\* A decay changes scores and badges together, and no leaderboard's rows.
LEMMA DecayKeeps ==
    ASSUME Standing!ReputationConstants, ReputationInv, Standing!ApplyTimeDecay
    PROVE  ReputationInv'
<1> DEFINE listed == {e \in Entity : \E t \in EntityType :
                       \E k \in DOMAIN leaderboard[t] : leaderboard[t][k].entity_address = e}
           data == [e \in listed |-> Standing!Decayed(reputation[e])]
<1>3. /\ reputation' = [e \in Entity |-> IF e \in listed THEN data[e] ELSE reputation[e]]
      /\ leaderboard' = [t \in EntityType |-> [k \in 1 .. Len(leaderboard[t]) |->
            RowDecayed(leaderboard[t][k],
                       data[leaderboard[t][k].entity_address]
                          # reputation[leaderboard[t][k].entity_address],
                       data[leaderboard[t][k].entity_address])]]
      /\ now' = now /\ history' = history /\ total_entities' = total_entities
      /\ config' = config
  BY Zenon DEF Standing!ApplyTimeDecay, RowDecayed
<1>1. listed = {e \in Entity : \E t \in EntityType :
                 \E k \in DOMAIN leaderboard[t] : leaderboard[t][k].entity_address = e}
  OBVIOUS
<1>2. data = [e \in listed |-> Standing!Decayed(reputation[e])]
  OBVIOUS
<1> HIDE DEF listed, data
<1>4. listed \subseteq Entity
  BY <1>1
<1>5. \A t \in EntityType : /\ leaderboard[t] \in Seq(BoardRow)
                            /\ BoardTrue(leaderboard[t], t, reputation)
  BY DEF ReputationInv
<1>6. ASSUME NEW e \in listed PROVE reputation[e] # Standing!Nothing
  <2>0. PICK t \in EntityType : \E k \in DOMAIN leaderboard[t] :
           leaderboard[t][k].entity_address = e
    BY <1>1
  <2>1. PICK k \in DOMAIN leaderboard[t] : leaderboard[t][k].entity_address = e
    BY <2>0
  <2>2. k \in 1 .. Len(leaderboard[t])
    BY <1>5
  <2> QED
    BY <1>5, <2>1, <2>2 DEF BoardTrue
<1>7. now \in Nat
  BY DEF ReputationInv, Standing!ReputationConstants
<1>8. ASSUME NEW e \in listed
      PROVE  /\ data[e] \in Standings /\ data[e].last_update_time <= now
             /\ data[e].entity_type = reputation[e].entity_type
             /\ BadgeTrue(data[e], history[e])
             /\ data[e] # Standing!Nothing
  <2>1. PICK old : old = reputation[e]
    OBVIOUS
  <2>2. /\ old \in Standings /\ old.last_update_time <= now /\ BadgeTrue(old, history[e])
    BY <1>4, <1>6, <2>1 DEF ReputationInv
  <2>3. data[e] = Standing!Decayed(old)
    BY <1>2, <2>1
  <2>4. /\ data[e] \in Standings /\ data[e].last_update_time <= now
        /\ data[e].entity_type = old.entity_type
        /\ BadgeTrue(data[e], history[e])
    BY <1>7, <2>2, <2>3, DecayedRecord
  <2>5. data[e].kind = "data" /\ Standing!Nothing.kind # "data"
    BY <2>4 DEF Standings, Standing!Nothing
  <2> QED
    BY <2>1, <2>4, <2>5
<1>9. ASSUME NEW e \in Entity, reputation'[e] # Standing!Nothing
      PROVE  /\ reputation'[e] \in Standings /\ reputation'[e].last_update_time <= now'
             /\ BadgeTrue(reputation'[e], history'[e])
  <2>1. CASE e \in listed
    <3>1. reputation'[e] = data[e]
      BY <1>3, <2>1
    <3> QED
      BY <1>3, <1>8, <2>1, <3>1
  <2>2. CASE e \notin listed
    <3>1. reputation'[e] = reputation[e]
      BY <1>3, <2>2
    <3> QED
      BY <1>3, <1>9, <3>1 DEF ReputationInv
  <2> QED
    BY <2>1, <2>2
<1>10. \A e \in Entity : reputation[e] # Standing!Nothing =>
          reputation'[e] # Standing!Nothing
          /\ reputation'[e].entity_type = reputation[e].entity_type
  BY <1>3, <1>8
<1>11. ASSUME NEW t \in EntityType
       PROVE  /\ leaderboard'[t] \in Seq(BoardRow)
              /\ Len(leaderboard'[t]) = Len(leaderboard[t])
              /\ BoardTrue(leaderboard'[t], t, reputation')
  <2>1. PICK board \in Seq(BoardRow) : board = leaderboard[t]
    BY <1>5
  <2>2. PICK n \in Nat : n = Len(board)
    BY <2>1
  <2>3. PICK new : new = leaderboard'[t]
    OBVIOUS
  <2>4. new = [k \in 1 .. n |-> RowDecayed(board[k],
                  data[board[k].entity_address] # reputation[board[k].entity_address],
                  data[board[k].entity_address])]
    BY <1>3, <2>1, <2>2, <2>3
  <2>5. ASSUME NEW k \in 1 .. n
        PROVE  new[k] \in BoardRow /\ new[k].entity_address = board[k].entity_address
    <3>1. PICK row \in BoardRow : row = board[k]
      BY <2>1, <2>2
    <3>2. PICK e \in listed : e = row.entity_address
      <4>1. row.entity_address \in Entity /\ k \in DOMAIN leaderboard[t]
        BY <2>1, <2>2, <3>1 DEF BoardRow
      <4> QED
        BY <1>1, <2>1, <3>1, <4>1
    <3>3. new[k] = RowDecayed(row, data[e] # reputation[e], data[e])
      BY <2>4, <3>1, <3>2
    <3>4. data[e].overall_score \in Nat /\ data[e].badge_level \in Badge
      BY <1>8 DEF Standings
    <3> QED
      BY <3>1, <3>3, <3>4 DEF RowDecayed, BoardRow
  <2>6. new \in Seq(BoardRow) /\ Len(new) = n
    <3>1. new = [k \in 1 .. n |-> new[k]]
      BY <2>4
    <3>2. new \in [1 .. n -> BoardRow]
      BY <2>5, <3>1
    <3> QED
      BY <2>2, <3>2
  <2>7. BoardTrue(board, t, reputation')
    BY <1>5, <1>10, <2>1, BoardStays
  <2>8. BoardTrue(new, t, reputation')
    BY <2>2, <2>5, <2>6, <2>7 DEF BoardTrue
  <2> QED
    BY <2>1, <2>2, <2>3, <2>6, <2>8
<1>12. leaderboard' \in [EntityType -> Seq(BoardRow)]
  <2>1. leaderboard' = [t \in EntityType |-> leaderboard'[t]]
    BY <1>3
  <2> QED
    BY <1>11, <2>1
<1>13. total_entities' = [t \in EntityType |-> Len(leaderboard'[t])]
  BY <1>3, <1>11 DEF ReputationInv
<1>14. /\ now' \in 0 .. MaxNow /\ config' \in Standing!Settings
       /\ reputation' = [e \in Entity |-> reputation'[e]]
       /\ history' = [e \in Entity |-> history'[e]]
  BY <1>3 DEF ReputationInv
<1> QED
  BY <1>9, <1>11, <1>12, <1>13, <1>14 DEF ReputationInv

\* A penalty or a reward never applies: the record it has to read is the history.
LEMMA NeverRewritten ==
    ASSUME ReputationInv, NEW e \in Entity, NEW data, Standing!Rewritten(e, data)
    PROVE  FALSE
<1> DEFINE rows == [kind |-> "history", rows |-> Append(history[e], [timestamp |-> now])]
           stored == [reputation EXCEPT ![e] = data]
           over == [stored EXCEPT ![e] = rows]
<1>1. e \in DOMAIN stored
  BY DEF ReputationInv
<1>2. over[e] = rows
  BY <1>1
<1>3. over[e].kind = "history"
  BY <1>2
<1> QED
  BY <1>3 DEF Standing!Rewritten

\* Every step keeps the invariant.
LEMMA NextReputation ==
    ASSUME Standing!ReputationConstants, ReputationInv, [Standing!Next]_(Standing!vars)
    PROVE  ReputationInv'
<1>1. ASSUME NEW e \in Entity, NEW t \in EntityType, Standing!RegisterEntity(e, t)
      PROVE  ReputationInv'
  BY <1>1, EnrolKeeps
<1>2. ASSUME NEW e \in Entity, NEW reading \in Readings, NEW won \in Won,
             Standing!RecordPerformance(e, reading, won)
      PROVE  ReputationInv'
  BY <1>2, RecordKeeps
<1>3. ASSUME NEW e \in Entity, NEW amount \in Amounts,
             Standing!ApplyPenalty(e, amount) \/ Standing!GrantReward(e, amount)
      PROVE  ReputationInv'
  <2>1. \E data : Standing!Rewritten(e, data)
    BY <1>3 DEF Standing!ApplyPenalty, Standing!GrantReward
  <2> QED
    BY <2>1, NeverRewritten
<1>4. CASE Standing!ApplyTimeDecay
  BY <1>4, DecayKeeps
<1>5. ASSUME NEW fresh \in Standing!Settings, Standing!Initialize(fresh)
      PROVE  ReputationInv'
  <2>1. /\ config' = fresh /\ now' = now /\ reputation' = reputation /\ history' = history
        /\ leaderboard' = [t \in EntityType |-> <<>>]
        /\ total_entities' = [t \in EntityType |-> 0]
    BY <1>5 DEF Standing!Initialize
  <2>2. leaderboard' \in [EntityType -> Seq(BoardRow)]
    BY <2>1
  <2>3. \A t \in EntityType : BoardTrue(leaderboard'[t], t, reputation')
    BY <2>1 DEF BoardTrue
  <2>4. total_entities' = [t \in EntityType |-> Len(leaderboard'[t])]
    BY <2>1
  <2> QED
    BY <2>1, <2>2, <2>3, <2>4 DEF ReputationInv
<1>6. ASSUME NEW fresh \in Standing!Settings, Standing!UpdateConfig(fresh)
      PROVE  ReputationInv'
  BY <1>6 DEF Standing!UpdateConfig, ReputationInv
<1>7. CASE Standing!Tick
  <2>1. /\ now < MaxNow /\ now' = now + 1 /\ UNCHANGED Standing!reputationVars
    BY <1>7 DEF Standing!Tick
  <2>2. now' \in 0 .. MaxNow /\ now \in Nat
    BY <2>1 DEF ReputationInv, Standing!ReputationConstants
  <2>3. ASSUME NEW e \in Entity, reputation[e] # Standing!Nothing
        PROVE  reputation[e].last_update_time <= now'
    BY <2>1, <2>2, <2>3 DEF ReputationInv, Standings
  <2> QED
    BY <2>1, <2>2, <2>3 DEF ReputationInv, Standing!reputationVars
<1>8. CASE UNCHANGED Standing!vars
  BY <1>8 DEF ReputationInv, Standing!vars, Standing!reputationVars
<1> QED
  BY <1>1, <1>2, <1>3, <1>4, <1>5, <1>6, <1>7, <1>8 DEF Standing!Next

\* The invariant holds in every reachable state.
LEMMA ReputationInvariant ==
    ASSUME Standing!ReputationConstants
    PROVE  Standing!Spec => []ReputationInv
<1>1. Standing!Init => ReputationInv
  BY InitReputation
<1>2. ReputationInv /\ [Standing!Next]_(Standing!vars) => ReputationInv'
  BY NextReputation
<1> QED
  BY <1>1, <1>2, PTL DEF Standing!Spec

\* Each leaderboard lists the registered entities of its type, each once, as many as are
\* counted, whatever is registered, reported, decayed and initialized again; and every
\* badge is the one of its score, or that of a registration.
THEOREM StandingsAgree ==
    ASSUME Standing!ReputationConstants
    PROVE  Standing!Spec =>
              [](Standing!TypeOK /\ Standing!BoardCounted /\ Standing!BadgeOfScore)
<1>1. ReputationInv => Standing!TypeOK /\ Standing!BoardCounted /\ Standing!BadgeOfScore
  BY ReputationChecked
<1> QED
  BY <1>1, ReputationInvariant, PTL
=============================================================================
