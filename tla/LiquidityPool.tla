----------------------------- MODULE LiquidityPool -----------------------------
(***************************************************************************)
(* The liquidity pool monitor, soroban/src/liquidity_pool.rs: a ring of    *)
(* snapshots and a ring of daily buckets for each pool, and what is        *)
(* calculated from them.                                                   *)
(*                                                                         *)
(* A call of record_pool_state is one action.  log is history: every       *)
(* snapshot ever recorded.  Integers are small, with a smaller PRECISION.  *)
(*                                                                         *)
(* Left out: the total shares, the pool type, the window bounds returned,  *)
(* the event of a significant change.                                      *)
(***************************************************************************)
EXTENDS Integers, Sequences, FiniteSets, FiniteSetsExt, Functions, SequencesExt

CONSTANTS
    Pool,
    Reserves,           \* bound: pairs of reserves recorded
    Volumes,            \* bound: volumes; the fees are half of them
    EntryPrices,        \* bound: entry prices of positions
    Precision,          \* PRECISION
    Baseline,           \* baseline of the depth score
    MaxSnapshots,       \* MAX_SNAPSHOTS, capacity of the ring
    MaxBuckets,         \* MAX_DAILY_BUCKETS
    Day,                \* DAY_SECS
    MaxRecords,         \* bound: snapshots recorded
    MaxNow              \* bound: the clock

\* Reserves are amounts of tokens; capacities, the length of a day and scales are not 0.
LiquidityConstants ==
    /\ Reserves \subseteq Nat \X Nat /\ Volumes \subseteq Int /\ EntryPrices \subseteq Int
    /\ {Precision, Baseline, MaxSnapshots, MaxBuckets, Day} \subseteq Nat \ {0}
    /\ MaxNow \in Nat

VARIABLES now, ring, daily, pools, log

poolVars == <<ring, daily, pools, log>>
vars == <<now, poolVars>>

NoEntry == [timestamp |-> -1]
EmptyRing(capacity) ==
    [head |-> 0, count |-> 0, slots |-> [k \in 0 .. capacity - 1 |-> NoEntry]]

Init ==
    /\ now = 0
    /\ ring = [p \in Pool |-> EmptyRing(MaxSnapshots)]
    /\ daily = [p \in Pool |-> EmptyRing(MaxBuckets)]
    /\ pools = <<>>
    /\ log = [p \in Pool |-> <<>>]
-----------------------------------------------------------------------------
Capacity(r) == Cardinality(DOMAIN r.slots)

\* The slot written last.
LastSlot(r) == IF r.head = 0 THEN Capacity(r) - 1 ELSE r.head - 1

\* An entry written at the head.
Pushed(r, entry) ==
    [head |-> (r.head + 1) % Capacity(r), count |-> r.count + 1,
     slots |-> [r.slots EXCEPT ![r.head] = entry]]

\* Mutant: a ring that is just full is read from its head on, as one that wrapped, and
\* one that wrapped from its first slot.
Walk_Wrapped(r) ==
    LET n == IF r.count > Capacity(r) THEN Capacity(r) ELSE r.count
    IN  [i \in 1 .. n |-> r.slots[(i - 1) % Capacity(r)]]

\* The entries kept, oldest first.
Walk(r) ==
    LET n == IF r.count > Capacity(r) THEN Capacity(r) ELSE r.count
        start == IF r.count > Capacity(r) THEN r.head ELSE 0
    IN  [i \in 1 .. n |-> r.slots[(start + i - 1) % Capacity(r)]]

\* get_snapshots_in_window (get_pool_history) and get_daily_history: the places, in the
\* order of the walk, of the entries they return.
InWindow(r, from, to) ==
    {i \in DOMAIN Walk(r) : from <= Walk(r)[i].timestamp /\ Walk(r)[i].timestamp <= to}

\* get_latest_snapshot.
Latest(r) == IF r.count > 0 THEN r.slots[LastSlot(r)] ELSE NoEntry
-----------------------------------------------------------------------------
Price(reserve_a, reserve_b) ==
    IF reserve_a > 0 THEN (reserve_b * Precision) \div reserve_a ELSE 0

\* The start of the day of a time.
DayOf(time) == (time \div Day) * Day

Snapshot(reserves, volume) ==
    [timestamp |-> now, reserve_a |-> reserves[1], reserve_b |-> reserves[2],
     price |-> Price(reserves[1], reserves[2]), volume |-> volume, fees |-> volume \div 2]

NewBucket(s) ==
    [timestamp |-> DayOf(s.timestamp), open |-> s.price, high |-> s.price,
     low |-> s.price, close |-> s.price, volume |-> s.volume, fees |-> s.fees,
     avg_reserve_a |-> s.reserve_a, avg_reserve_b |-> s.reserve_b, count |-> 1]

\* Mutant: the low of the day is only kept when the price is no new high.
Extended_Low(b, s) ==
    [b EXCEPT !.high = IF s.price > @ THEN s.price ELSE @,
              !.low = IF s.price >= b.high /\ s.price < @ THEN s.price ELSE @,
              !.close = s.price, !.volume = @ + s.volume, !.fees = @ + s.fees,
              !.avg_reserve_a = (@ * b.count + s.reserve_a) \div (b.count + 1),
              !.avg_reserve_b = (@ * b.count + s.reserve_b) \div (b.count + 1),
              !.count = @ + 1]

\* The bucket of the day with one more snapshot.
Extended(b, s) ==
    [b EXCEPT !.high = IF s.price > @ THEN s.price ELSE @,
              !.low = IF s.price < @ THEN s.price ELSE @,
              !.close = s.price, !.volume = @ + s.volume, !.fees = @ + s.fees,
              !.avg_reserve_a = (@ * b.count + s.reserve_a) \div (b.count + 1),
              !.avg_reserve_b = (@ * b.count + s.reserve_b) \div (b.count + 1),
              !.count = @ + 1]

\* update_daily_bucket.
Bucketed(r, s) ==
    IF Latest(r).timestamp = DayOf(s.timestamp)
    THEN [r EXCEPT !.slots[LastSlot(r)] = Extended(@, s)]
    ELSE Pushed(r, NewBucket(s))

\* record_pool_state.
RecordPoolState(p, reserves, volume) ==
    LET s == Snapshot(reserves, volume) IN
    /\ Len(log[p]) < MaxRecords
    /\ ring' = [ring EXCEPT ![p] = Pushed(@, s)]
    /\ daily' = [daily EXCEPT ![p] = Bucketed(@, s)]
    /\ pools' = IF p \in ToSet(pools) THEN pools ELSE Append(pools, p)
    /\ log' = [log EXCEPT ![p] = Append(@, s)]
    /\ UNCHANGED now

Tick ==
    /\ now < MaxNow
    /\ now' = now + 1
    /\ UNCHANGED poolVars

Next ==
    \/ \E p \in Pool, reserves \in Reserves, volume \in Volumes : RecordPoolState(p, reserves, volume)
    \/ Tick

Spec == Init /\ [][Next]_vars
-----------------------------------------------------------------------------
\* isqrt: Newton's iteration from above.
Isqrt(n) ==
    LET step[x \in 1 .. n] ==
            LET y == (x + n \div x) \div 2 IN IF y < x THEN step[y] ELSE x
        start == (n + 1) \div 2
    IN  IF n <= 0 THEN 0 ELSE IF n = 1 THEN 1 ELSE IF start < n THEN step[start] ELSE n

\* The sum of a field over the rows at some places.
SumOf(rows, places, Field(_)) == SumFunctionOnSet([i \in places |-> Field(rows[i])], places)

Depth(s) == (s.reserve_a + s.reserve_b) \div 2

\* calculate_pool_metrics: total volume, average depth and change of the price.
Metrics(p, from) ==
    LET rows == Walk(ring[p])
        places == InWindow(ring[p], from, now)
        n == Cardinality(places)
        first == rows[Min(places)].price
    IN  IF n = 0 THEN [total_volume |-> 0, total_fees |-> 0, avg_depth |-> 0, price_change |-> 0,
                       data_points |-> 0]
        ELSE [total_volume |-> SumOf(rows, places, LAMBDA s : s.volume),
              total_fees |-> SumOf(rows, places, LAMBDA s : s.fees),
              avg_depth |-> SumOf(rows, places, Depth) \div n,
              price_change |-> IF first > 0
                               THEN ((rows[Max(places)].price - first) * Precision) \div first
                               ELSE 0,
              data_points |-> n]

\* calculate_impermanent_loss of a position entered at a price with a value.
ImpermanentLoss(price, entry_price, value) ==
    IF entry_price <= 0 \/ price <= 0
    THEN [il |-> 0, hodl_value |-> value, current_value |-> value]
    ELSE LET ratio == (price * Precision) \div entry_price
             factor == Precision - ((2 * Isqrt(ratio * Precision)) * Precision) \div (Precision + ratio)
             il == IF factor > 0 THEN factor ELSE 0
             hodl == (value * (Precision + ratio)) \div (2 * Precision)
         IN  [il |-> il, hodl_value |-> hodl,
              current_value |-> (hodl * (Precision - il)) \div Precision]

\* get_liquidity_depth: the score of a total value locked.
DepthScore(s) ==
    LET locked == (s.reserve_a * s.price) \div Precision + s.reserve_b
    IN  IF locked >= Baseline THEN 100 ELSE IF locked <= 0 THEN 0 ELSE (locked * 100) \div Baseline
-----------------------------------------------------------------------------
\* Each variable holds values of its type.
TypeOK ==
    /\ now \in 0 .. MaxNow
    /\ \A p \in Pool :
          /\ ring[p].head \in 0 .. MaxSnapshots - 1 /\ ring[p].count = Len(log[p])
          /\ daily[p].head \in 0 .. MaxBuckets - 1
    /\ ToSet(pools) = {p \in Pool : log[p] # <<>>} /\ IsInjective(pools)

\* The last n elements of a sequence, or all of them.
Newest(rows, n) == SubSeq(rows, IF Len(rows) > n THEN Len(rows) - n + 1 ELSE 1, Len(rows))

\* A window of the ring is the window of the newest snapshots ever recorded, in their
\* order, empty, partly filled, just full or wrapped; the last is the latest.
HistoryFaithful ==
    \A p \in Pool :
        /\ Walk(ring[p]) = Newest(log[p], MaxSnapshots)
        /\ log[p] # <<>> => Latest(ring[p]) = log[p][Len(log[p])]

\* What a bucket of a day says of the snapshots of its day.
DayTrue(rows, b) ==
    LET places == {j \in DOMAIN rows : DayOf(rows[j].timestamp) = b.timestamp}
    IN  /\ places # {} /\ b.count = Cardinality(places)
        /\ b.volume = SumOf(rows, places, LAMBDA s : s.volume)
        /\ b.fees = SumOf(rows, places, LAMBDA s : s.fees)
        /\ b.open = rows[Min(places)].price /\ b.close = rows[Max(places)].price
        /\ \A j \in places : b.low <= rows[j].price /\ rows[j].price <= b.high
        /\ {b.low, b.high} \subseteq {rows[j].price : j \in places}

\* Each daily bucket kept says of the snapshots of its day what they say: volume, fees and
\* number, first and last price, highest and lowest.
DaysTrue ==
    \A p \in Pool : \A k \in DOMAIN Walk(daily[p]) :
        DayTrue(log[p], Walk(daily[p])[k])

\* What is calculated stays in its range for every price reached, entry price and window:
\* a position is worth no more than holding, none is lost while the price stands still,
\* the integer root is exact, and averages lie between what they average.
CalculationsBounded ==
    \A p \in Pool : Latest(ring[p]) # NoEntry =>
        LET price == Latest(ring[p]).price IN
        /\ \A entry \in EntryPrices :
              LET loss == ImpermanentLoss(price, entry, Precision) IN
              /\ loss.il \in 0 .. Precision /\ loss.current_value \in 0 .. loss.hodl_value
              /\ entry = price => loss.il = 0
        /\ Isqrt(price) * Isqrt(price) <= price
        /\ price < (Isqrt(price) + 1) * (Isqrt(price) + 1)
        /\ DepthScore(Latest(ring[p])) \in 0 .. 100
        /\ \A from \in 0 .. now :
              LET metrics == Metrics(p, from) IN
              metrics.data_points > 0 =>
                  \E s, t \in ToSet(Walk(ring[p])) :
                      Depth(s) <= metrics.avg_depth /\ metrics.avg_depth <= Depth(t)
=============================================================================
