-------------------------------- MODULE Relay ---------------------------------
(***************************************************************************)
(* The cross-chain message relay, soroban/src/relay.                       *)
(*                                                                         *)
(* A call is one action and a refused call writes nothing, also when the   *)
(* code wrote before it returned the error: verify_message and             *)
(* relay_message mark a late message Expired and then fail, so that mark   *)
(* is lost.  Only batch_relay, which carries on after the error of an      *)
(* item, keeps it.                                                         *)
(*                                                                         *)
(* A message is known by its sender and nonce, which its hash covers.      *)
(* Signatures, state roots and proofs are abstracted to whether they check *)
(* out.  order records the place of a message among all sent, and relays   *)
(* how often each was relayed; no action reads them.                       *)
(***************************************************************************)
EXTENDS Integers, Sequences, FiniteSets, Functions

CONSTANTS
    Chain,              \* ChainId
    Sender,
    Operator,           \* addresses the admin may register
    Key,                \* public keys
    PublicKey,          \* the key each operator is registered with
    MaxNonce,           \* bound: messages of one sender
    Priorities,         \* message_priority_value of MessagePriority, 0 the first
    Ttls,               \* values of ttl_override; 0 asks for the default
    DefaultTtl,
    PayloadSizes,       \* bytes
    FeesPaid,           \* values of fee_paid
    InitialChains,      \* the configurations initialize stores
    ChainConfigs,       \* configurations passed to configure_chain
    CleanupSizes,       \* values of max_items
    U64Max

MaxPayload == 16384

MessageId == Sender \X (0 .. MaxNonce - 1)
SenderOf(id) == id[1]
Seconds == 0 .. U64Max

ChainConfig == [base_fee : Nat, fee_per_byte : Nat, is_enabled : BOOLEAN]

ASSUME RelayAssumption ==
    /\ Chain # {}
    /\ PublicKey \in [Operator -> Key]
    /\ MaxNonce \in Nat /\ U64Max \in Nat
    /\ IsFiniteSet(Sender) /\ IsFiniteSet(Operator)
    /\ Priorities \subseteq 0 .. 3
    /\ Ttls \subseteq Seconds /\ DefaultTtl \in Seconds \ {0}
    /\ PayloadSizes \subseteq Nat /\ FeesPaid \subseteq Int
    /\ InitialChains \in [Chain -> ChainConfig]
    /\ ChainConfigs \subseteq ChainConfig
    /\ CleanupSizes \subseteq Nat

VARIABLES
    now,                        \* ledger timestamp
    chain_config,               \* of each chain; one never configured is disabled
    operators,                  \* RelayOperator of each address
    nonces,                     \* the nonce each sender must use next
    messages,                   \* CrossChainMessage of each id
    queue,                      \* ids, the next to relay first
    total_messages, total_relayed, total_fees,
    relays

vars == <<now, chain_config, operators, nonces, messages, queue,
          total_messages, total_relayed, total_fees, relays>>
metrics == <<total_messages, total_relayed, total_fees>>

Open == {"Pending", "Verified"}
MessageStatus == Open \cup {"Relayed", "Expired"}

CrossChainMessage ==
    [source_chain : Chain, expiry : Seconds, priority : 0 .. 3,
     status : MessageStatus \cup {"None"}, fee : Nat, order : Nat]

RelayOperator == [registered : BOOLEAN, is_active : BOOLEAN, messages_relayed : Nat]

Status(id) == messages[id].status
Sent(id) == Status(id) # "None"
InQueue(id) == id \in Range(queue)

is_expired(id) == now >= messages[id].expiry

\* Mutant: the sum does not saturate.
SaturatingAdd_Plain(a, b) == a + b

SaturatingAdd(a, b) == IF a + b > U64Max THEN U64Max ELSE a + b

EstimateFee(config, size) == config.base_fee + config.fee_per_byte * size

\* Positions of the queue with less urgent messages than priority.
Behind(priority) == {k \in DOMAIN queue : messages[queue[k]].priority > priority}

\* Mutant: a message goes before those of its own priority.
InsertByPriority_Eager(id, priority) ==
    LET after == {k \in DOMAIN queue : messages[queue[k]].priority >= priority}
        at == IF after = {} THEN Len(queue) + 1 ELSE CHOOSE k \in after : \A j \in after : k <= j
    IN  SubSeq(queue, 1, at - 1) \o <<id>> \o SubSeq(queue, at, Len(queue))

\* The queue with id before the first less urgent message.
InsertByPriority(id, priority) ==
    LET after == Behind(priority)
        at == IF after = {} THEN Len(queue) + 1 ELSE CHOOSE k \in after : \A j \in after : k <= j
    IN  SubSeq(queue, 1, at - 1) \o <<id>> \o SubSeq(queue, at, Len(queue))

\* The queue with the ids of a set removed.
Without(ids) ==
    LET keep[n \in 0 .. Len(queue)] ==
          IF n = 0 THEN <<>>
          ELSE IF queue[n] \in ids THEN keep[n - 1]
          ELSE Append(keep[n - 1], queue[n])
    IN  keep[Len(queue)]
-----------------------------------------------------------------------------
Init ==
    /\ now = 0
    /\ chain_config = InitialChains
    /\ operators = [o \in Operator |-> [registered |-> FALSE, is_active |-> FALSE,
                                        messages_relayed |-> 0]]
    /\ nonces = [s \in Sender |-> 0]
    /\ messages = [id \in MessageId |->
          [source_chain |-> CHOOSE c \in Chain : TRUE, expiry |-> 0, priority |-> 0,
           status |-> "None", fee |-> 0, order |-> 0]]
    /\ queue = <<>>
    /\ total_messages = 0 /\ total_relayed = 0 /\ total_fees = 0
    /\ relays = [id \in MessageId |-> 0]

\* The administrator sets a chain's fees and whether it is enabled.
ConfigureChain(chain, config) ==
    /\ chain_config' = [chain_config EXCEPT ![chain] = config]
    /\ UNCHANGED <<now, operators, nonces, messages, queue, metrics, relays>>

\* The administrator registers an operator, once and for all.
RegisterRelayOperator(operator) ==
    /\ ~operators[operator].registered
    /\ operators' = [operators EXCEPT ![operator] =
                       [registered |-> TRUE, is_active |-> TRUE, messages_relayed |-> 0]]
    /\ UNCHANGED <<now, chain_config, nonces, messages, queue, metrics, relays>>

DeactivateRelayOperator(operator) ==
    /\ operators[operator].registered
    /\ operators' = [operators EXCEPT ![operator].is_active = FALSE]
    /\ UNCHANGED <<now, chain_config, nonces, messages, queue, metrics, relays>>

SendMessage(sender, source, dest, size, nonce, priority, ttl_override, fee_paid) ==
    LET config == chain_config[dest]
        fee == EstimateFee(config, size)
        ttl == IF ttl_override = 0 THEN DefaultTtl ELSE ttl_override
        id == <<sender, nonce>>
    IN  /\ nonce < MaxNonce
        /\ size <= MaxPayload
        /\ config.is_enabled
        /\ nonce = nonces[sender]
        /\ fee_paid >= fee
        /\ messages' = [messages EXCEPT ![id] =
              [source_chain |-> source, expiry |-> SaturatingAdd(now, ttl),
               priority |-> priority, status |-> "Pending", fee |-> fee,
               order |-> total_messages]]
        /\ queue' = InsertByPriority(id, priority)
        /\ nonces' = [nonces EXCEPT ![sender] = nonce + 1]
        /\ total_messages' = total_messages + 1
        /\ total_fees' = total_fees + fee
        /\ UNCHANGED <<now, chain_config, operators, total_relayed, relays>>

\* A proof that checks out speaks of an enabled chain, under a key of an operator
\* who is active now.
ProofOK(proof) ==
    /\ chain_config[proof.chain_id].is_enabled
    /\ \E o \in Operator : operators[o].is_active /\ PublicKey[o] = proof.validator_key

VerifyMessage(id, proof) ==
    /\ Sent(id)
    /\ ~is_expired(id)
    /\ Status(id) = "Pending"
    /\ proof.chain_id = messages[id].source_chain
    /\ ProofOK(proof)
    /\ messages' = [messages EXCEPT ![id].status = "Verified"]
    /\ UNCHANGED <<now, chain_config, operators, nonces, queue, metrics, relays>>

\* Mutant: the status is not looked at, so a relayed message is relayed again.
CanRelay_AnyStatus(id) == Sent(id) /\ ~is_expired(id)

\* The checks of relay_message_internal on the message.
CanRelay(id) == Sent(id) /\ ~is_expired(id) /\ Status(id) \in Open

\* Mutant: the relayed messages are not taken from the queue.
RelayAll_KeepQueue(operator, ids) ==
    /\ operators' = [operators EXCEPT ![operator].messages_relayed = @ + Cardinality(ids)]
    /\ queue' = queue
    /\ total_relayed' = total_relayed + Cardinality(ids)
    /\ relays' = [id \in MessageId |-> IF id \in ids THEN relays[id] + 1 ELSE relays[id]]

\* What relaying ids does besides their status.
RelayAll(operator, ids) ==
    /\ operators' = [operators EXCEPT ![operator].messages_relayed = @ + Cardinality(ids)]
    /\ queue' = Without(ids)
    /\ total_relayed' = total_relayed + Cardinality(ids)
    /\ relays' = [id \in MessageId |-> IF id \in ids THEN relays[id] + 1 ELSE relays[id]]

RelayMessage(operator, id) ==
    /\ operators[operator].is_active
    /\ CanRelay(id)
    /\ messages' = [messages EXCEPT ![id].status = "Relayed"]
    /\ RelayAll(operator, {id})
    /\ UNCHANGED <<now, chain_config, nonces, total_messages, total_fees>>

\* The batch lists the ids of listed, those of genuine with a good signature.  Each
\* that can be relayed is, once however often it is listed; each that is late is
\* marked Expired whatever its status was; the others are left as they were.
BatchRelay(operator, listed, genuine) ==
    LET late == {id \in listed : Sent(id) /\ is_expired(id)}
        relayed == {id \in genuine : CanRelay(id)}
    IN  /\ listed # {}
        /\ operators[operator].is_active
        /\ messages' = [id \in MessageId |->
              IF id \in late THEN [messages[id] EXCEPT !.status = "Expired"]
              ELSE IF id \in relayed THEN [messages[id] EXCEPT !.status = "Relayed"]
              ELSE messages[id]]
        /\ RelayAll(operator, relayed)
        /\ UNCHANGED <<now, chain_config, nonces, total_messages, total_fees>>

\* Mutant: only pending messages are cleaned up.
Stale_PendingOnly(id) ==
    \/ Status(id) = "Pending" /\ is_expired(id)
    \/ Status(id) \in {"Relayed", "Expired"}

\* A queued message clean-up removes.
Stale(id) ==
    \/ Status(id) \in Open /\ is_expired(id)
    \/ Status(id) \in {"Relayed", "Expired"}

\* The loop stops after max_items messages it kept; the ones it removes do not count.
CleanupExpiredMessages(max_items) ==
    LET kept(k) == Cardinality({j \in 1 .. k : ~Stale(queue[j])})
        scanned == {queue[k] : k \in {j \in DOMAIN queue : kept(j - 1) < max_items}}
        removed == {id \in scanned : Stale(id)}
    IN  /\ removed # {}
        /\ queue' = Without(removed)
        /\ messages' = [id \in MessageId |->
              IF id \in removed THEN [messages[id] EXCEPT !.status =
                                        IF @ \in Open THEN "Expired" ELSE @]
              ELSE messages[id]]
        /\ UNCHANGED <<now, chain_config, operators, nonces, metrics, relays>>

Tick ==
    /\ now < U64Max
    /\ now' = now + 1
    /\ UNCHANGED <<chain_config, operators, nonces, messages, queue, metrics, relays>>
-----------------------------------------------------------------------------
Administer ==
    \/ \E chain \in Chain, config \in ChainConfigs : ConfigureChain(chain, config)
    \/ \E operator \in Operator :
          RegisterRelayOperator(operator) \/ DeactivateRelayOperator(operator)

Send ==
    \E sender \in Sender, source, dest \in Chain, size \in PayloadSizes,
       nonce \in 0 .. MaxNonce, priority \in Priorities, ttl \in Ttls, fee \in FeesPaid :
        SendMessage(sender, source, dest, size, nonce, priority, ttl, fee)

Proof == [chain_id : Chain, validator_key : Key]

Next ==
    \/ Administer
    \/ Send
    \/ \E id \in MessageId, proof \in Proof : VerifyMessage(id, proof)
    \/ \E operator \in Operator :
          \/ \E id \in MessageId : RelayMessage(operator, id)
          \/ \E listed \in SUBSET MessageId :
                \E genuine \in SUBSET listed : BatchRelay(operator, listed, genuine)
    \/ \E max_items \in CleanupSizes : CleanupExpiredMessages(max_items)
    \/ Tick

Spec == Init /\ [][Next]_vars

\* Time passes, and someone cleans up with a max_items that spans the whole queue.
Fairness ==
    /\ WF_vars(Tick)
    /\ WF_vars(CleanupExpiredMessages(Cardinality(MessageId)))

FairSpec == Spec /\ Fairness
-----------------------------------------------------------------------------
\* Each variable holds values of its type, and a sender's messages are numbered
\* without gaps from 0.
TypeOK ==
    /\ now \in Seconds
    /\ chain_config \in [Chain -> ChainConfig]
    /\ operators \in [Operator -> RelayOperator]
    /\ nonces \in [Sender -> 0 .. MaxNonce]
    /\ messages \in [MessageId -> CrossChainMessage]
    /\ \A id \in MessageId : Sent(id) <=> id[2] < nonces[SenderOf(id)]
    /\ queue \in Seq(MessageId)
    /\ total_messages \in Nat /\ total_relayed \in Nat /\ total_fees \in Nat
    /\ relays \in [MessageId -> Nat]

\* The queue holds every message that may still be relayed, once, and none that was
\* relayed, however single relays, batches, verifications and clean-ups interleave.
QueueFaithful ==
    /\ \A j, k \in DOMAIN queue : queue[j] = queue[k] => j = k
    /\ \A id \in MessageId :
          /\ Status(id) \in Open => InQueue(id)
          /\ InQueue(id) => Sent(id) /\ relays[id] = 0

\* The queue is in order of priority, and first come first served within one.
QueueOrdered ==
    \A j, k \in DOMAIN queue :
        LET a == messages[queue[j]]
            b == messages[queue[k]]
        IN  j < k => (\/ a.priority < b.priority
                      \/ (a.priority = b.priority /\ a.order < b.order))

\* No message is relayed twice, also once a late batch marked it Expired; and the
\* totals, the operators' counts and the fees agree with the messages.
RelayBooks ==
    /\ \A id \in MessageId : relays[id] <= 1
    /\ \A id \in MessageId : Status(id) = "Relayed" => relays[id] = 1
    /\ total_relayed = SumFunction(relays)
    /\ total_relayed = SumFunction([o \in Operator |-> operators[o].messages_relayed])
    /\ total_messages = SumFunction(nonces)
    /\ total_fees = SumFunction([id \in MessageId |-> messages[id].fee])

\* Every message leaves the queue, relayed or cleaned up.
QueueDrains == \A id \in MessageId : InQueue(id) ~> ~InQueue(id)

=============================================================================
