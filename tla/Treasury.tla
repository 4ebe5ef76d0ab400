------------------------------- MODULE Treasury -------------------------------
(***************************************************************************)
(* The multi-signature treasury, soroban/src/multisig_treasury.rs: signers *)
(* propose transactions, sign them and cancel them, anyone asks for their  *)
(* execution (which no order of calls reaches, see SignaturesDecide), the  *)
(* administrator keeps the list of signers, the threshold and the list of  *)
(* assets.                                                                 *)
(*                                                                         *)
(* A call is one action.  initialize has no guard: a second call replaces  *)
(* the configuration and the counters and leaves the signers and the       *)
(* transactions on record.  SignerCount counts the entries of the list it  *)
(* was given, not the different accounts in it.                            *)
(*                                                                         *)
(* Left out: roles and weights, which no call reads, is_active, which no   *)
(* call clears, destinations, descriptions, the log, getters.  The native  *)
(* asset is listed from the start.                                         *)
(***************************************************************************)
EXTENDS Integers, Sequences, FiniteSets, Functions

CONSTANTS
    Account, Asset,
    Admins,             \* bound: accounts that call initialize
    Panels,             \* bound: lists of signers passed to it
    Configs,            \* bound: configurations passed to it
    Amounts,            \* bound: amounts of proposals
    SpendingLimit,      \* DEFAULT_SPENDING_LIMIT
    MaxSigners,         \* MAX_SIGNERS
    MaxNonce,           \* bound: transactions on record
    MaxNow              \* bound: the ledger timestamp

TransactionId == 1 .. MaxNonce

\* What the theorems suppose of the constants.
TreasuryConstants ==
    /\ Panels \subseteq Seq(Account)
    /\ Configs \subseteq [threshold : Nat, emergency_threshold : Nat, time_delay : Nat,
                          max_transactions_per_day : Nat,
                          require_emergency_approval : BOOLEAN]
    /\ Amounts \subseteq Nat /\ SpendingLimit \in Nat
    /\ MaxSigners \in Nat /\ MaxNonce \in Nat /\ MaxNow \in Nat

VARIABLES
    now,
    admin, config, signers, signer_count, whitelist,
    nonce, tx_count, transactions

treasuryVars == <<admin, config, signers, signer_count, whitelist, nonce, tx_count,
                  transactions>>
vars == <<now, treasuryVars>>

\* Executed and Expired are never reached: see SignaturesDecide.
Transaction ==
    [status : {"Pending", "Approved", "Executed", "Cancelled"}, creator : Account,
     asset : Asset, required_signatures : Nat, signers : SUBSET Account,
     execution_time : Nat]

NoTransaction == [status |-> "None"]

\* The state after the first initialize.
Init ==
    /\ now = 0
    /\ admin \in Admins
    /\ config \in Configs
    /\ \E panel \in Panels :
          /\ Len(panel) >= config.threshold
          /\ signers = Range(panel)
          /\ signer_count = Len(panel)
    /\ whitelist = {}
    /\ nonce = 0 /\ tx_count = 0
    /\ transactions = [id \in TransactionId |-> NoTransaction]
-----------------------------------------------------------------------------
Initialize(caller, panel, cfg) ==
    /\ caller \in Admins
    /\ Len(panel) >= cfg.threshold
    /\ admin' = caller
    /\ config' = cfg
    /\ nonce' = 0 /\ tx_count' = 0
    /\ signers' = signers \cup Range(panel)
    /\ signer_count' = Len(panel)
    /\ UNCHANGED <<now, whitelist, transactions>>

\* Mutant: the count decides before the signature is added.
Signed_Late(t, who) ==
    [t EXCEPT !.signers = @ \cup {who},
              !.status = IF Cardinality(t.signers) >= t.required_signatures
                         THEN "Approved" ELSE @]

\* The status of the transaction is not looked at.
Signed(t, who) ==
    [t EXCEPT !.signers = @ \cup {who},
              !.status = IF Cardinality(t.signers \cup {who}) >= t.required_signatures
                         THEN "Approved" ELSE @]

\* The creator signs at once.
ProposeTransaction(who, asset, amount, is_emergency) ==
    /\ nonce < MaxNonce
    /\ who \in signers
    /\ tx_count < config.max_transactions_per_day
    /\ nonce' = nonce + 1
    /\ tx_count' = tx_count + 1
    /\ transactions' = [transactions EXCEPT ![nonce + 1] = Signed(
          [status |-> "Pending", creator |-> who, asset |-> asset,
           required_signatures |-> IF is_emergency /\ config.require_emergency_approval
                                   THEN config.emergency_threshold
                                   ELSE config.threshold,
           signers |-> {},
           execution_time |-> now + (IF amount > SpendingLimit
                                     THEN config.time_delay ELSE 0)], who)]
    /\ UNCHANGED <<now, admin, config, signers, signer_count, whitelist>>

\* Mutant: it is not asked whether a signer calls.
SignTransaction_Anyone(who, id) ==
    /\ transactions[id] # NoTransaction
    /\ who \notin transactions[id].signers
    /\ transactions' = [transactions EXCEPT ![id] = Signed(@, who)]
    /\ UNCHANGED <<now, admin, config, signers, signer_count, whitelist, nonce, tx_count>>

SignTransaction(who, id) ==
    /\ transactions[id] # NoTransaction
    /\ who \in signers
    /\ who \notin transactions[id].signers
    /\ transactions' = [transactions EXCEPT ![id] = Signed(@, who)]
    /\ UNCHANGED <<now, admin, config, signers, signer_count, whitelist, nonce, tx_count>>

EnoughSignatures(t) == Cardinality(t.signers) >= t.required_signatures

\* Anyone may execute.
ExecuteTransaction(id) ==
    /\ transactions[id].status = "Pending"
    /\ EnoughSignatures(transactions[id])
    /\ now >= transactions[id].execution_time
    /\ transactions[id].asset \in whitelist
    /\ transactions' = [transactions EXCEPT ![id].status = "Executed"]
    /\ UNCHANGED <<now, admin, config, signers, signer_count, whitelist, nonce, tx_count>>

CancelTransaction(who, id) ==
    /\ transactions[id].status = "Pending"
    /\ who \in {transactions[id].creator, admin}
    /\ transactions' = [transactions EXCEPT ![id].status = "Cancelled"]
    /\ UNCHANGED <<now, admin, config, signers, signer_count, whitelist, nonce, tx_count>>

\* The administrator's calls.
AddSigner(who) ==
    /\ who \notin signers
    /\ signer_count < MaxSigners
    /\ signers' = signers \cup {who}
    /\ signer_count' = signer_count + 1
    /\ UNCHANGED <<now, admin, config, whitelist, nonce, tx_count, transactions>>

\* Mutant: the threshold is not looked at.
RemoveSigner_Unchecked(who) ==
    /\ who \in signers
    /\ signer_count > 0
    /\ signers' = signers \ {who}
    /\ signer_count' = signer_count - 1
    /\ UNCHANGED <<now, admin, config, whitelist, nonce, tx_count, transactions>>

RemoveSigner(who) ==
    /\ who \in signers
    /\ signer_count > 0
    /\ signer_count - 1 >= config.threshold
    /\ signers' = signers \ {who}
    /\ signer_count' = signer_count - 1
    /\ UNCHANGED <<now, admin, config, whitelist, nonce, tx_count, transactions>>

UpdateThreshold(threshold) ==
    /\ threshold \in 1 .. signer_count
    /\ config' = [config EXCEPT !.threshold = threshold]
    /\ UNCHANGED <<now, admin, signers, signer_count, whitelist, nonce, tx_count,
                   transactions>>

WhitelistAsset(asset, listed) ==
    /\ whitelist' = IF listed THEN whitelist \cup {asset} ELSE whitelist \ {asset}
    /\ UNCHANGED <<now, admin, config, signers, signer_count, nonce, tx_count, transactions>>

Tick ==
    /\ now < MaxNow
    /\ now' = now + 1
    /\ UNCHANGED treasuryVars

Next ==
    \/ \E who \in Account :
          \/ \E panel \in Panels, cfg \in Configs : Initialize(who, panel, cfg)
          \/ \E asset \in Asset, amount \in Amounts, urgent \in BOOLEAN :
                ProposeTransaction(who, asset, amount, urgent)
          \/ \E id \in TransactionId : SignTransaction(who, id) \/ CancelTransaction(who, id)
          \/ AddSigner(who) \/ RemoveSigner(who)
    \/ \E id \in TransactionId : ExecuteTransaction(id)
    \/ \E threshold \in 1 .. MaxSigners : UpdateThreshold(threshold)
    \/ \E asset \in Asset, listed \in BOOLEAN : WhitelistAsset(asset, listed)
    \/ Tick

Spec == Init /\ [][Next]_vars
-----------------------------------------------------------------------------
\* Each variable holds values of its type.
TypeOK ==
    /\ now \in 0 .. MaxNow
    /\ admin \in Admins
    /\ config.threshold \in Nat /\ config.emergency_threshold \in Nat
    /\ signers \subseteq Account /\ signer_count \in Nat
    /\ whitelist \subseteq Asset
    /\ nonce \in 0 .. MaxNonce /\ tx_count \in Nat
    /\ transactions \in [TransactionId -> Transaction \cup {NoTransaction}]

\* The signatures decide: a transaction still pending has fewer than it needs, an
\* approved one as many as were asked for when it was proposed, from that many
\* accounts.  As execute_transaction wants a pending transaction with enough of them,
\* no transaction is ever executed.
SignaturesDecide ==
    \A id \in TransactionId : transactions[id] # NoTransaction =>
        LET t == transactions[id]
        IN  /\ t.creator \in t.signers
            /\ t.status \in {"Pending", "Cancelled"} => ~EnoughSignatures(t)
            /\ t.status = "Approved" => EnoughSignatures(t)
            /\ t.status # "Executed"

\* However signers come and go and the threshold moves, the signers counted are as many
\* as the threshold in force.
ThresholdReachable == signer_count >= config.threshold

\* A new signature on a transaction on record is one account's that is a signer when it
\* is given, whoever else gave theirs before and has left since.
SignedBySigners ==
    [][\A id \in TransactionId :
          nonce' = nonce /\ transactions[id] # NoTransaction =>
              /\ transactions[id].signers \subseteq transactions'[id].signers
              /\ transactions'[id].signers \ transactions[id].signers \subseteq signers
              /\ transactions[id].status = "Approved" => transactions'[id].status = "Approved"]_vars

\* The documentation calls this a treasury of N-of-M "proposal, signature collection,
\* and execution": a transaction with its signatures, its delay over and its asset
\* listed can be executed.  It cannot.
SignedCanExecute ==
    \A id \in TransactionId :
        /\ transactions[id].status = "Approved"
        /\ now >= transactions[id].execution_time
        /\ transactions[id].asset \in whitelist
        => ENABLED ExecuteTransaction(id)
=============================================================================
