---------------------------- MODULE ReserveVerifier ----------------------------
(***************************************************************************)
(* The bridge reserve verifier, soroban/src/bridge_reserve_verifier.rs:    *)
(* operators commit Merkle roots of their reserves, anybody may challenge  *)
(* a commitment within a window, and the administrator slashes.            *)
(*                                                                         *)
(* A call is one action, a panic undoes it.  now is the sequence number of *)
(* the ledger.  A hash is the sequence of what was hashed: <<leaf>> for a  *)
(* leaf and <<left, right>> for a node, so hashes collide only when their  *)
(* inputs are equal.  direct_slashes is history.                           *)
(*                                                                         *)
(* Left out: total reserves, times, the challenger, lifetimes of entries,  *)
(* events.                                                                 *)
(***************************************************************************)
EXTENDS Integers, Sequences, FiniteSets, SequencesExt

CONSTANTS
    Bridge, Leaf,
    Tree,               \* bound: committed trees, sequences of four leaves
    Windows, SlashAmounts, MinStakes,   \* bound: settings passed to the calls
    Stakes,             \* bound: initial stakes
    MaxCommitments,     \* bound: commitments of a bridge
    MaxSlashes,         \* bound: slashes of an operator
    MaxNow              \* bound: the ledger's sequence number

\* What the theorems suppose of the constants.
VerifierConstants ==
    /\ Windows \subseteq Nat /\ SlashAmounts \subseteq Int /\ MinStakes \subseteq Int
    /\ Stakes \subseteq Int /\ MaxNow \in Nat

VARIABLES now, settings, operators, commitments, direct_slashes

verifierVars == <<settings, operators, commitments, direct_slashes>>
vars == <<now, verifierVars>>

Settings == [challenge_period : Windows, slash_amount : SlashAmounts, min_stake : MinStakes]
NoOperator == [slash_count |-> -1]
Registered(b) == operators[b] # NoOperator

\* initialize refuses no setting, a negative amount neither.
Init ==
    /\ now = 0
    /\ settings \in Settings
    /\ operators = [b \in Bridge |-> NoOperator]
    /\ commitments = [b \in Bridge |-> <<>>]
    /\ direct_slashes = [b \in Bridge |-> 0]
-----------------------------------------------------------------------------
Node(left, right) == <<left, right>>
LeafHash(leaf) == <<leaf>>

\* The root of a tree of four leaves.
RootOf(tree) ==
    Node(Node(LeafHash(tree[1]), LeafHash(tree[2])), Node(LeafHash(tree[3]), LeafHash(tree[4])))

\* Mutant: the sides are taken from the whole index at every level.
ComputedRoot_Index(proof) ==
    FoldLeft(LAMBDA hash, sibling : IF proof.leaf_index % 2 = 0 THEN Node(hash, sibling)
                                                        ELSE Node(sibling, hash),
             proof.leaf_hash, proof.proof_path)

\* One level up: the index tells on which side the sibling is, and is halved.
Climbed(at, sibling) ==
    [hash |-> IF at.index % 2 = 0 THEN Node(at.hash, sibling) ELSE Node(sibling, at.hash),
     index |-> at.index \div 2]

\* verify_merkle_proof_internal: the hash reached from the leaf.
ComputedRoot(proof) ==
    FoldLeft(Climbed, [hash |-> proof.leaf_hash, index |-> proof.leaf_index], proof.proof_path).hash

Verifies(proof, root) == ComputedRoot(proof) = root

\* The proofs that can be made of the hashes of the committed trees.
Hashes(tree) ==
    {LeafHash(tree[k]) : k \in 1 .. 4}
      \cup {Node(LeafHash(tree[1]), LeafHash(tree[2])), Node(LeafHash(tree[3]), LeafHash(tree[4]))}
MerkleProof ==
    [leaf_hash : {LeafHash(x) : x \in Leaf},
     proof_path : [1 .. 2 -> UNION {Hashes(tree) : tree \in Tree}], leaf_index : 0 .. 4]
-----------------------------------------------------------------------------
UpdateConfig(new) ==
    /\ new.slash_amount >= 0 /\ new.min_stake >= 0
    /\ settings' = new
    /\ UNCHANGED <<now, operators, commitments, direct_slashes>>

RegisterBridge(b, stake) ==
    /\ ~Registered(b)
    /\ stake >= settings.min_stake
    /\ operators' = [operators EXCEPT ![b] = [stake |-> stake, is_active |-> TRUE, slash_count |-> 0]]
    /\ commitments' = [commitments EXCEPT ![b] = <<>>]
    /\ UNCHANGED <<now, settings, direct_slashes>>

CommitReserves(b, tree) ==
    /\ Registered(b)
    /\ operators[b].is_active
    /\ Len(commitments[b]) < MaxCommitments
    /\ commitments' = [commitments EXCEPT ![b] = Append(@,
          [merkle_root |-> RootOf(tree), committed_ledger |-> now, status |-> "Pending"])]
    /\ UNCHANGED <<now, settings, operators, direct_slashes>>

\* Whether the challenge window of c has passed, by the settings of today.
WindowPassed(c) == now > c.committed_ledger + settings.challenge_period

\* verify_proof of a proof that verifies; another changes nothing.
VerifyProof(b, n) ==
    /\ commitments[b][n].status = "Pending"
    /\ WindowPassed(commitments[b][n])
    /\ commitments' = [commitments EXCEPT ![b][n].status = "Verified"]
    /\ UNCHANGED <<now, settings, operators, direct_slashes>>

\* challenge_commitment with a proof that does not verify; another changes nothing.
ChallengeCommitment(b, n) ==
    /\ commitments[b][n].status = "Pending"
    /\ ~WindowPassed(commitments[b][n])
    /\ commitments' = [commitments EXCEPT ![b][n].status = "Challenged"]
    /\ UNCHANGED <<now, settings, operators, direct_slashes>>

\* slash_operator_internal: the operator goes inactive below the minimum stake of today; a
\* negative amount, which only initialize takes, adds to the stake.
Slashed(op) ==
    LET stake == IF op.stake >= settings.slash_amount THEN op.stake - settings.slash_amount ELSE 0
    IN  [stake |-> stake, slash_count |-> op.slash_count + 1,
         is_active |-> op.is_active /\ stake >= settings.min_stake]

\* Mutant: the status of the commitment is not asked for.
ResolveChallenge_Any(b, n, valid) ==
    /\ operators[b].slash_count < MaxSlashes
    /\ commitments' = [commitments EXCEPT ![b][n].status = IF valid THEN "Resolved" ELSE "Slashed"]
    /\ operators' = IF valid THEN operators ELSE [operators EXCEPT ![b] = Slashed(@)]
    /\ UNCHANGED <<now, settings, direct_slashes>>

ResolveChallenge(b, n, valid) ==
    /\ commitments[b][n].status = "Challenged"
    /\ operators[b].slash_count < MaxSlashes
    /\ commitments' = [commitments EXCEPT ![b][n].status = IF valid THEN "Resolved" ELSE "Slashed"]
    /\ operators' = IF valid THEN operators ELSE [operators EXCEPT ![b] = Slashed(@)]
    /\ UNCHANGED <<now, settings, direct_slashes>>

SlashOperator(b) ==
    /\ Registered(b)
    /\ operators[b].slash_count < MaxSlashes
    /\ operators' = [operators EXCEPT ![b] = Slashed(@)]
    /\ direct_slashes' = [direct_slashes EXCEPT ![b] = @ + 1]
    /\ UNCHANGED <<now, settings, commitments>>

Tick ==
    /\ now < MaxNow
    /\ now' = now + 1
    /\ UNCHANGED verifierVars

Next ==
    \/ \E new \in Settings : UpdateConfig(new)
    \/ \E b \in Bridge :
          \/ \E stake \in Stakes : RegisterBridge(b, stake)
          \/ \E tree \in Tree : CommitReserves(b, tree)
          \/ \E n \in DOMAIN commitments[b] :
                \/ VerifyProof(b, n) \/ ChallengeCommitment(b, n)
                \/ \E valid \in BOOLEAN : ResolveChallenge(b, n, valid)
          \/ SlashOperator(b)
    \/ Tick

Spec == Init /\ [][Next]_vars
-----------------------------------------------------------------------------
\* Each variable holds values of its type.
TypeOK ==
    /\ now \in 0 .. MaxNow
    /\ settings \in Settings
    /\ \A b \in Bridge :
          /\ Registered(b) => /\ operators[b].stake \in Int
                              /\ operators[b].slash_count > 0 => operators[b].stake >= 0
          /\ ~Registered(b) => commitments[b] = <<>>
          /\ \A n \in DOMAIN commitments[b] : commitments[b][n].status \in
                {"Pending", "Verified", "Challenged", "Slashed", "Resolved"}

\* An operator is slashed once for each commitment found wrong, however challenges,
\* resolutions and direct slashes of several commitments interleave, and it commits
\* nothing more once it is below the minimum.
SlashesCounted ==
    \A b \in Bridge : Registered(b) =>
        operators[b].slash_count =
            direct_slashes[b]
              + Cardinality({n \in DOMAIN commitments[b] : commitments[b][n].status = "Slashed"})

\* A proof of a leaf that verifies against a committed root names the leaf at its
\* position: "Even index = left child, odd index = right child", at every level.
ProofSound ==
    \A b \in Bridge, tree \in Tree : \A n \in DOMAIN commitments[b] :
        commitments[b][n].merkle_root = RootOf(tree) =>
            \A proof \in MerkleProof :
                Verifies(proof, commitments[b][n].merkle_root) =>
                    proof.leaf_hash = LeafHash(tree[(proof.leaf_index % 4) + 1])
=============================================================================
