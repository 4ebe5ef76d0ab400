---------------------------- MODULE ApprovedAction ----------------------------
(***************************************************************************)
(* What the contracts that let several accounts decide promise: an action  *)
(* runs at most once for each time it is proposed, after as many different *)
(* accounts voted for it as were asked for when it was proposed, and not   *)
(* before the time set then.  The abstract specification of the recoveries *)
(* of FundRecovery and of the upgrades of BridgeAdmin.                     *)
(***************************************************************************)
EXTENDS Integers, FiniteSets

CONSTANTS Id, Voter     \* places for a proposed action, and who may vote

VARIABLES
    clock,
    open,               \* the places with an action that may still run
    votes, needed, ripe,
    runs                \* how many actions have run

actionVars == <<clock, open, votes, needed, ripe, runs>>

Init ==
    /\ clock = 0
    /\ open = {}
    /\ votes = [id \in Id |-> {}]
    /\ needed = [id \in Id |-> 0]
    /\ ripe = [id \in Id |-> 0]
    /\ runs = 0

\* What is proposed takes the place of what was.
Propose(id) ==
    /\ needed'[id] > 0 /\ ripe'[id] >= clock
    /\ open' = open \cup {id}
    /\ \E first \in {{}} \cup {{v} : v \in Voter} : votes' = [votes EXCEPT ![id] = first]
    /\ needed' = [needed EXCEPT ![id] = needed'[id]]
    /\ ripe' = [ripe EXCEPT ![id] = ripe'[id]]
    /\ UNCHANGED <<clock, runs>>

Vote(id) ==
    /\ id \in open
    /\ \E v \in Voter \ votes[id] : votes' = [votes EXCEPT ![id] = @ \cup {v}]
    /\ UNCHANGED <<clock, open, needed, ripe, runs>>

Close(id) ==
    /\ id \in open
    /\ open' = open \ {id}
    /\ votes' = [votes EXCEPT ![id] = {}]
    /\ needed' = [needed EXCEPT ![id] = 0]
    /\ ripe' = [ripe EXCEPT ![id] = 0]
    /\ UNCHANGED clock

Run(id) ==
    /\ Cardinality(votes[id]) >= needed[id]
    /\ clock >= ripe[id]
    /\ Close(id)
    /\ runs' = runs + 1

Drop(id) == Close(id) /\ UNCHANGED runs

Wait == clock' > clock /\ UNCHANGED <<open, votes, needed, ripe, runs>>

Next ==
    \/ \E id \in Id : Propose(id) \/ Vote(id) \/ Run(id) \/ Drop(id)
    \/ Wait

Spec == Init /\ [][Next]_actionVars
=============================================================================
