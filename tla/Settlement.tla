------------------------------ MODULE Settlement ------------------------------
(***************************************************************************)
(* What an escrow promises the two parties, without locks, votes, fees or  *)
(* switches: the abstract specification of module Escrow.                  *)
(*                                                                         *)
(* An escrow owes an amount.  While it is free it may pay the recipient    *)
(* parts of what it still owes; once in its life it may be frozen, after   *)
(* which it pays nothing until it is cleared; it may return all it owes to *)
(* the depositor; it closes for good when it owes nothing.  A rescue by    *)
(* the administrator may only lower what is owed.                          *)
(***************************************************************************)
EXTENDS Integers

CONSTANT Id

VARIABLES stage, owed, received, returned

vars == <<stage, owed, received, returned>>

Free == {"fresh", "cleared"}

TypeOK ==
    /\ stage \in [Id -> Free \cup {"none", "frozen", "closed"}]
    /\ owed \in [Id -> Nat]
    /\ received \in [Id -> Nat]
    /\ returned \in [Id -> Nat]

Init ==
    /\ stage = [id \in Id |-> "none"]
    /\ owed = [id \in Id |-> 0]
    /\ received = [id \in Id |-> 0]
    /\ returned = [id \in Id |-> 0]

\* id alone changes stage, to s, and then owes n.
Becomes(id, s, n) ==
    /\ stage' = [stage EXCEPT ![id] = s]
    /\ owed' = [owed EXCEPT ![id] = n]

Start(id) ==
    /\ stage[id] = "none"
    /\ owed'[id] > 0
    /\ Becomes(id, "fresh", owed'[id])
    /\ UNCHANGED <<received, returned>>

Freeze(id) ==
    /\ stage[id] = "fresh"
    /\ Becomes(id, "frozen", owed[id])
    /\ UNCHANGED <<received, returned>>

Clear(id) ==
    /\ stage[id] = "frozen"
    /\ Becomes(id, "cleared", owed[id])
    /\ UNCHANGED <<received, returned>>

\* Some free escrows each pay their recipient part of what they owe.
Pay ==
    LET payers == {id \in Id : received'[id] # received[id]}
        part(id) == received'[id] - received[id]
    IN  /\ payers # {}
        /\ \A id \in payers : stage[id] \in Free /\ part(id) \in 1 .. owed[id]
        /\ received' = [id \in Id |-> received'[id]]
        /\ owed' = [id \in Id |-> owed[id] - part(id)]
        /\ stage' = [id \in Id |-> IF id \in payers /\ owed[id] = part(id)
                                   THEN "closed" ELSE stage[id]]
        /\ UNCHANGED returned

Return(id) ==
    /\ stage[id] \in Free \cup {"frozen"}
    /\ Becomes(id, "closed", 0)
    /\ returned' = [returned EXCEPT ![id] = @ + owed[id]]
    /\ UNCHANGED received

Rescue(id) ==
    /\ stage[id] \in Free \cup {"frozen"}
    /\ owed'[id] \in 0 .. owed[id]
    /\ Becomes(id, IF owed'[id] = 0 THEN "closed" ELSE stage[id], owed'[id])
    /\ UNCHANGED <<received, returned>>

Next ==
    \/ Pay
    \/ \E id \in Id : Start(id) \/ Freeze(id) \/ Clear(id) \/ Return(id) \/ Rescue(id)

Spec == Init /\ [][Next]_vars
=============================================================================
