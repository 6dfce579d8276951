------------------------------ MODULE LeafSet ------------------------------
(***************************************************************************)
(* What modify promises of the set of leaves, whatever forest holds it     *)
(* (MemForest::modify of src/mem_forest/mod.rs): the targets go one by one *)
(* in the order of the list, one that is gone already ends the call, only  *)
(* when all have gone do the new leaves come, and the answer is Ok only    *)
(* for a call that was carried out to the end.                             *)
(***************************************************************************)
EXTENDS Naturals, Sequences, NodeHash

VARIABLES
    members,    \* the leaves that are present
    added,      \* how many were ever added
    asked,      \* targets the call has still to delete
    growth,     \* leaves the call has still to add
    answer      \* what the last call returned

vars == <<members, added, asked, growth, answer>>

Init ==
    /\ members = {}
    /\ added = 0
    /\ asked = <<>>
    /\ growth = 0
    /\ answer = "None"

NothingLeftToDo == asked = <<>> /\ growth = 0

Call ==
    /\ NothingLeftToDo
    /\ asked' \in Seq(members)
    /\ growth' \in Nat
    /\ UNCHANGED <<members, added, answer>>

\* A target that was never there, or is not there any more.
Refuse ==
    /\ NothingLeftToDo
    /\ answer' = "Err"
    /\ UNCHANGED <<members, added, asked, growth>>

Delete ==
    /\ asked # <<>>
    /\ Head(asked) \in members
    /\ members' = members \ {Head(asked)}
    /\ asked' = Tail(asked)
    /\ UNCHANGED <<added, growth, answer>>

\* The target went earlier in the same call: nothing is added.
Abandon ==
    /\ asked # <<>>
    /\ Head(asked) \notin members
    /\ asked' = <<>>
    /\ growth' = 0
    /\ answer' = "Err"
    /\ UNCHANGED <<members, added>>

Add ==
    /\ asked = <<>>
    /\ growth > 0
    /\ members' = members \cup {LeafHash(added + 1)}
    /\ added' = added + 1
    /\ growth' = growth - 1
    /\ UNCHANGED <<asked, answer>>

Finish ==
    /\ NothingLeftToDo
    /\ answer' = "Ok"
    /\ UNCHANGED <<members, added, asked, growth>>

Next == Call \/ Refuse \/ Delete \/ Abandon \/ Add \/ Finish

Spec == Init /\ [][Next]_vars
=============================================================================
