---------------------------- MODULE MCStumpNode ----------------------------
(***************************************************************************)
(* The properties of StumpNode.                                            *)
(***************************************************************************)
EXTENDS StumpNode

\* The two accumulators agree after any history of blocks, stale proofs,
\* reorganisations and restarts: the stump's roots are those of the forest.
StumpFollowsForest == stump = [leaves |-> leaves, roots |-> roots]

\* modify is never talked into deleting a leaf that is not there: whatever
\* the age of the proof, if the stump accepts it then the hashes it was given
\* are of its members, and they are the only leaves that go.
OnlyMembersAreDeleted ==
    [][ BlockWithHeldProof /\ update'.ok =>
            /\ Members(held.hashes) \subseteq Members(stump.roots)
            /\ stump'.roots = Deletion(stump.roots, Members(held.hashes)) ]_vars

\* Proof::verify tells a valid proof from one that is not: what it accepts,
\* however old, is a proof of leaves that are there.
VerifyIsSound ==
    StumpVerify(stump, held.proof, held.hashes) = "valid" =>
        ToSet(held.hashes) \subseteq Members(roots)

\* The same of a proof of one leaf.
SingleProofIsSound == Len(held.hashes) = 1 => VerifyIsSound

\* Proof::verify accepts the proof that the forest makes of any of its leaves.
Verifies(targets) == StumpVerify(stump, ProofOf(roots, leaves, targets), targets) = "valid"

VerifyIsComplete == \A h \in Members(roots) : Verifies(<<h>>)

\* The same of the leaves that no deletion has moved up, alone or in pairs.
FirstRowVerifies ==
    LET nodes == NodesOf(roots, leaves)
        first == {h \in Members(roots) : PositionIn(nodes, h) < leaves}
    IN  \A a, b \in first : Verifies(IF a = b THEN <<a>> ELSE <<a, b>>)

\* The last block added one leaf at most, or found no emptied tree.
LastBlockWasSimple ==
    \A old \in previous :
        ~ BatchOverEmpty(old.roots, Members(old.roots) \ Members(roots), leaves - old.leaves)

\* Every node modify reports as new is in the forest, where it says it is:
\* cached proofs take their hashes from this report.
NewNodesAreWhereTheySay ==
    update.ok /\ LastBlockWasSimple => update.newAdd \subseteq NodesOf(roots, leaves)

\* modify reports as destroyed the empty roots that its additions wrote over,
\* and no others, at their positions in the forest it leaves.
DestroyedRootsReported ==
    \A old \in previous :
        LET rows  == RootRows(old.leaves)
            gone  == Members(old.roots) \ Members(roots)
            after == Deletion(old.roots, gone)
            overwritten == {i \in 1..Len(after) :
                                /\ after[i] = Empty
                                /\ old.leaves \div 2^(rows[i] + 1) # leaves \div 2^(rows[i] + 1)}
        IN  update.ok /\ LastBlockWasSimple => ToSet(update.toDestroy) =
                {RootPosition(old.leaves, rows[i], TreeRows(leaves)) : i \in overwritten}
=============================================================================
