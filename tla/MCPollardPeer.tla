--------------------------- MODULE MCPollardPeer ---------------------------
(***************************************************************************)
(* The properties of PollardPeer.                                          *)
(***************************************************************************)
EXTENDS PollardPeer

\* The root that the forest has at each row, or none.
ForestRoots ==
    LET rows == RootRows(leaves)
    IN  [r \in Rows |-> {roots[i] : i \in {j \in 1..Len(rows) : rows[j] = r}}]

HasTheRoots(p) ==
    /\ p.leaves = leaves
    /\ [r \in Rows |-> {HashOf(p, n) : n \in {p.roots[r]} \ {Nobody}}] = ForestRoots

\* The pollard's roots are the forest's, row by row, after any history of
\* blocks, ingested proofs, prunings and restarts.
PollardFollowsForest == HasTheRoots(pollard)

\* Whatever else is cached is the forest's too: every node that is
\* allocated is found at the position of some node of the forest, and has
\* its hash, and so has its sibling.
CachedNodesAreTheForests ==
    LET nodes == NodesOf(roots, leaves)
        At(pos) == GrabPosition(pollard, pos)
        cached == {x \in nodes : At(x[1]) # Missing}
    IN  /\ DOMAIN pollard.heap = {At(x[1]).node : x \in cached}
        /\ \A x \in cached : HashOf(pollard, At(x[1]).node) = x[2]

\* Every node is owned by exactly one other, its aunt, or by the pollard if
\* it is a root: no branch is shared, leaked or left without the way up.
OwnedByTheAunt ==
    \A n \in DOMAIN pollard.heap :
        LET owners == {m \in DOMAIN pollard.heap : n \in Nieces(pollard, m)}
        IN  IF n \in RootNodes(pollard) THEN owners = {} /\ Aunt(pollard, n) = Nobody
            ELSE owners = {Aunt(pollard, n)}

\* What batch_proof proves, of one leaf or of two, is what the forest would
\* prove: it fails rather than serve a proof of what is gone or moved.
MappedLeaves == {h \in DOMAIN pollard.map : IsLeafHash(h)}

ProofsAreTheForests ==
    \A a, b \in MappedLeaves :
        LET targets == IF a = b THEN <<a>> ELSE <<a, b>>
            made    == BatchProof(pollard, targets)
        IN  made.ok =>
                /\ ToSet(targets) \subseteq Members(roots)
                /\ made.proof = ProofOf(roots, leaves, targets)

\* A proof made for a leaf by prove_single is accepted by the pollard itself.
SingleProofsVerify ==
    \A h \in MappedLeaves :
        LET made == ProveSingle(pollard, h)
        IN  made.ok => PollardVerify(pollard, made.proof, <<h>>) = "valid"

\* After a restart every leaf can be proved that could be before, if it owns
\* no nieces: one that does, because a deletion moved it up beside a branch,
\* is written as a branch and does not come back into the map.
RestartForgetsNothing ==
    \E reloaded \in {PollardDeserialize(PollardSerialize(pollard))} :
        \A h \in MappedLeaves :
            Provable(pollard, h) /\ Nieces(pollard, pollard.map[h]) = {}
                => BatchProof(reloaded, <<h>>) = BatchProof(pollard, <<h>>)

\* No call fails half way or panics on what a peer legitimately asks for:
\* only a proof over several trees, to remember all it is about, is refused (by
\* verify_and_ingest), before anything is changed.
CallsSucceed ==
    [][ \/ last'.status = "ok"
        \/ /\ last'.status = "error" /\ UNCHANGED <<roots, leaves, pollard>>
           /\ last'.remembered = last'.about
           /\ Cardinality({t \in ToSet(roots) : LeavesOf(t) \cap last'.about # {}}) > 1 ]_vars

\* A leaf that is new and remembered, or was ingested to be remembered along
\* with all of its proof's targets, can be proved as soon as the call returns.
\* Roots are the exception: to ingest one is to replace its node.
RememberedCanBeProved ==
    [][ last'.status = "ok" /\ (last'.about = last'.remembered \/ leaves' > leaves) =>
            \A h \in last'.remembered : h \in ToSet(roots') \/ Provable(pollard', h) ]_vars

\* A call leaves alone the branches of the trees it is not about: what is
\* remembered and can be proved there still can.  (RestartForgetsNothing is
\* what a restart keeps.)
TreeOf(h) == CHOOSE t \in ToSet(roots) : h \in LeavesOf(t)

OtherTreesAreKept ==
    [][ Restart \/ \A h \in MappedLeaves \cap Members(roots) :
            /\ LeavesOf(TreeOf(h)) \cap last'.about = {}
            /\ Provable(pollard, h)
            /\ pollard.heap[pollard.map[h]].remember
            => Provable(pollard', h) ]_vars

\* The peer can prove every leaf it was asked to keep.
KeepsWhatItWasAsked == \A h \in wanted : Provable(pollard, h)

\* A pollard made from a stump that follows the forest has its roots.
StartsFromStump == HasTheRoots(FromStump([roots |-> roots, leaves |-> leaves]))
=============================================================================
