---------------------------- MODULE CachedProof ----------------------------
(***************************************************************************)
(* Proofs that are kept (src/proof/mod.rs): Proof::update brings a proof of*)
(* cached leaves over a block, from the update data of Stump::modify;      *)
(* get_proof_subset narrows it to some of its leaves.                      *)
(*                                                                         *)
(* Here the targets of a cached proof are positions in the forest as high  *)
(* as it is, as update leaves them; verify and modify take them as well,   *)
(* since translate leaves positions below 2^MaxForestRows alone.           *)
(***************************************************************************)
EXTENDS Stump

UpdateError == [error |-> TRUE, proof |-> NoProof, hashes |-> <<>>]

Positions(nodes) == [i \in 1..Len(nodes) |-> nodes[i].pos]
Hashes(nodes)    == [i \in 1..Len(nodes) |-> nodes[i].hash]

\* What nodes.iter().find(..) finds at a position.
Listed(nodes, pos) == \E i \in 1..Len(nodes) : nodes[i].pos = pos
Found(nodes, pos)  == Head(SelectSeq(nodes, LAMBDA node : node.pos = pos)).hash

NotEmpty(nodes) == SelectSeq(nodes, LAMBDA node : ~ IsEmpty(node.hash))

\* new_add, which modify collects from a BTreeSet.
NewNodes(newAdd) == SortNodes(Listing({[pos |-> p[1], hash |-> p[2]] : p \in newAdd}))

-----------------------------------------------------------------------------
(***************************************************************************)
(* detwin: twins are replaced by their parent, which joins the end of the  *)
(* list.  Only neighbours in the list are twins.  Each turn shortens it, so*)
(* one turn for each of the nodes is enough.                               *)
(***************************************************************************)
Detwin(nodes, rows) ==
    LET Pair(st, node) ==
            LET rest == Tail(Tail(st.computed))
                parent == Parent(node, rows)
            IN  [st EXCEPT !.computed = IF parent \in ToSet(Tail(st.computed)) THEN rest ELSE Append(rest, parent)]
        Turn(st, i) ==
            IF st.computed = <<>> THEN st
            ELSE IF Len(st.computed) > 1 /\ st.computed[2] = Sibling(st.computed[1])
                 THEN Pair(st, st.computed[1])
                 ELSE [computed |-> Tail(st.computed), detwinned |-> Append(st.detwinned, st.computed[1])]
    IN  FoldLeft(Turn, [computed |-> nodes, detwinned |-> <<>>], nodes).detwinned

(***************************************************************************)
(* calc_next_positions: nodes rise as the targets are deleted; a node stops*)
(* when it becomes a root.  (append_roots is true in every call.)          *)
(***************************************************************************)
Raised(pos, gone, n) ==
    LET rows == TreeRows(n)
        Rise(p, target) ==
            IF \/ p = NoPosition
               \/ IsRootPosition(p, n, rows)
               \/ DetectOffset(target, n).tree # DetectOffset(p, n).tree
               \/ ~ IsAncestor(Parent(target, rows), p, rows)
            THEN p ELSE CalcNextPos(p, target, rows)
    IN  FoldLeft(Rise, pos, gone)

CalcNextPositions(targets, nodes, n) ==
    LET Moved(there, gone) == [k \in 1..Len(there) |-> [there[k] EXCEPT !.pos = Raised(@, gone, n)]]
        Result(sorted)     == [error |-> Listed(sorted, NoPosition), nodes |-> sorted]
    IN  Result(SortNodes(Moved(NotEmpty(nodes), Detwin(targets, TreeRows(n)))))

-----------------------------------------------------------------------------
(***************************************************************************)
(* update_proof_remove.                                                    *)
(***************************************************************************)
\* Fault: the hash is the one from before the block.
AsBefore(node, updated) == node

\* A node with the hash it has after the deletion.
AsUpdated(node, updated) ==
    IF Listed(updated, node.pos) THEN [node EXCEPT !.hash = Found(updated, node.pos)] ELSE node

UpdateProofRemove(proof, cachedHashes, targets, updated, n) ==
    LET rows   == TreeRows(n)
        cached == SelectSeq(Zip2(proof.targets, cachedHashes), LAMBDA node : node.pos \notin ToSet(targets))
        oldPositions == GetProofPositions(ToSet(proof.targets), n, rows)
        needed == ProofPositionSet(ToSet(Positions(cached)), n, rows)
        \* Old elements that are still needed, and those that could be
        \* computed as long as there were more targets.
        kept    == SelectSeq(Zip2(oldPositions, proof.hashes), LAMBDA node : node.pos \in needed)
        missing == {p \in needed : Listed(updated, p)} \ (ToSet(oldPositions) \cup ToSet(targets))
        blank   == [i \in 1..Cardinality(missing) |-> [pos |-> Ascending(missing)[i], hash |-> Empty]]
        now     == [i \in 1..Len(kept \o blank) |-> AsUpdated((kept \o blank)[i], updated)]
    IN  [elements |-> CalcNextPositions(targets, NotEmpty(now), n),
         cached   |-> CalcNextPositions(targets, cached, n)]

-----------------------------------------------------------------------------
(***************************************************************************)
(* update_proof_add.                                                       *)
(***************************************************************************)
\* Fault: positions above row 0 are not renumbered when the forest grows.
NeverRemapped(n, adds, nodes) == nodes

MaybeRemap(n, adds, nodes) ==
    [i \in 1..Len(nodes) |-> [nodes[i] EXCEPT !.pos = Translate(@, TreeRows(n), TreeRows(n + adds))]]

\* The cached leaves among the new ones.  All are looked up with a single
\* iterator over the new nodes: a search goes on where the last one stopped.
Remember(remembers, adds, newNodes) ==
    LET Look(st, r) ==
            LET hits == {i \in st.next..Len(newNodes) : newNodes[i].hash = adds[r + 1]}
                i    == CHOOSE j \in hits : \A k \in hits : j <= k
            IN  IF r >= Len(adds) THEN st
                ELSE IF hits = {} THEN [st EXCEPT !.next = Len(newNodes) + 1]
                ELSE [next |-> i + 1, nodes |-> Append(st.nodes, newNodes[i])]
    IN  FoldLeft(Look, [next |-> 1, nodes |-> <<>>], remembers).nodes

UpdateProofAdd(elements, cached, adds, remembers, newNodes, n, toDestroy) ==
    LET after == n + Len(adds)
        rows  == TreeRows(after)
        Move(st, root) == [CalcNextPositions(<<root>>, st.nodes, after) EXCEPT !.error = @ \/ st.error]
        Moved(nodes) == FoldLeft(Move, [error |-> FALSE, nodes |-> SortNodes(MaybeRemap(n, Len(adds), nodes))], toDestroy)
        old     == Moved(elements)
        moved   == Moved(cached)
        targets == SortNodes(moved.nodes \o Remember(remembers, adds, newNodes))
        needed  == GetProofPositions(ToSet(Positions(targets)), after, rows)
        taken   == SelectSeq(needed, LAMBDA p : Listed(newNodes, p))
        fresh   == [i \in 1..Len(taken) |-> [pos |-> taken[i], hash |-> Found(newNodes, taken[i])]]
        MissingProofHash == \E p \in ToSet(needed) : ~ Listed(newNodes, p) /\ ~ Listed(old.nodes, p)
    IN  IF old.error \/ moved.error \/ MissingProofHash THEN UpdateError
        ELSE [error  |-> FALSE,
              proof  |-> [targets |-> Positions(targets), hashes |-> Hashes(SortNodes(old.nodes \o fresh))],
              hashes |-> Hashes(targets)]

(***************************************************************************)
(* update: between its halves the proof is hashes without positions, and   *)
(* the second half works the positions out again.                          *)
(***************************************************************************)
Update(proof, cachedHashes, adds, targets, remembers, update) ==
    LET n       == update.prevLeaves
        removed == UpdateProofRemove(proof, cachedHashes, targets, update.newDel, n)
        cached  == removed.cached.nodes
        between == GetProofPositions(ToSet(Positions(cached)), n, TreeRows(n))
    IN  IF removed.elements.error \/ removed.cached.error THEN UpdateError
        ELSE UpdateProofAdd(Zip2(between, Hashes(removed.elements.nodes)), cached, adds, remembers,
                            NewNodes(update.newAdd), n, update.toDestroy)

-----------------------------------------------------------------------------
(***************************************************************************)
(* get_proof_subset: the hashes are those of the proof and those computed  *)
(* from it; a needed one that is in neither is left out.                   *)
(***************************************************************************)
\* Fault: only the elements of the old proof are used.
SubsetOfElements(proof, hashes, newTargets, n) ==
    LET rows   == TreeRows(n)
        old    == Zip2(GetProofPositions(ToSet(proof.targets), n, rows), proof.hashes)
        needed == SelectSeq(GetProofPositions(ToSet(newTargets), n, rows), LAMBDA p : Listed(old, p))
    IN  [error |-> FALSE, proof |-> [targets |-> newTargets, hashes |-> [i \in 1..Len(needed) |-> Found(old, needed[i])]]]

GetProofSubset(proof, hashes, newTargets, n) ==
    LET rows   == TreeRows(n)
        calc   == CalculateHashes(proof, hashes, n)
        known  == calc.nodes \o Zip2(GetProofPositions(ToSet(proof.targets), n, rows), proof.hashes)
        needed == SelectSeq(GetProofPositions(ToSet(newTargets), n, rows), LAMBDA p : Listed(known, p))
    IN  IF calc.error THEN [error |-> TRUE, proof |-> NoProof]
        ELSE [error |-> FALSE,
              proof |-> [targets |-> newTargets,
                         hashes  |-> [i \in 1..Len(needed) |-> Found(known, needed[i])]]]

-----------------------------------------------------------------------------
(***************************************************************************)
(* serialize and deserialize.                                              *)
(***************************************************************************)
ProofSerialize(proof) ==
    <<Len(proof.targets)>> \o proof.targets \o <<Len(proof.hashes)>>
        \o FlattenSeq([i \in 1..Len(proof.hashes) |-> WriteHash(proof.hashes[i])])

ProofDeserialize(in) ==
    LET targets == in[1]
        count   == in[targets + 2]
        Read(acc, i) == LET r == ReadHash(acc.rest)
                        IN  [hashes |-> Append(acc.hashes, r.hash), rest |-> r.rest]
        start == [hashes |-> <<>>, rest |-> SubSeq(in, targets + 3, Len(in))]
    IN  [targets |-> SubSeq(in, 2, targets + 1),
         hashes  |-> FoldLeft(Read, start, [i \in 1..count |-> i]).hashes]
=============================================================================
