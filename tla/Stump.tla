------------------------------- MODULE Stump -------------------------------
(***************************************************************************)
(* The compact accumulator (src/stump/mod.rs): the number of leaves and    *)
(* the hashes of the roots, biggest tree first.  modify does not change    *)
(* the stump it is called on; it returns a new one, or an error.           *)
(***************************************************************************)
EXTENDS UtreexoProof

NewStump == [leaves |-> 0, roots |-> <<>>]

\* Trailing one bits of n: the rows `while (leaves >> h) & 1 == 1` goes through.
MergedRows(n) == CHOOSE k \in 0..Width : Bit(n, k) = 0 /\ \A h \in 0..(k - 1) : Bit(n, h) = 1

-----------------------------------------------------------------------------
(***************************************************************************)
(* remove: the roots the deletion touches, as they are and as they will be.*)
(* With nothing to delete the proof is not looked at.                      *)
(***************************************************************************)
StumpRemove(s, delHashes, proof) ==
    LET pairs == [i \in 1..Len(delHashes) |-> [old |-> delHashes[i], new |-> Empty]]
        same  == [i \in 1..Len(s.roots) |-> [old |-> s.roots[i], new |-> s.roots[i]]]
    IN  IF delHashes = <<>> THEN [error |-> FALSE, nodes |-> <<>>, roots |-> same]
        ELSE CalculateHashesDelete(proof, pairs, s.leaves)

\* Each root takes the new value of the first computed root that has its
\* old value; `left` is what no root has taken.
MatchRoot(st, root) ==
    LET hits == {i \in 1..Len(st.left) : st.left[i].old = root}
        pos  == CHOOSE i \in hits : \A j \in hits : i <= j
    IN  IF hits = {} THEN [st EXCEPT !.roots = Append(@, root)]
        ELSE [left |-> RemoveAt(st.left, pos), roots |-> Append(st.roots, st.left[pos].new)]

ReplaceRoots(roots, computed) ==
    LET replaced[k \in 0..Len(roots)] ==
            IF k = 0 THEN [left |-> computed, roots |-> <<>>]
            ELSE MatchRoot(replaced[k - 1], roots[k])
    IN  replaced[Len(roots)]

-----------------------------------------------------------------------------
(***************************************************************************)
(* add: merge the new leaves in, one by one, recording the nodes that are  *)
(* created or used on the way, at their positions in the final forest.     *)
(***************************************************************************)

\* Fault: the leaf does not rise.
NotRaised(pos, destroyed, rows) == pos

\* Where the new leaf is, once the empty roots it will be merged over have
\* let it rise.
RaisedOver(pos, destroyed, rows) ==
    LET Raise(p, del) == IF IsAncestor(Parent(del, rows), p, rows) THEN CalcNextPos(p, del, rows) ELSE p
    IN  FoldLeft(Raise, pos, destroyed)

\* Merge with the root on top of the stack, if there is one and it is not empty.
MergeUp(st, rows) ==
    IF st.roots = <<>> THEN st
    ELSE LET root == Last(st.roots)
         IN  IF IsEmpty(root) THEN [st EXCEPT !.roots = Front(@)]
             ELSE [roots   |-> Front(st.roots),
                   hash    |-> ParentHash(root, st.hash),
                   pos     |-> Parent(st.pos, rows),
                   updated |-> st.updated \cup {<<LeftSibling(st.pos), root>>, <<st.pos, st.hash>>}]

PlaceLeaf(st, leaf, adds, i, leaves, rows) ==
    [roots   |-> st.roots,
     hash    |-> leaf,
     pos     |-> RaisedOver(leaves, RootsToDestroy(adds - i + 1, leaves, st.roots), rows),
     updated |-> st.updated]

MergeLeaf(start, leaves, rows) ==
    LET merged[h \in 0..MergedRows(leaves)] ==
            IF h = 0 THEN start ELSE MergeUp(merged[h - 1], rows)
    IN  merged[MergedRows(leaves)]

AddLeaf(st, leaf, adds, i, leaves, rows) ==
    LET top == MergeLeaf(PlaceLeaf(st, leaf, adds, i, leaves, rows), leaves, rows)
    IN  [roots |-> Append(top.roots, top.hash), updated |-> top.updated \cup {<<top.pos, top.hash>>}]

StumpAdd(roots, utxos, leaves) ==
    LET adds == Len(utxos)
        rows == TreeRows(leaves + adds)
        grown[i \in 0..adds] ==
            IF i = 0 THEN [roots |-> roots, updated |-> {}]
            ELSE AddLeaf(grown[i - 1], utxos[i], adds, i, leaves + i - 1, rows)
        done == grown[adds]
    IN  [roots     |-> done.roots,
         updated   |-> done.updated,
         destroyed |-> RootsToDestroy(adds, leaves, roots)]

-----------------------------------------------------------------------------
(***************************************************************************)
(* modify: the new stump and the UpdateData its caller updates cached      *)
(* proofs with, or an error.                                               *)
(***************************************************************************)
\* Fault: roots that were computed and are not there do not matter.
StumpModifyUnchecked(s, utxos, delHashes, proof) ==
    LET removed  == StumpRemove(s, delHashes, proof)
        replaced == ReplaceRoots(s.roots, removed.roots)
        added    == StumpAdd(replaced.roots, utxos, s.leaves)
    IN  IF removed.error THEN [ok |-> FALSE]
        ELSE [ok |-> TRUE, stump |-> [leaves |-> s.leaves + Len(utxos), roots |-> added.roots],
              newAdd |-> added.updated, prevLeaves |-> s.leaves,
              toDestroy |-> added.destroyed, newDel |-> removed.nodes]

StumpModify(s, utxos, delHashes, proof) ==
    LET removed  == StumpRemove(s, delHashes, proof)
        replaced == ReplaceRoots(s.roots, removed.roots)
        added    == StumpAdd(replaced.roots, utxos, s.leaves)
    IN  IF removed.error THEN [ok |-> FALSE]
        ELSE IF replaced.left # <<>> THEN [ok |-> FALSE]
        ELSE [ok        |-> TRUE,
              stump     |-> [leaves |-> s.leaves + Len(utxos), roots |-> added.roots],
              newAdd    |-> added.updated,
              prevLeaves |-> s.leaves,
              toDestroy |-> added.destroyed,
              newDel    |-> removed.nodes]

StumpVerify(s, proof, delHashes) == Verify(proof, delHashes, s.roots, s.leaves)

-----------------------------------------------------------------------------
(***************************************************************************)
(* serialize and deserialize.                                              *)
(***************************************************************************)
StumpSerialize(s) ==
    <<s.leaves, Len(s.roots)>> \o FlattenSeq([i \in 1..Len(s.roots) |-> WriteHash(s.roots[i])])

ReadRoot(st) ==
    LET r == ReadHash(st.rest) IN [roots |-> Append(st.roots, r.hash), rest |-> r.rest]

StumpDeserialize(in) ==
    LET read[i \in 0..in[2]] ==
            IF i = 0 THEN [roots |-> <<>>, rest |-> SubSeq(in, 3, Len(in))] ELSE ReadRoot(read[i - 1])
    IN  [leaves |-> in[1], roots |-> read[in[2]].roots]
=============================================================================
