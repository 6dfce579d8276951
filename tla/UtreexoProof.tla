---------------------------- MODULE UtreexoProof ----------------------------
(***************************************************************************)
(* Inclusion proofs (src/proof/mod.rs): a proof is the positions of its    *)
(* targets, in a forest of MaxForestRows rows, and the hashes that cannot  *)
(* be computed from the targets.                                           *)
(***************************************************************************)
EXTENDS ForestPositions, TLC

NoProof == [targets |-> <<>>, hashes |-> <<>>]

Zip2(positions, hashes) ==
    [i \in 1..Min({Len(positions), Len(hashes)}) |-> [pos |-> positions[i], hash |-> hashes[i]]]

\* Fault: the nodes are used in the order they come.
NodesAsGiven(nodes) == nodes

\* nodes.sort(): by position.  A proof that the forest makes has one hash for
\* a position; the code sorts several by their bytes, here they stay as they come.
InsertNode(sorted, node) ==
    InsertAt(sorted, 1 + Cardinality({i \in 1..Len(sorted) : sorted[i].pos <= node.pos}), node)

SortNodes(nodes) ==
    LET sorted[k \in 0..Len(nodes)] == IF k = 0 THEN <<>> ELSE InsertNode(sorted[k - 1], nodes[k])
    IN  sorted[Len(nodes)]

-----------------------------------------------------------------------------
(***************************************************************************)
(* The hashing loop shared by calculate_hashes and calculate_hashes_delete.*)
(*                                                                         *)
(* get_next merges two ascending queues, the provided nodes and the parents*)
(* computed so far, and prefers the provided one at equal positions; the   *)
(* state has how far it is in each.  Each turn takes a node that is a root,*)
(* or a node and its right sibling, and computes their parent; Join says   *)
(* what its hash is.  A turn leaves one node less than it found, so        *)
(* Len(nodes) turns are enough.                                            *)
(***************************************************************************)
Exhausted(nodes, st) == st.provided = Len(nodes) /\ st.computed = Len(st.parents)

TakesComputed(nodes, st) ==
    /\ st.computed # Len(st.parents)
    /\ \/ st.provided = Len(nodes)
       \/ st.parents[st.computed + 1].pos < nodes[st.provided + 1].pos

GetNext(nodes, st) ==
    IF TakesComputed(nodes, st) THEN st.parents[st.computed + 1] ELSE nodes[st.provided + 1]

Advance(nodes, st) ==
    IF TakesComputed(nodes, st) THEN [st EXCEPT !.computed = @ + 1] ELSE [st EXCEPT !.provided = @ + 1]

HashPair(nodes, st, left, rows, Join(_, _)) ==
    LET right  == GetNext(nodes, st)
        parent == [pos |-> Parent(left.pos, rows), hash |-> Join(left.hash, right.hash)]
    IN  IF Exhausted(nodes, st) THEN [st EXCEPT !.error = TRUE]
        ELSE IF right.pos # RightSibling(left.pos) THEN [st EXCEPT !.error = TRUE]
        ELSE [Advance(nodes, st) EXCEPT !.parents = Append(@, parent)]

HashTurn(nodes, st, n, Join(_, _)) ==
    LET next == GetNext(nodes, st)
    IN  IF st.error \/ Exhausted(nodes, st) THEN st
        ELSE IF IsRootPosition(next.pos, n, TreeRows(n))
             THEN [Advance(nodes, st) EXCEPT !.roots = Append(@, next.hash)]
             ELSE HashPair(nodes, Advance(nodes, st), next, TreeRows(n), Join)

HashUp(nodes, n, Join(_, _)) ==
    LET start == [provided |-> 0, computed |-> 0, parents |-> <<>>, roots |-> <<>>, error |-> FALSE]
        turn[k \in 0..Len(nodes)] == IF k = 0 THEN start ELSE HashTurn(nodes, turn[k - 1], n, Join)
    IN  turn[Len(nodes)]

ProofPositionsOf(proof, n) ==
    GetProofPositions({Translate(proof.targets[i], MaxForestRows, TreeRows(n)) :
                           i \in 1..Len(proof.targets)}, n, TreeRows(n))

CalcError == [error |-> TRUE, nodes |-> <<>>, roots |-> <<>>]

-----------------------------------------------------------------------------
(***************************************************************************)
(* calculate_hashes_delete: the hashes before and after the targets are    *)
(* replaced by delHashes' new values (Empty, in every call).               *)
(***************************************************************************)
\* Fault: what is left of a pair is hashed with nothing.
JoinDeleteWithEmpty(l, r) ==
    [old |-> ParentHash(l.old, r.old), new |-> ParentHash(l.new, r.new)]

JoinDelete(l, r) ==
    [old |-> ParentHash(l.old, r.old),
     new |-> CASE IsEmpty(l.new) -> r.new
               [] IsEmpty(r.new) -> l.new
               [] OTHER          -> ParentHash(l.new, r.new)]

TranslatedTargets(proof, n) ==
    [i \in 1..Len(proof.targets) |-> Translate(proof.targets[i], MaxForestRows, TreeRows(n))]

KeptHashes(proof) ==
    [i \in 1..Len(proof.hashes) |-> [old |-> proof.hashes[i], new |-> proof.hashes[i]]]

NodesToDelete(proof, delHashes, n) ==
    SortNodes(Zip2(TranslatedTargets(proof, n), delHashes)
              \o Zip2(ProofPositionsOf(proof, n), KeptHashes(proof)))

CalculateHashesDelete(proof, delHashes, n) ==
    LET nodes == NodesToDelete(proof, delHashes, n)
        done == HashUp(nodes, n, JoinDelete)
        New(s) == [i \in 1..Len(s) |-> [pos |-> s[i].pos, hash |-> s[i].hash.new]]
    IN  IF Len(proof.targets) # Len(delHashes) \/ done.error THEN CalcError
        ELSE [error |-> FALSE, nodes |-> New(nodes \o done.parents), roots |-> done.roots]

(***************************************************************************)
(* calculate_hashes: the hashes as they are.  The proof positions are those*)
(* of the translated targets, the nodes those of the targets as given.     *)
(***************************************************************************)
CalculateHashes(proof, delHashes, n) ==
    LET needed == ProofPositionsOf(proof, n)
        nodes == SortNodes(Zip2(proof.targets, delHashes) \o Zip2(needed, proof.hashes))
        done == HashUp(nodes, n, ParentHash)
        Asked(x) == ~ \E i \in 1..Len(needed) : needed[i] = x.pos
    IN  IF Len(proof.targets) # Len(delHashes) \/ done.error THEN CalcError
        ELSE [error |-> FALSE, nodes |-> SelectSeq(nodes \o done.parents, Asked), roots |-> done.roots]

-----------------------------------------------------------------------------
(***************************************************************************)
(* verify: the computed roots, lowest first, are matched against the roots *)
(* of the accumulator, read from the lowest.                               *)
(***************************************************************************)
\* Fault: what could be computed is not compared with the roots.
VerifyWithoutRoots(proof, delHashes, roots, n) ==
    IF proof.targets # <<>> /\ CalculateHashes(proof, delHashes, n).error THEN "error" ELSE "valid"

\* The next computed root is taken if it is this root.
MatchNext(st, root) ==
    IF st.left # <<>> /\ Head(st.left) = root
    THEN [left |-> Tail(st.left), matched |-> st.matched + 1] ELSE st

MatchRoots(computed, roots) ==
    LET done[k \in 0..Len(roots)] ==
            IF k = 0 THEN [left |-> computed, matched |-> 0]
            ELSE MatchNext(done[k - 1], roots[Len(roots) - k + 1])
    IN  done[Len(roots)]

Verify(proof, delHashes, roots, n) ==
    LET calc == CalculateHashes(proof, delHashes, n)
        done == MatchRoots(calc.roots, roots)
    IN  CASE proof.targets = <<>> -> "valid"
          [] calc.error -> "error"
          [] OTHER -> IF Len(done.left) # done.matched /\ Len(done.left) # 0
                      THEN "invalid" ELSE "valid"
=============================================================================
