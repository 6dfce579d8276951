------------------------------ MODULE Pollard ------------------------------
(***************************************************************************)
(* The partial forest (src/pollard/mod.rs): roots, and as many branches    *)
(* below them as are cached.                                               *)
(*                                                                         *)
(* A node owns its nieces, the children of its sibling; a root owns its own*)
(* children.  It refers to its owner, its aunt, weakly.  All methods are   *)
(* functions from pollard to pollard here.  A pollard is a record:         *)
(*   heap    the live nodes, by name,                                      *)
(*   roots   the root of each row,                                         *)
(*   leaves  how many leaves were ever added,                              *)
(*   map     leaf_map: hashes to nodes.                                    *)
(* Collected drops what has lost its last owner, as Rc does; Renamed names *)
(* the rest anew, for the identity of an Rc cannot be seen from outside.   *)
(***************************************************************************)
EXTENDS CachedProof

Nobody == 0         \* None
Gone   == -1        \* a Weak whose node was dropped

Rows == 0..MaxForestRows

Node(hash, remember, aunt) ==
    [hash |-> hash, remember |-> remember, aunt |-> aunt, left |-> Nobody, right |-> Nobody]

NewPollard == [heap |-> <<>>, roots |-> [r \in Rows |-> Nobody], leaves |-> 0, map |-> <<>>]

\* A call returns what it left of the pollard, also when it fails or panics.
Returns(status, p) == [status |-> status, p |-> p]

Fresh(p) == IF DOMAIN p.heap = {} THEN 1 ELSE Max(DOMAIN p.heap) + 1

With(p, name, node) == [p EXCEPT !.heap = (name :> node) @@ @]

-----------------------------------------------------------------------------
(***************************************************************************)
(* Reading the pointers.  upgrade() fails on a node that was dropped.      *)
(***************************************************************************)
HashOf(p, n) == p.heap[n].hash
Left(p, n)   == p.heap[n].left
Right(p, n)  == p.heap[n].right
Nieces(p, n) == {Left(p, n), Right(p, n)} \ {Nobody}

HasNieces(p, n) == Left(p, n) # Nobody /\ Right(p, n) # Nobody

Aunt(p, n) ==
    IF n = Nobody \/ p.heap[n].aunt \notin DOMAIN p.heap THEN Nobody ELSE p.heap[n].aunt

Grandparent(p, n) == Aunt(p, Aunt(p, n))

\* Is this niece, if there is one, the node n?  Nodes are equal if their hashes are.
SameHash(p, niece, n) == niece # Nobody /\ HashOf(p, niece) = HashOf(p, n)

OtherNiece(p, owner, n) ==
    IF SameHash(p, Left(p, owner), n) THEN Right(p, owner) ELSE Left(p, owner)

SiblingOf(p, n) ==
    LET aunt == Aunt(p, n)
    IN  IF aunt = Nobody \/ Left(p, aunt) = Nobody THEN Nobody ELSE OtherNiece(p, aunt, n)

ParentOf(p, n) ==
    LET grandparent == Grandparent(p, n)
    IN  IF grandparent = Nobody THEN Aunt(p, n) ELSE OtherNiece(p, grandparent, Aunt(p, n))

\* The two children, or <<>>: a root owns them, and else the sibling does.
ChildrenOf(p, n) ==
    LET owner == IF Aunt(p, n) = Nobody THEN n ELSE SiblingOf(p, n)
    IN  IF owner = Nobody \/ ~ HasNieces(p, owner) THEN <<>>
        ELSE <<Left(p, owner), Right(p, owner)>>

ShouldRemember(p, n) ==
    LET remembered[m \in DOMAIN p.heap] ==
            IF Nieces(p, m) = {} THEN p.heap[m].remember
            ELSE \E niece \in Nieces(p, m) : remembered[niece]
    IN  remembered[n]

-----------------------------------------------------------------------------
(***************************************************************************)
(* Writing them.                                                           *)
(***************************************************************************)
SetNieces(p, n, left, right) == [p EXCEPT !.heap[n].left = left, !.heap[n].right = right]

Pruned(p, n) == SetNieces(p, n, Nobody, Nobody)

\* Fault: no node learns of its new aunt.
AuntsForgotten(p, names, aunt) == p

SetAunts(p, names, aunt) ==
    [p EXCEPT !.heap = [n \in DOMAIN @ |-> IF n \in names THEN [@[n] EXCEPT !.aunt = aunt] ELSE @[n]]]

SwapNieces(p, a, b) ==
    SetNieces(SetNieces(p, a, Left(p, b), Right(p, b)), b, Left(p, a), Right(p, a))

MapTo(p, hash, n)  == [p EXCEPT !.map = (hash :> n) @@ @]
Unmapped(p, hash)  == [p EXCEPT !.map = Restrict(@, DOMAIN @ \ {hash})]

RootNodes(p) == {p.roots[r] : r \in Rows} \ {Nobody}

\* The nodes that stay when the forest, and those a call holds, are the owners.
StillOwned(p, held) ==
    LET kept[S \in SUBSET DOMAIN p.heap] ==
            LET owned == S \cap (held \cup RootNodes(p) \cup UNION {Nieces(p, n) : n \in S})
            IN  IF owned = S THEN S ELSE kept[owned]
    IN  kept[DOMAIN p.heap]

Collected(p, held) == [p EXCEPT !.heap = Restrict(@, StillOwned(p, held))]

\* The nodes in the order in which they are met from the roots down.
MetInOrder(p) ==
    LET below[n \in DOMAIN p.heap \cup {Nobody}, depth \in Nat] ==
            IF n = Nobody \/ depth = 0 THEN <<>>
            ELSE <<n>> \o below[Left(p, n), depth - 1] \o below[Right(p, n), depth - 1]
        met   == FlattenSeq([i \in 1..(MaxForestRows + 1) |-> below[p.roots[i - 1], Width]])
    IN  met \o Ascending(DOMAIN p.heap \ ToSet(met))

\* Each node is named by its place in that order.
Renamed(p, order) ==
    LET name[n \in DOMAIN p.heap] == CHOOSE i \in 1..Len(order) : order[i] = n /\ \A j \in 1..(i - 1) : order[j] # n
        Strong(n) == IF n = Nobody THEN Nobody ELSE name[n]
        Weak(n)   == IF n = Nobody THEN Nobody ELSE IF n \in DOMAIN p.heap THEN name[n] ELSE Gone
        Refer(node) == [node EXCEPT !.aunt = Weak(@), !.left = Strong(@), !.right = Strong(@)]
    IN  [p EXCEPT !.heap  = [i \in {name[n] : n \in DOMAIN @} |-> Refer(@[order[i]])],
                  !.roots = [r \in Rows |-> Strong(@[r])],
                  !.map   = [h \in DOMAIN @ |-> Weak(@[h])]]

-----------------------------------------------------------------------------
(***************************************************************************)
(* Finding a node, and finding where a node is.                            *)
(***************************************************************************)

\* grab_position: down from the root of the tree, to the node at a position
\* and its sibling.  The way leads over the siblings of the branch, which
\* own its nodes.
Missing == [node |-> Nobody, sibling |-> Nobody]

\* The tree of a position, by the row of its root, and how far below it is.
OffsetOf(p, pos) ==
    LET Offset(depth) == [root |-> depth + DetectRow(pos, TreeRows(p.leaves)), depth |-> depth]
    IN  Offset(DetectOffset(pos, p.leaves).branchLen)

\* The last step: from the sibling of the parent to its two nieces.
NiecesAt(p, pos, owner) ==
    CASE owner = Nobody \/ ~ HasNieces(p, owner) -> Missing
      [] IsLeftNiece(pos) -> [node |-> Left(p, owner), sibling |-> Right(p, owner)]
      [] OTHER            -> [node |-> Right(p, owner), sibling |-> Left(p, owner)]

GrabBelow(p, pos, root, depth) ==
    LET Down(n, i) == IF n = Nobody THEN Nobody
                      ELSE IF Bit(pos, depth - i) = 1 THEN Left(p, n) ELSE Right(p, n)
    IN  CASE root = Nobody -> Missing
          [] depth = 0     -> [node |-> root, sibling |-> root]
          [] OTHER         -> NiecesAt(p, pos, FoldLeft(Down, root, [i \in 1..(depth - 1) |-> i]))

GrabPosition(p, pos) ==
    LET Grab(offset) == GrabBelow(p, pos, p.roots[offset.root], offset.depth)
    IN  Grab(OffsetOf(p, pos))

\* get_pos: up to a root, then down again from where that root is.  The
\* turns are listed from the top.
Climb(p, n) ==
    LET Up(st, i) ==
            LET parent   == ParentOf(p, st.node)
                children == ChildrenOf(p, parent)
            IN  IF st.error \/ parent = Nobody THEN st
                ELSE IF children = <<>> THEN [st EXCEPT !.error = TRUE]
                ELSE [st EXCEPT !.node = parent,
                                !.turns = <<IF SameHash(p, children[1], st.node) THEN "left" ELSE "right">> \o @]
    IN  FoldLeft(Up, [node |-> n, turns |-> <<>>, error |-> n \notin DOMAIN p.heap],
                 [i \in 1..Width |-> i])

\* Fault: the first turn is taken last.
PosUpsideDown(p, n) ==
    LET top  == Climb(p, n)
        rows == TreeRows(p.leaves)
        tops == {r \in Rows : SameHash(p, p.roots[r], top.node)}
        Turn(pos, turn) == IF turn = "left" THEN LeftChild(pos, rows) ELSE RightChild(pos, rows)
    IN  IF top.error \/ tops = {} THEN NoPosition
        ELSE FoldLeft(Turn, RootPosition(p.leaves, Min(tops), rows), Reverse(top.turns))

GetPos(p, n) ==
    LET top  == Climb(p, n)
        rows == TreeRows(p.leaves)
        tops == {r \in Rows : SameHash(p, p.roots[r], top.node)}
        Turn(pos, turn) == IF turn = "left" THEN LeftChild(pos, rows) ELSE RightChild(pos, rows)
    IN  IF top.error \/ tops = {} THEN NoPosition
        ELSE FoldLeft(Turn, RootPosition(p.leaves, Min(tops), rows), top.turns)

-----------------------------------------------------------------------------
(***************************************************************************)
(* Proofs.  An Err is NoneProved.                                          *)
(***************************************************************************)
NoneProved == [ok |-> FALSE, proof |-> NoProof]
Proved(targets, hashes) == [ok |-> TRUE, proof |-> [targets |-> targets, hashes |-> hashes]]

PosOf(p, hash) == IF hash \in DOMAIN p.map THEN GetPos(p, p.map[hash]) ELSE NoPosition

\* The hashes needed beside the targets that are at these positions.
ProofAt(p, where, needed) ==
    LET found == [i \in 1..Len(needed) |-> GrabPosition(p, needed[i]).node]
    IN  IF Nobody \in ToSet(found) THEN NoneProved
        ELSE Proved([i \in 1..Len(where) |-> Translate(where[i], TreeRows(p.leaves), MaxForestRows)],
                    [i \in 1..Len(found) |-> HashOf(p, found[i])])

BatchProof(p, targets) ==
    LET Prove(where) ==
            IF NoPosition \in ToSet(where) THEN NoneProved
            ELSE ProofAt(p, where, GetProofPositions(ToSet(where), p.leaves, TreeRows(p.leaves)))
    IN  Prove([i \in 1..Len(targets) |-> PosOf(p, targets[i])])

\* Fault: only the next aunt is pushed.
NextAunt(p, n) ==
    LET aunt == Aunt(p, n)
    IN  IF Aunt(p, aunt) = Nobody THEN <<>> ELSE <<HashOf(p, aunt)>>

\* The hashes of the aunts above a node that are not roots.
AuntsAbove(p, n) ==
    LET Up(aunts, i) == Append(aunts, Aunt(p, Last(aunts)))
        aunts == FoldLeft(Up, <<Aunt(p, n)>>, [i \in 1..MaxForestRows |-> i])
        inner == SelectSeq(aunts, LAMBDA m : Aunt(p, m) # Nobody)
    IN  [i \in 1..Len(inner) |-> HashOf(p, inner[i])]

\* prove_single: the sibling, and the aunts below the root.  The target is
\* left where it is in this forest.
ProveSingle(p, leaf) ==
    LET Prove(pos, grabbed) ==
            IF grabbed = Missing THEN NoneProved
            ELSE Proved(<<pos>>, <<HashOf(p, grabbed.sibling)>> \o AuntsAbove(p, grabbed.node))
        At(pos) == IF pos = NoPosition THEN NoneProved ELSE Prove(pos, GrabPosition(p, pos))
    IN  At(PosOf(p, leaf))

\* roots(): the lowest row first.
PollardRoots(p) ==
    LET rows == Ascending({r \in Rows : p.roots[r] # Nobody})
    IN  [i \in 1..Len(rows) |-> HashOf(p, p.roots[rows[i]])]

PollardVerify(p, proof, delHashes) == Verify(proof, delHashes, PollardRoots(p), p.leaves)

-----------------------------------------------------------------------------
(***************************************************************************)
(* prune: the targets leave the map, and what is left of them after detwin *)
(* loses its nieces.                                                       *)
(***************************************************************************)
PruneMap(p, positions) ==
    LET nodes == [i \in 1..Len(positions) |-> GrabPosition(p, positions[i]).node]
        Forget(st, n) == IF st.status # "ok" THEN st
                         ELSE IF n = Nobody THEN Returns("panic", st.p)
                         ELSE Returns("ok", Unmapped(st.p, HashOf(st.p, n)))
    IN  FoldLeft(Forget, Returns("ok", p), nodes)

Prune(p, positions) ==
    LET Cut(st, n) == IF n = Nobody THEN Returns("error", st.p)
                      ELSE Returns("ok", Collected(Pruned(Unmapped(st.p, HashOf(st.p, n)), n), {}))
        CutAt(st, pos) == IF st.status # "ok" THEN st ELSE Cut(st, GrabPosition(st.p, pos).node)
    IN  FoldLeft(CutAt, PruneMap(p, positions), Detwin(positions, TreeRows(p.leaves)))

-----------------------------------------------------------------------------
(***************************************************************************)
(* ingest_proof: the nodes of a proof and those computed from it, from the *)
(* top down, as roots or as pairs of nieces.                               *)
(***************************************************************************)
IngestRoot(p, pos, hash) ==
    LET n == Fresh(p)
    IN  [With(p, n, Node(hash, TRUE, Nobody)) EXCEPT !.roots[DetectRow(pos, TreeRows(p.leaves))] = n]

\* Fault: the other one of a pair is forgotten.
MapOne(p, n, one, two) == MapTo(p, one.hash, n)

MapBoth(p, n, one, two) == MapTo(MapTo(p, one.hash, n), two.hash, n + 1)

IngestPair(p, aunt, one, two, remembers) ==
    LET n    == Fresh(p)
        both == With(With(p, n, Node(one.hash, TRUE, aunt)), n + 1, Node(two.hash, TRUE, aunt))
        kept == IF {one.pos, two.pos} \cap ToSet(remembers) = {} THEN both
                ELSE MapBoth(both, n, one, two)
    IN  CASE aunt = Nobody          -> Returns("error", p)
          [] Left(p, aunt) # Nobody -> Returns("ok", p)
          [] OTHER                  -> Returns("ok", SetNieces(kept, aunt, n + 1, n))

IngestPositions(p, nodes, remembers) ==
    LET AuntAt(q, pos) == GrabPosition(q, Parent(pos, TreeRows(q.leaves))).sibling
        Pair(st, one, rest) ==
            IF rest = <<>> \/ one.pos # Sibling(Head(rest).pos) THEN [st EXCEPT !.status = "error"]
            ELSE IngestPair(st.p, AuntAt(st.p, one.pos), one, Head(rest), remembers) @@ [rest |-> Tail(rest)]
        Turn(st, i) ==
            IF st.status # "ok" \/ st.rest = <<>> THEN st
            ELSE IF IsRootPosition(Head(st.rest).pos, p.leaves, TreeRows(p.leaves))
                 THEN [st EXCEPT !.p = IngestRoot(@, Head(st.rest).pos, Head(st.rest).hash), !.rest = Tail(@)]
                 ELSE Pair(st, Head(st.rest), Tail(st.rest))
        Done(st) == Returns(st.status, Collected(st.p, {}))
    IN  Done(FoldLeft(Turn, Returns("ok", p) @@ [rest |-> nodes], nodes))

IngestProof(p, proof, delHashes, remembers) ==
    LET needed   == GetProofPositions(ToSet(proof.targets), p.leaves, TreeRows(p.leaves))
        unwanted == SelectSeq(proof.targets, LAMBDA t : t \notin ToSet(remembers))
        Nodes(calc) == Reverse(SortNodes(calc.nodes \o Zip2(needed, proof.hashes)))
        PruneRest(st) == IF st.status = "ok" THEN Prune(st.p, unwanted) ELSE st
        Ingest(calc)  == IF calc.error THEN Returns("error", p)
                         ELSE PruneRest(IngestPositions(p, Nodes(calc), remembers))
    IN  Ingest(CalculateHashes(proof, delHashes, p.leaves))

VerifyAndIngest(p, proof, delHashes, remembers) ==
    IF PollardVerify(p, proof, delHashes) # "valid" THEN Returns("error", p)
    ELSE IngestProof(p, proof, delHashes, remembers)

-----------------------------------------------------------------------------
(***************************************************************************)
(* Deleting a node.                                                        *)
(***************************************************************************)

\* Fault: only the node's own hash is computed again.
RecomputeOwnHash(p, n) ==
    LET children == ChildrenOf(p, n)
    IN  IF children = <<>> THEN p
        ELSE [p EXCEPT !.heap[n].hash = ParentHash(HashOf(p, children[1]), HashOf(p, children[2]))]

\* recompute_hashes, of a node and all that is above it.
RecomputeHashes(p, n) ==
    LET Above(q, m) == IF SiblingOf(q, Aunt(q, m)) # Nobody THEN SiblingOf(q, Aunt(q, m)) ELSE Aunt(q, m)
        Turn(st, i) ==
            LET q == RecomputeOwnHash(st.p, st.node)
            IN  IF st.node = Nobody THEN st
                ELSE [p |-> q, node |-> IF Aunt(q, st.node) = Nobody THEN Nobody ELSE Above(q, st.node)]
    IN  FoldLeft(Turn, [p |-> p, node |-> n], [i \in 1..(Width + 1) |-> i]).p

\* migrate_up: a node takes its parent's place beside its aunt, and the
\* parent's nieces, which are the children of the aunt.
MigrateUp(p, n) ==
    LET aunt        == Aunt(p, n)
        grandparent == Aunt(p, aunt)
        parent      == SiblingOf(p, aunt)
        placed == IF SameHash(p, Left(p, grandparent), aunt)
                  THEN SetNieces(p, grandparent, Left(p, grandparent), n)
                  ELSE SetNieces(p, grandparent, n, Right(p, grandparent))
        raised == Pruned(SetAunts(placed, {n}, grandparent), aunt)
        owner  == SetAunts(raised, Nieces(raised, parent), n)
    IN  IF Nobody \in {aunt, grandparent} THEN Returns("error", p)
        ELSE IF parent = Nobody THEN Returns("error", p)
        ELSE Returns("ok", RecomputeHashes(SwapNieces(owner, n, parent), n))

\* The lowest row whose root has the hash of n, and what replaces it there.
ReplaceRoot(p, n, new) ==
    LET rows == {r \in Rows : SameHash(p, p.roots[r], n)}
    IN  IF rows = {} THEN Returns("error", p) ELSE Returns("ok", [p EXCEPT !.roots[Min(rows)] = new])

DeleteRoot(p, n) ==
    LET empty == Fresh(p)
    IN  ReplaceRoot(With(p, empty, Node(Empty, FALSE, Nobody)), n, empty)

DeleteInner(p, n) ==
    LET moved == MigrateUp(p, SiblingOf(p, n))
    IN  IF moved.status = "error" THEN Returns("panic", p) ELSE moved

DeleteSingle(start, n) ==
    LET p == Unmapped(start, HashOf(start, n))
    IN  CASE p.heap[n].aunt = Nobody     -> DeleteRoot(p, n)
          [] SiblingOf(p, n) = Nobody    -> Returns("error", p)
          [] Grandparent(p, n) = Nobody  -> ReplaceRoot(p, Aunt(p, n), SiblingOf(p, n))
          [] OTHER                       -> DeleteInner(p, n)

-----------------------------------------------------------------------------
(***************************************************************************)
(* Adding a leaf.                                                          *)
(***************************************************************************)

\* Fault: both trees keep the nieces they had as roots.
NiecesStay(p, old, new) == p

\* Fault: the nieces are exchanged, and not told.
AuntsStay(p, old, new) == SwapNieces(p, new, old)

\* Two roots become siblings: each then owns the other's children.
ExchangeNieces(p, old, new) ==
    LET swapped == SwapNieces(p, new, old)
    IN  SetAunts(SetAunts(swapped, Nieces(swapped, new), new), Nieces(swapped, old), old)

\* Fault: only the newer tree is asked.
NewerDecides(p, old, new) == ShouldRemember(p, new)

WorthKeeping(p, old, new) == ShouldRemember(p, old) \/ ShouldRemember(p, new)

\* One turn of the loop: the new tree and the root of this row become the
\* two halves of a tree, which keeps them if there is something to remember.
MergeWithRoot(st, row) ==
    LET p      == [st.p EXCEPT !.roots[row] = Nobody]
        old    == st.p.roots[row]
        top    == Fresh(p)
        both   == ParentHash(HashOf(p, old), HashOf(p, st.node))
        joined == SetAunts(ExchangeNieces(p, old, st.node), {old, st.node}, top)
        merged == With(joined, top, Node(both, WorthKeeping(p, old, st.node), Nobody))
    IN  IF old = Nobody THEN [st EXCEPT !.status = "panic"]
        ELSE IF IsEmpty(HashOf(p, old)) THEN [st EXCEPT !.p = p]
        ELSE [st EXCEPT !.node = top,
                        !.p = IF WorthKeeping(joined, old, st.node) THEN SetNieces(merged, top, old, st.node) ELSE merged]

AddSingle(p, add) ==
    LET leaf  == Fresh(p)
        start == Returns("ok", MapTo(With(p, leaf, Node(add.hash, add.remember, Nobody)), add.hash, leaf))
                     @@ [node |-> leaf]
        Merge(st, row) == IF st.status = "ok" THEN MergeWithRoot(st, row) ELSE st
        done  == FoldLeft(Merge, start, [h \in 1..MergedRows(p.leaves) |-> h - 1])
    IN  IF done.status # "ok" THEN Returns(done.status, done.p)
        ELSE Returns("ok", Collected([done.p EXCEPT !.roots[MergedRows(p.leaves)] = done.node, !.leaves = @ + 1], {}))

-----------------------------------------------------------------------------
(***************************************************************************)
(* modify: ingest, find all that is to be deleted, delete, add.  The nodes *)
(* found are held until their turn comes.                                  *)
(***************************************************************************)
DeleteAll(start, grabbed) ==
    LET Held(i) == UNION {{grabbed[j].node, grabbed[j].sibling} : j \in (i + 1)..Len(grabbed)}
        Release(st, i) == Returns(st.status, Collected(st.p, Held(i)))
        Delete(st, i) ==
            IF st.status # "ok" THEN st
            ELSE IF grabbed[i] = Missing THEN Returns("error", st.p)
            ELSE Release(DeleteSingle(st.p, grabbed[i].node), i)
    IN  FoldLeft(Delete, start, [i \in 1..Len(grabbed) |-> i])

AddAll(start, adds) ==
    LET Add(st, add) == IF st.status = "ok" THEN AddSingle(st.p, add) ELSE st
    IN  FoldLeft(Add, start, adds)

Modify(p, adds, delHashes, proof) ==
    LET targets == Detwin(proof.targets, TreeRows(p.leaves))
        Apply(st) ==
            IF st.status # "ok" THEN st
            ELSE AddAll(DeleteAll(st, [i \in 1..Len(targets) |-> GrabPosition(st.p, targets[i])]), adds)
    IN  Apply(IngestProof(p, proof, delHashes, proof.targets))

-----------------------------------------------------------------------------
(***************************************************************************)
(* from_roots: the root of row x is the x-th of the list, the first one    *)
(* being that of row 0.                                                    *)
(***************************************************************************)
FromRoots(roots, n) ==
    LET rows == {x \in Rows : IsRootPopulated(x, n) /\ x < Len(roots)}
    IN  [NewPollard EXCEPT
            !.leaves = n,
            !.roots  = [x \in Rows |-> IF x \in rows THEN x + 1 ELSE Nobody],
            !.heap   = [name \in {x + 1 : x \in rows} |-> Node(roots[name], TRUE, Nobody)]]

FromStump(stump) == FromRoots(stump.roots, stump.leaves)

(***************************************************************************)
(* serialize and deserialize.  What has no nieces is written as a leaf, is *)
(* to be remembered when it is read back, and enters the map.              *)
(***************************************************************************)
RECURSIVE WriteNode(_, _), WriteMirrored(_, _), ReadNode(_, _, _)

\* Fault: the right niece is written first.
WriteMirrored(p, n) ==
    IF Left(p, n) = Nobody THEN <<1>> \o WriteHash(HashOf(p, n))
    ELSE <<0>> \o WriteHash(HashOf(p, n)) \o WriteMirrored(p, Right(p, n)) \o WriteMirrored(p, Left(p, n))

WriteNode(p, n) ==
    IF Left(p, n) = Nobody THEN <<1>> \o WriteHash(HashOf(p, n))
    ELSE <<0>> \o WriteHash(HashOf(p, n)) \o WriteNode(p, Left(p, n)) \o WriteNode(p, Right(p, n))

PollardSerialize(p) ==
    <<p.leaves>> \o FlattenSeq([i \in 1..(MaxForestRows + 1) |->
        IF p.roots[i - 1] = Nobody THEN <<0>> ELSE <<1>> \o WriteNode(p, p.roots[i - 1])])

\* Reads one node and what it owns: the pollard, the node and the rest of the input.
ReadNode(p, ancestor, in) ==
    LET hash  == ReadHash(Tail(in))
        n     == Fresh(p)
        here  == With(p, n, Node(hash.hash, TRUE, ancestor))
        left  == ReadNode(here, n, hash.rest)
        right == ReadNode(left.p, n, left.rest)
    IN  IF Head(in) = 1 THEN [p |-> MapTo(here, hash.hash, n), node |-> n, rest |-> hash.rest]
        ELSE [p |-> SetNieces(right.p, n, left.node, right.node), node |-> n, rest |-> right.rest]

PollardDeserialize(in) ==
    LET Read(st, row) ==
            LET root == ReadNode(st.p, Nobody, Tail(st.rest))
            IN  IF Head(st.rest) = 0 THEN [st EXCEPT !.rest = Tail(@)]
                ELSE [p |-> [root.p EXCEPT !.roots[row] = root.node], rest |-> root.rest]
    IN  FoldLeft(Read, [p |-> [NewPollard EXCEPT !.leaves = Head(in)], rest |-> Tail(in)],
                 [i \in 1..(MaxForestRows + 1) |-> i - 1]).p
=============================================================================
