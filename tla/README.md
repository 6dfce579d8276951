# Verification of rustreexo in TLA+

rustreexo implements the Utreexo accumulator: a set of leaves kept as a forest of Merkle
trees, where additions merge trees as a binary counter carries and a deletion moves the
deleted node's sibling up one row. This directory holds TLA+ modules translated from the
Rust source, TLC configurations that check them on small forests, and proofs, checked by
TLAPS, about forests of any size.

Paths below are relative to the repository, whose crate is in `src/`.

## 1. Inventory

| part | source | state | operations |
|---|---|---|---|
| position arithmetic | `src/util/mod.rs` | none | parent, children, `translate`, `calc_next_pos`, `detect_offset`, `get_proof_positions`, `roots_to_destroy`, ... |
| node hashes | `src/node_hash/mod.rs` | none | `parent_hash`, `empty`, `placeholder`, `write`, `read` |
| MemForest | `src/mem_forest/mod.rs` | roots, leaf count, leaf map, nodes linked by `Rc` and `Weak` | `modify` (`del`, `add`), `prove`, `verify`, `grab_node`, storage |
| Stump | `src/stump/mod.rs` | leaf count, root hashes | `modify` (`remove`, `add`), `verify`, `undo`, storage |
| Proof | `src/proof/mod.rs` | targets, hashes | `verify`, `calculate_hashes`, `calculate_hashes_delete`, `update`, `get_proof_subset`, storage |
| Pollard | `src/pollard/mod.rs` | roots by row, nodes linked to their nieces, leaf map | `modify`, `ingest_proof`, `verify_and_ingest`, `prune`, `batch_proof`, `prove_single`, `from_roots`, storage |

How they interact. MemForest and Stump keep the same accumulator, one in full and one as
root hashes only. MemForest makes proofs (`prove`); a Stump checks them (`verify`) and
applies blocks with them (`modify`), handing back update data from which holders of cached
proofs bring those up to date (`Proof::update`). Pollard starts from a Stump's roots and
caches the branches it is shown. Everything navigates with the arithmetic of `util`. All of
it is single threaded: calls do not overlap, and there are no callbacks.

What is hard here is therefore not interleaving but long histories: forests whose shape
depends on everything deleted before, positions that move when the forest grows or a sibling
goes, trees that are emptied and merged over later, hashes that are read while a deletion
has made them stale, a call that fails half way, proofs that are used blocks after they were
made, a reload or a reorganisation in between, branches that hang from their aunt and must
change owners when trees merge or nodes move. `PROJECT.json` lists these hazards with their
lines and the properties that cover them.

What makes each part correct:

- positions: arithmetic and geometry agree, whatever the history of growth and deletion;
- MemForest: pointers, map and hashes stay consistent after every step, nothing leaks, no
  `unwrap` fails, and the forest implements the abstract accumulator;
- Stump: it has the forest's roots after any history, refuses what is not there, and reports
  truthfully what it changed;
- Proof: what the forest proves is accepted, what is gone is not;
- cached proofs: after any block, the proof the forest would make itself, of exactly the leaves
  the wallet should have;
- Pollard: it has the forest's roots after any history, everything it caches is the forest's and
  in its place, it proves only what the forest would, and forgets only what it may;
- storage: a reload is invisible.

## 2. Modules

| module | models | checked or proved through |
|---|---|---|
| `NodeHash` | hashes, symbolic and collision free, and their encoding | all runs |
| `ForestPositions` | position arithmetic, words of `MaxForestRows + 1` bits | `MCForestPositions`, `PositionArithmetic`, `PositionProofs` |
| `HashTrees` | trees written as the hash of their root; what deleting and adding a leaf makes of them | `HashTreesProofs`, all runs with a forest |
| `Accumulator` | the promise: a forest of such trees, and where its nodes and proofs are | refinement target, `StumpNode` |
| `LeafSet` | the promise of one call of `modify` about the set of leaves: order, refusal, abandonment, answer | refinement target, `MCMemForest`, `MemForestRefinement` |
| `MemForest` | the pointer forest, one step per loop turn of `modify` | `MCMemForest`, `MemForestProofs`, `MemForestRefinement` |
| `MemForestStorage` | `MemForest` that may be written out and read back between calls | `MCMemForestStorage` |
| `UtreexoProof` | the hashing loop of proofs, `verify` | `MCStumpNode`, `StumpProofs`, `StumpCompleteness` |
| `Stump` | the compact accumulator, as functions from stump to stump | `MCStumpNode`, `StumpProofs`, `StumpCompleteness` |
| `CachedProof` | `Proof::update`, `get_proof_subset`, storage of a proof, as functions from proof to proof | `MCWalletNode` |
| `StumpNode` | a node with a stump, beside the forest that makes its proofs | `MCStumpNode`, `StumpProofs`, `StumpCompleteness` |
| `WalletNode` | a wallet that keeps a stump and a proof of its leaves over the blocks of such a forest | `MCWalletNode` |
| `Pollard` | the partial forest of aunts and nieces, as functions from pollard to pollard | `MCPollardPeer` |
| `PollardPeer` | a peer that takes such a forest's blocks with a pollard, and ingests, prunes and restarts in between | `MCPollardPeer` |

### Correspondence to the code

**MemForest.** `heap` is the allocated nodes (`Node`: type, `parent`, `left`, `right`),
`data` their `data` cells, `roots`, `leaves` and `map` the fields of the struct. A node that
loses its last owner is freed in the step that takes the owner away, as `Rc` does; a dangling
`Weak` would show as an entry of `map` that is not a live node. The program counter `pc`
says which loop a call is in: `Modify` is the first loop of `del` (lookups and sort), `DelRoot`,
`DelRootChild`, `DelInner` are the branches of `del_single`, `RecomputeHash` one level of
`recompute_hashes`, `NewLeaf`, `SkipEmptyRoot`, `MergeRoot`, `PushRoot` the parts of
`add_single`. The error paths are `ModifyUnknownTarget` (nothing changed) and `TargetGone`
(a target listed twice: the deletions before it stay done, the additions are not made).
Where the code compares hashes to tell nodes apart, so does the model.

Node names are an artefact: `Fresh` gives a new node a name above all live ones. This keeps the
state space small, and gives the proofs an order in which children come before parents.
`Deserialize` builds parents first, so after a reload that order is reversed: `Inv` is an
invariant of `Spec`, and says nothing of `StorageSpec`.

**Stump.** `modify` takes `&self` and returns a new stump or an error; it is the operator
`StumpModify`. `StumpNode` has the state: `roots` and `leaves` are the forest (as specified by
`Accumulator`, which `MemForest` is shown to implement), `stump` the node's stump, `update` the
data of the last `modify`, `held` a proof asked for earlier, `previous` what `undo` restores.

**Cached proofs.** `Proof::update` takes the proof by value and returns another, or an error;
it is the operator `Update`, made of `UpdateProofRemove` and `UpdateProofAdd`. Between the two
halves the code drops the positions of the proof's hashes and works them out again, and so
does the model. `WalletNode` has the state: `stump`, `cache` (a proof and the hashes of its
leaves) and `wanted`, the leaves the wallet should have a proof of: fetched or remembered, not
spent since, not given up. `Block` is `Stump::modify` and then `update` with the data it
returned; a failed call loses the proof. `update` works with positions of the forest as high
as it is. The wallet hands it the targets of a block, and a proof it fetches, in those
positions, as the repository's own test vectors do; `prove` returns them for 63 rows, and the
crate exports nothing to translate them with (a hazard `PROJECT.json` lists). `remembers`
ascends, as in the example.

**Pollard.** A method takes a pollard, a record of `heap`, `roots`, `leaves` and `map`, and returns
a status, `"ok"`, `"error"` or `"panic"`, with the pollard it leaves behind, which after an error may be
half changed. A node's `aunt` is the name of the node its `Weak` was made from, `Nobody` for
`None`; after the aunt has been dropped it becomes `Gone`, which `Aunt` does not `upgrade` but
`delete_single`'s `node.aunt.borrow().is_none()` does not take for a root either. `Collected` drops
what nobody owns any more, at each place where the code drops an `Rc`; the nodes `modify` holds in
`targets` are owners until their turn (`Held`). `Renamed` names nodes anew, from the roots down,
after each call: the identity of an `Rc` cannot be seen from outside, and states that differ in it
only are the same. As in the code, nodes are told apart by their hashes.

`PollardPeer` has the state: the forest (`roots`, `leaves`, as specified by `Accumulator`), the
`pollard`, the leaves it is `wanted` to keep, and the `last` call. The peer makes legitimate calls:
proofs are the forest's own (`ProofInPlace`), it prunes positions it can prove, it uses
`from_roots` when every row has a root. Proofs name targets by their position in the forest, not in
one of 63 rows: `ingest_proof` and `modify` take no others, except in row 0 where they are the same.

**Hashes.** A leaf hash is `<<i>>` for the i-th leaf ever added, a parent hash the pair of
its children's. Collisions are impossible, so what is shown is the accumulator's logic under
the usual assumption on the hash function. Leaves are distinct: the library documents no
behaviour for a leaf added twice.

**Words.** The code has 64-bit words and `MAX_FOREST_ROWS` = 63. The model has `MaxForestRows`
as a constant and words one bit wider; masks and complements (`detect_offset`) wrap at that
width. The runs use 5 or 6 rows. The masks of `remove_bit` are made of literals without a type,
which are `i32`, and cast to 64 bits afterwards; `RemoveBit` computes them in `LiteralBits` = 32
bits (`UpperOnes`, `LowerOnes`). Where they overflow (not `MasksFit`) the model is the build
without overflow checks, here as everywhere; one with checks panics. That takes a subtree deleted 30 rows
above a node, hence a tree of 2^31 leaves. A forest of all 63 rows (more than 2^62 leaves) overflows other masks
and shifts (`root_position`, `children`, `detect_offset`, `parent_many`) and is excluded: the
assumptions have `MaxLeaves` <= 2^(`MaxForestRows` - 1).

## 3. Runs

| run | bounds | shows |
|---|---|---|
| `positions` | 18 leaves, 6 rows | `PositionTracksNode`, `RootPositionsMatchForest`, `OffsetLeadsToNode`, `AncestorsAreThePathUp`, `SharedPositionIsStable` |
| `memforest` | 8 leaves, calls adding 0, 3, 4 and deleting 0-2 | the invariant `Inv` and its parts, `NothingLeaks`, `RootHashesCommit`, `PositionsLeadBack`, `ProofIsAsPromised`, refinements `ImplementsAccumulator` and `ImplementsLeafSet` |
| `memforest_storage` | 5 leaves, calls deleting 0-2, reload between any calls | `ReloadIsInvisible`, `CallReturns` under fairness |
| `stump_blocks` | 7 leaves, blocks adding 0, 1, 3 and deleting up to 6; in forests of up to 4 one held proof of up to 2 leaves | `StumpFollowsForest`, `FirstRowVerifies`, `NewNodesAreWhereTheySay`, `DestroyedRootsReported`, `SingleProofIsSound`, `OnlyMembersAreDeleted` |
| `wallet_blocks` | 7 leaves, blocks adding 0, 1, 3 and deleting up to 2, up to two leaves remembered a block, fetched proofs of 1-2 | `CacheIsTheForestsProof`, `NothingIsForgotten`, `CacheIsSpendable` |
| `pollard_blocks` | 1, 2, 3, 4 or 8 leaves, blocks adding 0, 1, 3, 8 and deleting up to 2, the first and third of a block remembered; in forests of up to 4, ingested proofs and prunings of 1-2 leaves and restarts | `PollardFollowsForest`, `CachedNodesAreTheForests`, `OwnedByTheAunt`, `ProofsAreTheForests`, `SingleProofsVerify`, `RestartForgetsNothing`, `CallsSucceed`, `RememberedCanBeProved`, `OtherTreesAreKept` |
| `finding_*` | as their cfg says | the divergences of section 6 |

Why these bounds are enough to be interesting: 8 leaves make a tree of depth 3, the smallest
where a deletion has a grandparent whose own parent must be rehashed and where a moved node is
itself deleted; 6 leaves make two trees, 7 = 4+2+1 three, and adding to them carries; 18
leaves cross three heights of the forest (4, 5 rows and back to a single small tree beside a
big one). Two targets per call include the same target twice. `MaxNodes` is above what the
leaves can need, and never stops a step. The positions run has 6 rows where 18 leaves need 5, so
translation to the shared height is never the identity above row 0. In all runs
`LiteralBits` is 32, as in the code, and the masks of `remove_bit` fit; where they do not is beyond
the numbers that TLC has, and there is a theorem instead (`RemoveBitLosesTheTop`).

A block of several leaves that finds an emptied tree is where the update data goes wrong
(section 6). `NewNodesAreWhereTheySay` and `DestroyedRootsReported` are about all other blocks,
and `AnyBlock` = FALSE keeps such blocks from `wallet_blocks`: so the two divergences that
need them are the only thing left out, and everything else happens. Trees are emptied and
written over, cached leaves move up, become roots and are spent, the forest gains rows over
cached leaves above the bottom. 7 leaves are three trees, 4 + 2 + 1.

`pollard_blocks` goes through forests of 1, 2, 3 and 4 leaves with all the calls, and of 8
with blocks only, where there are cousins and aunts of aunts. Its states are compared by `View`,
the forest and the pollard: no action reads `wanted` or `last`, the invariants do not either, and
the action properties look only at the `last'` of the step itself, so two states with the same
view have the same future. `AnyBlock` = FALSE keeps one kind of block away, one that
deletes all of the several leaves of one half of a tree and leaves some of the other. There
`delete_single` makes the sibling a root with the nieces it had as a child, which are the
children of the half that is gone (section 6).

Fairness. `FairStorageSpec` has `WF_vars(Step)`: a call that has started goes on executing. It is one
thread running straight-line loops, nothing it waits for, so it is the weakest assumption
under which anything happens at all. Callers need not ever call again.

Deadlock is checked in every run: a call with nothing to add or delete is always possible.

Every property has a mutant, an operator marked `Fault:` next to the definition it replaces,
that TLC finds out through that property.

## 4. Proofs

Everything below is proved for every number of leaves that the assumptions allow (in the code, up to 2^62), and every
number of nodes, additions and deletions; for the
MemForest, for every state between two loop turns, not only between calls; for the stump, for
every proof it may be given, those that a forest makes and others.

| module | proves |
|---|---|
| `Induction` | induction on sets of numbers; that recursive functions exist; what lists, their parts and their joins are |
| `MemForestProofs` | `InvHolds`, its parts that the runs check, `PopFindsARoot`; `NothingLeaksHolds`: a node is allocated as long as it is owned; `HeightsFitHolds`: no tree is higher than the row of its root; `PositionsLeadBackHolds`: `get_pos` and `grab_node` agree |
| `HashTreesProofs` | what the operators of `HashTrees` do to leaves, pairs and forests |
| `MemForestRefinement` | `RootHashesCommitHolds`, `ImplementsAccumulatorHolds`; `ImplementsLeafSetHolds`: `modify` keeps its promise about the set of leaves |
| `PositionArithmetic` | what each operator of `ForestPositions` computes, for every height and every position |
| `PositionProofs` | the five properties of the run `positions`; `RemoveBitLosesTheTop`: where `remove_bit` goes wrong |
| `StumpProofs` | `ModifyIsSound`: what `Stump::modify` promises, whatever proof it is given; `NodeInvariant`; `StaleProofsAreSafe`: old proofs delete nothing but what they name |
| `StumpCompleteness` | `StumpFollows`: stump and forest always have the same roots; `FirstRowProofsVerify`: `verify` accepts the forest's proofs of leaves of the first row |

### The invariant (`MemForestProofs`)

`Inv` is inductive as it stands; each conjunct is there because another needs it. That the map
is the leaves (`MapIsTheLeaves`) needs the pointers to be trees (`PointersAgree`,
`RootsAreTheTops`), because a deletion frees a parent on the strength of it. Finding a root
or a child by hash is right only if no two nodes share a hash (`HashesIdentifyNodes`), which
is kept while hashes are rewritten because every hash but one or two is that of its children
(`HashesCommit`) and distinct pairs have distinct hashes. Empty hashes are the exception, and
`EmptyMeansDeletedTree` confines them to roots without children. `RootsMatchLeafCount` has a
form for the middle of an addition: the roots left are the one bits of the carry left; hence
`roots.pop().unwrap()` in `add_single` always has a root to take (`PopFindsARoot`).

There is a lemma per action (`DelInnerKeepsInv`, ...), each with one step per conjunct that the
action disturbs; actions that leave the forest alone share `ForestUntouchedKeepsInv`.

### Induction and recursion (`Induction`)

The induction theorems of the library take an operator as a parameter, which the provers
cannot instantiate. Here induction is about sets instead: a set of naturals that is not empty
has a least element (`LeastNumber`, from the well-foundedness of `<`), so a set that contains
a number whenever it contains all smaller ones contains all (`StrongInductionOn`). To prove a
fact about all nodes, take the set of the nodes that satisfy it.

A recursive function is a choice among the functions that satisfy its equation, and nothing
follows from it until one is shown to exist. `RecursionExists` does that for any function
whose value is given outright on a set `Z`, and elsewhere by a step from one or two values of
lower rank. `CountOnes`, `TrailingOnes`, `TreesUpTo`, `LeafSets`, `Without`, `JoinTree`,
`Reachable`, `TreesIn` and the recursions of `GetPos` and `GrabNode` are all shown to satisfy their equations this way, or by the
one-argument version `LinearRecursionExists`. Loops that are a function of the number of turns (`SortNodes`,
`HashUp`, `ReplaceRoots`, `MergeLeaf`, `StumpAdd`, `StumpDeserialize`, the climb of
`get_proof_positions`) have a lemma of their own, by induction on the turns (`SortingExists`, `TurningExists`, ...).

The library speaks of sequences over a given set. Proofs that nobody vouches for may hold anything,
so `Induction` has `IsList`, a sequence of anything, and what appending, joining, inserting,
removing, cutting and flattening do to one.

### The set of leaves (`MemForestRefinement`)

`ImplementsLeafSetHolds` is `Spec => Contract!Spec`, where `Contract` is
`LeafSet` with `members` the hashes of the leaf nodes in the heap, `added` the leaves made so
far, `asked` and `growth` what the call has left, `answer` its result. It rests on `InvHolds`. The
actions do to the heap what is hard to see through: a freed parent, a moved sibling, a new branch. But by
`MapIsTheLeaves`, before and after the step, the leaves in the heap are the keys of the map, and what an
action does to those is plain (`PresentIsTheMap`). `CallState` adds what `pc` says of the loops
that are over. The three deletions map to `Delete`, `Modify` to `Call`, `NewLeaf` to `Add`,
`TargetGone` to `Abandon`, `ModifyUnknownTarget` to `Refuse`, `Return` to `Finish`; the rest is
not seen.

### Ownership, and the way to a node (`MemForestProofs`)

`NothingLeaks` says that the allocated nodes are those reachable from the roots and the tree
being merged in. It follows from `Inv` alone. What is reachable is allocated, by induction
on the number of steps down. What is allocated is reachable, and the
bound is the name of the node: a parent is younger than its children, so a node `n` is reached
within `MaxNodes - n` steps from a node without a parent, which is a root or the tree being
merged in.

`PositionsLeadBack` does not follow from `Inv`: a position has one bit of offset for every row between
the node and its root, so a tree higher than its root's row would have nodes without a position.
`HeightsFit` excludes it, and is inductive together with `Inv`: there are levels `lev` of the nodes
that fall along every pointer, with the level of a root no more than the row of its bit of
the leaf count. A deletion changes no level: the sibling that moves up was below its parent, so it is below
the grandparent. A merge puts one level on top of two trees that fit the row below, and an empty
root that is skipped leaves a tree lower than its row: the tree that an addition carries
is no higher than the number of rows it was carried (`Carried`).

The theorem then meets in the middle. Upwards, `EveryNodeIsPlaced` says that `get_pos` finds a row `R` whose root is the
node's root, and that the node, `d` steps below, has the position of row `R - d` and of an offset
whose last `d` bits are the turns of the way up; the root that `get_pos` finds by its hash is the right
one, since different nodes have different hashes outside of rehashing. `DetectOffsetOf` (from `PositionArithmetic`) says what tree,
length and bits `detect_offset` reads off such a position, and `GrabNodeArrives` that
following those bits from the root, one niece at a time, arrives at the node, its sibling beside it.
`BitHasRoot`, `RootHasBit`, `RootRowFinds` and `BiggerTreesComeFirst` join the list of roots with
the one bits of the leaf count.

### The trees (`HashTreesProofs`, `MemForestRefinement`)

`TreeAt` reads the tree at a node off the pointers and the leaves, not off the hashes of the
branches. It exists because a parent is younger than its children (`TreesInEquation`), and
is no higher than the node is young, so that it is one of the trees of `HashTrees` with
`MaxHeight` = `MaxNodes`. Outside of rehashing, `HashesCommit` and an induction on the nodes
make every hash the tree below it (`HashIsTree`); for the roots that is `RootHashesCommit`.

`ImplementsAccumulatorHolds` is `Spec => Abstract!AccSpec`. The abstract roots are the trees of
the roots (`RootTrees`) and, during an addition, what the merges to come will make of them
(`JoinTree`): the leaf counts as added as soon as its node is made. An action is
either seen as one abstract step, or not at all:

- `DelRoot`, `DelRootChild`, `DelInner` are the deletion of one leaf. Three lemmas say what a step does to
  the trees of all nodes at once: nodes whose children stay keep their trees (`StayedTrees`);
  deleting a leaf does nothing to trees it is not in (`UntouchedTrees`); when the sibling `s` of
  a leaf `x` takes the place of their parent `p`, every tree becomes itself without `x`, and what is at
  `s` is what was at `p` (`SplicedTrees`). Each is an induction on the nodes;
- `NewLeaf` is the addition of one leaf;
- `SkipEmptyRoot` and `MergeRoot` take the last root and leave the merges to come with the same result:
  `JoinTreeOdd` says that joining `n` leaves, `n` odd, is joining `n \div 2` with the last
  root merged in, an empty one being skipped. That there is such a root for every trailing one bit
  is `TrailingOnesAreOnes` with `RootsMatchLeafCount`. `PushRoot` ends the merges (`JoinTreeEven`);
- `RecomputeHash` changes hashes of branches, which no tree depends on.

### Positions (`PositionArithmetic`, `PositionProofs`)

A position is written as `First(row, rows) + off`, the start of its row and the offset in it, with
`First(row, rows)` = 2^(rows+1) - 2^(rows+1-row). There is one lemma for each operator that says what
it does to row and offset: `ParentOf` halves the offset, `ChildrenOf` doubles it, `SiblingOf` swaps
its last bit, `CalcNextPosOf` drops bit `d` where the masks fit (`RemoveBitThatFits`), `TranslateOf` changes `rows` and nothing else,
`DetectRowOf` reads the row off the leading ones (`RowBits`). The operators are shifts and masks on
numbers that are sums of powers of two; the lemmas turn them into quotients and remainders, and
those into linear facts about a few products. A power of two needs facts that the provers do not have; it is
the number of subsets of a set of `k` elements (`PowerCounts`), from which follow the others (`Powers`, `PowerSum`,
`PowerMonotone`).

Where a node is in the forest is a fact about the leaves below it: `Covers(row, off, n)` says that
they are all filled, `Tops` that it is a root. `TopsFacts` relates the two to the one bits of the
leaf count, from which follow `RootPositionOf` and `IsRootPositionOf`.

`detect_offset` walks the rows from the top with a marker for the tree and an offset that is left.
`DetectOffsetOf` has the loop's invariant: after it has passed the rows above `k`, the offset that is left is that of
the node's first leaf slot less the leaves of the trees passed, which is below the leaf count's
remainder exactly when the node is in a tree further down (`HoldsNodeOf`). In `OffsetTurn`
the loop is a recursion on the number of turns, so that it can be reasoned about.

The invariant `IInv` of the node that is followed is that it is in the forest, and at the position of its row and
offset; with it, the theorems are what the lemmas say. `MaxLeavesAssumption` is that
the leaves fit in a forest of less than `MaxForestRows` rows: in the code, 2^62 leaves.
`PositionTracksNodeHolds` is about deletions of subtrees that hang less than `LiteralBits` - 2 rows
above the node, 30 in the code: `SiblingDeleted` takes no others, since with them the property is false.
`RemoveBitLosesTheTop` says how: at bit `LiteralBits` - 1 the upper mask has all its bits set, and
what was above that bit is lost (section 6). Every deletion in a forest of less than 2^31 leaves is of this kind.

### The stump, with any proof (`StumpProofs`)

`ModifyIsSound` says of a stump whose roots are whole trees without a common leaf: if `modify` accepts
a block, then the leaves it was asked to delete are leaves of its roots, they are all that goes, each
sibling takes its parent's place, and the new leaves are merged in as in `HashTrees`. Nothing is
assumed of the proof but that it has two lists: it may be stale, name a target twice, have too many
hashes, hashes of other trees, the empty hash, or things that are no hash at all.

- Of `nodes.sort()` the argument uses only that it rearranges (`SortNodesArranges`). So it holds whatever the
  order among equal positions, which in the code is that of the hashes' bytes.
- `Advance`, `HashPair` and `HashTurn` keep account of every node: the loop takes each provided or computed node
  once, keeps it as a root or joins two (`DeleteTurnFacts`). Positions and the test for a sibling can
  only make the loop fail, and so are not looked at.
- The loop is then read backwards (`HashUpSound`). The roots it ends with were accepted by `ReplaceRoots`,
  which pairs each with another root of the stump (`ReplaceRootsMatches`): so their old hashes are whole trees, no two
  with a common leaf. If that is so after a turn it is so before it (`MergedTrees`), since the pair of a whole
  tree can only be the hash of its halves: hence of all the nodes given, targets included. Forwards, the new
  hashes are what deletion makes of the old ones, `JoinDelete` being `Joined` (`MovedTrees`). The targets are all that
  start with an empty new hash.
- After `remove`, `add` (`AddLeafJoins`, `StumpAddGrows`). `IsTower` relates the heights of the roots to the one
  bits of the leaf count: there is a root for each, no higher than the bit's row. Hence the trailing one bits have
  their roots to pop (`TowerOnes`), the roots stay within `MaxHeight`, and merging is `JoinTree` (`TreeJoins`).
  The positions that `add` computes have no part in it.

`NodeInv`, the invariant of `StumpNode`, is that forest and stump have such roots, of leaves that were
added, now and in what a reorganisation would put back. There is a lemma per action (`BlockKeeps`,
`HoldKeeps`, `HeldBlockKeeps`, `UndoKeeps`, `RestartKeeps`). `Restart` is `WrittenIsRead`: what
`deserialize` reads from what `serialize` wrote is the stump, root for root, the empty ones too.
`StaleProofsAreSafe` is then `ModifyIsSound` of the held proof.

### The stump, with the forest's proofs (`StumpCompleteness`)

So far it is soundness: what the stump accepts is right. `StumpFollows` adds completeness: with the proof
that the forest makes for a block, `modify` goes through (`ModifyAccepts`), so that stump and forest
have the same roots after any history. Soundness can leave the positions out of account; here they are
what the argument is about.

- `NodesOf` is a map (`NodesMapped`): one tree at a position, each but the roots a half of the one at its
  parent's position. The row of a root is that of its one bit (`RootsOnRows`), and a tree of a height up to
  `row` fits below a position of that row (`SpotBelow`, `PlacedIsTree`). So the positions of a set of members are as many as they
  are, `Ascending` lists them (`AscendingFacts`), and `InOrder` lists the members (`InOrderLists`).
- What the targets need (`ClimbIsPlan`): the computed positions are the least set that has the
  targets and the parents of what it has (`ComputedIsClimb`; that `rows + 1` rounds are enough is by the row);
  with the siblings that are missing, every position that is no root has its sibling, and its parent is
  not among what is provided. No target is an inner node, and none is in an emptied tree.
- Positions sent as of 63 rows come back as what they were (`TranslatedBack`), hence `get_proof_positions` of the
  stump is that of the forest (`MadeProof`), and the nodes, once sorted, are the plan's, each once (`SortedNodes`, `ProofGives`).
- The loop takes positions in ascending order (`NextIsLowest`). A turn at `b` finds everything below `b` taken, every parent
  of it made, and no pair half taken (`IsUpTo`). A node's parent is above the node's sibling (`IsHalfOf`),
  so the next node is the sibling (`PairTurn`), and the parent is appended in order (`AppendRises`), which the
  code relies on for its second queue. As many turns as nodes end with nothing left (`HashUpFinds`).
- The roots found are at different positions of the forest, hence different roots (`RootsAreFound`), and
  `ReplaceRoots` matches every one (`AllRootsMatched`).

`FollowInv` adds to `NodeInv` that forest and stump agree, also in what a reorganisation would put
back, and that the held proof is for leaves; again there is a lemma per action.

`FirstRowProofsVerify` follows from the same invariant. What `verify` hashes is what `modify` hashes, less the new
values (`OldNodesInOrder`, `HashUpOld`): so it ends without an error and with roots of the forest, each once, for the targets that
need no translation. It reads the stump's roots once, from the last, and takes the next computed root
where it meets it (`MatchNext`). For that the order matters, of which `modify` makes nothing: the loop goes
up by position and so finds the roots of lower trees first (`LowerRowsFirst`), which are last in the stump
(`RootSpotsFall`, `ReadsBack`). So all of them are read, none is left, and the count is not looked at (`AllAreRead`).

### Assumptions, and what is only model-checked

`MaxForestRows`, `MaxLeaves`, `MaxDels`, `MaxNodes`, `MaxHeight` and `AddSizes` are naturals or sets of
them, `LiteralBits` is at least 2, and the leaves fit in less than `MaxForestRows` rows, 63 in the code, and in trees of `MaxHeight` (`BoundsAssumption`
of `MemForest` and of `StumpNode`, `MaxLeavesAssumption`, `PositionsAssumption`, `MaxHeightAssumption`, `MaxForestRowsAssumption`, `LiteralBitsAssumption`); TLC evaluates
them in the runs. `MaxNodes` bounds the heap: a forest that does not fit takes no step. Hashes are free of
collisions, by their construction.

Only model-checked:

- liveness (`CallReturns`): the prover has no rules for fairness;
- that the MemForest's `prove` returns the proof that `Accumulator` promises (`ProofIsAsPromised`): the way down by
  `grab_node` (`PositionsLeadBackHolds`) still has to be related to the positions of `NodesOf`;
- that `verify` accepts no held proof of a leaf that is gone (`SingleProofIsSound`): it hashes at untranslated positions, and
  of such a run of the loop nothing is proved;
- what the update data of `modify` say of simple blocks (`NewNodesAreWhereTheySay`, `DestroyedRootsReported`): `roots_to_destroy` and
  the positions that `add` computes are folds over sequences, of which nothing can be proved unless the fold is
  written as a function of the number of turns, and then about positions, as above;
- the wallet and the pollard, whose operations are such folds throughout.

## 5. Not modelled

- SHA-512/256, string and byte conversions, `Display` and the printers of forests, serde;
- the pollard's `recompute_hashes_down`, which no call reaches, its printers, and the lists
  of new nodes and overwritten roots that `add_single` returns and `modify` drops;
- read and write errors on truncated streams;
- `MemForest`'s derived `Clone`, which shares nodes between the copies;
- benches, examples and CI.

## 6. Where the code and its documentation part

1. `finding_moved_leaf`. `calculate_hashes` (`src/proof/mod.rs:615`) hashes at untranslated
   positions. A leaf above the bottom row, moved up by a deletion or added over an emptied root, cannot
   be verified: its own fresh proof is refused. `FirstRowVerifies` is what does hold.
2. `finding_stale_proof`. `verify` (`src/proof/mod.rs:357`) accepts when as many roots match as do
   not. A stale proof over two trees may be accepted after one of them has changed.
   `SingleProofIsSound` is what does hold; `Stump::modify` checks on its own and is not affected
   (`OnlyMembersAreDeleted`, proved for any proof: `ModifyIsSound`).
3. `finding_wallet_batch`. `roots_to_destroy` (`src/util/mod.rs:162`) keeps its row counter from one
   addition to the next, so with several additions it may report an empty root that is not
   written over, or miss one that is. `Stump::add` then places a new leaf where it is not,
   and a wallet that remembers it holds a proof that the stump refuses, against `update`'s
   documentation (`src/proof/mod.rs:695`).
4. `finding_wallet_remember`. `update_proof_add` (`src/proof/mod.rs:773`) searches all the leaves
   to remember with one iterator; one that lies below the previous is skipped in silence.

5. `finding_pollard_forgets`. `ingest_positions` (`src/pollard/mod.rs:918`) puts a new node in place of
   each root the proof computes. The old root owned all cached branches of its tree; only those
   on the proof's paths are rebuilt. Since `modify` ingests the block's proof first, each block
   with deletions makes the pollard forget the remembered leaves of the trees it touches, against
   lines 7-9 of the module's documentation. `OtherTreesAreKept` and `RememberedCanBeProved` are what
   does hold.
6. `finding_pollard_from_stump`. `from_roots` (`src/pollard/mod.rs:799`) looks for the root of row `x` at
   index `x`, but a stump's list has no gaps and begins with the biggest tree.
7. No run, but the theorem `RemoveBitLosesTheTop`: `remove_bit` (`src/util/mod.rs:23` and `27`) computes its
   masks as `i32`, against the comment above it (line 20). From bit 30 a
   build with overflow checks panics; from bit 31 one without drops bits that it should keep, so that
   `calc_next_pos` is wrong in forests of 2^33 leaves or more. `PositionTracksNode`, where the masks fit, is what
   does hold. The same bounds apply to what is built on `calc_next_pos`: the update data of
   `Stump::add` and `Proof::update`. Roots and verification do not depend on it, except that where it panics
   `Stump::modify` does too: `StumpFollows` is about a build without overflow checks, or less than 2^31 leaves.

Properties of the pollard leave out what they name, because the code does otherwise:

- a block that empties one half of a tree (`AnyBlock`): the new root keeps the nieces it had, leaves
  that are gone can be "proved", and of three deletions in one half the third may fail with the first two done;
- `RestartForgetsNothing` is about leaves without nieces: a leaf that a deletion has moved up owns its
  sibling's branches, is written as a branch, and is not in the map when it is read back;
- `CallsSucceed` allows one error, which changes nothing, to a call that ingests and remembers leaves of several
  trees: `roots()` is in ascending order and `verify` expects a stump's, so `verify_and_ingest` refuses valid
  proofs over several trees;
- `RememberedCanBeProved` leaves out leaves that are roots: ingesting one replaces its node, and the
  map still names the old one;
- `leaf_map` also holds inner nodes, siblings and dead entries; the properties are about leaves.

## 7. Plan

Done: positions, MemForest with proofs, storage, proof verification, stump, cached proofs,
Pollard, and their compositions with the forest.

Proved: the arithmetic of positions (what the run `positions` checks); of the MemForest its invariant, the
ownership of the nodes, the heights of the trees, the way to a node and back, and both refinements; of the stump that
it follows the forest, whatever proofs it is given in between, and verifies the forest's proofs of leaves in the
first row. What remains is proof: that `prove` makes the proof that the stump accepts (`ProofIsAsPromised`); then what
`CachedProof` does to a proof, and the pollard's heap.
