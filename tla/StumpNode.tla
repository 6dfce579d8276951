----------------------------- MODULE StumpNode -----------------------------
(***************************************************************************)
(* A node that keeps a stump beside a forest that keeps everything.        *)
(*                                                                         *)
(* The forest (module Accumulator, what MemForest implements) changes block*)
(* by block and proves the leaves each block deletes; the node applies the *)
(* block to its stump with that proof.  The node also holds a proof it     *)
(* asked for earlier: blocks pass, or are undone, and the proof is stale   *)
(* when it is verified or used.  The node may be shut down and restart     *)
(* from the serialized stump, and a reorganisation may undo the last block.*)
(***************************************************************************)
EXTENDS Accumulator, Stump

CONSTANTS
    AddSizes,   \* bound: how many leaves one block may add
    MaxDels,    \* bound: leaves deleted by one block
    MaxHeld,    \* bound: targets of the held proof
    HoldUpTo    \* bound: leaves of the forest while a proof is held

\* There are positions for all the leaves, in fewer than MaxForestRows rows (at
\* MaxForestRows the code's masks and shifts overflow the word), and trees as
\* high as they need.
ASSUME BoundsAssumption ==
    /\ MaxLeaves \in Nat /\ MaxLeaves <= 2^(MaxForestRows - 1) /\ MaxLeaves < 2^(MaxHeight + 1)
    /\ HoldUpTo \in 0..MaxLeaves
    /\ AddSizes \subseteq Nat

VARIABLES
    stump,      \* the node's Stump
    update,     \* what its last modify returned
    held,       \* a proof asked for earlier, and the hashes it was asked for
    previous    \* forest and stump before the last block, kept for a reorg

vars == <<roots, leaves, stump, update, held, previous>>

NoUpdate == [ok |-> FALSE]
NoneHeld == [hashes |-> <<>>, proof |-> NoProof]

ForestNow == [roots |-> roots, leaves |-> leaves, stump |-> stump]

-----------------------------------------------------------------------------
Init ==
    /\ AccInit
    /\ stump = NewStump
    /\ update = NoUpdate
    /\ held = NoneHeld
    /\ previous = {}

\* The stump applies what it is given; a refused block leaves it alone.
ApplyToStump(utxos, delHashes, proof) ==
    /\ update' = StumpModify(stump, utxos, delHashes, proof)
    /\ stump' = IF update'.ok THEN update'.stump ELSE stump

\* A block, with the proof the forest makes for it.
Block ==
    \E k \in AddSizes : \E D \in SUBSET Members(roots) :
        /\ leaves + k <= IF held = NoneHeld THEN MaxLeaves ELSE HoldUpTo
        /\ Cardinality(D) <= MaxDels
        /\ Change(D, k)
        /\ ApplyToStump(NewLeaves(leaves, k), InOrder(roots, leaves, D),
                        ProofOf(roots, leaves, InOrder(roots, leaves, D)))
        /\ previous' = {ForestNow}
        /\ UNCHANGED held

\* Ask the forest for a proof, to use it later.
HoldProof ==
    \E k \in 1..MaxHeld : \E D \in kSubset(k, Members(roots)) :
        /\ held = NoneHeld
        /\ leaves <= HoldUpTo
        /\ held' = [hashes |-> InOrder(roots, leaves, D),
                    proof |-> ProofOf(roots, leaves, InOrder(roots, leaves, D))]
        /\ UNCHANGED <<roots, leaves, stump, update, previous>>

\* A block that deletes the targets of the held proof, with that proof.
BlockWithHeldProof ==
    /\ held # NoneHeld
    /\ ApplyToStump(<<>>, held.hashes, held.proof)
    /\ held' = NoneHeld
    /\ previous' = {ForestNow}
    /\ IF update'.ok THEN Change(ToSet(held.hashes), 0) ELSE UNCHANGED <<roots, leaves>>

\* A reorganisation: forest and stump go back to before the last block.
Undo ==
    \E old \in previous :
        /\ roots' = old.roots
        /\ leaves' = old.leaves
        /\ stump' = old.stump
        /\ previous' = {}
        /\ update' = NoUpdate
        /\ UNCHANGED held

Restart ==
    /\ stump' = StumpDeserialize(StumpSerialize(stump))
    /\ update' = NoUpdate
    /\ UNCHANGED <<roots, leaves, held, previous>>

Next == Block \/ HoldProof \/ BlockWithHeldProof \/ Undo \/ Restart

Spec == Init /\ [][Next]_vars
=============================================================================
