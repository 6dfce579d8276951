---------------------------- MODULE PollardPeer ----------------------------
(***************************************************************************)
(* A peer that keeps a pollard beside the forest of module Accumulator.    *)
(*                                                                         *)
(* Blocks come with a proof of what they delete; the peer remembers some of*)
(* the leaves they add.  In between it ingests proofs of leaves it wants to *)
(* serve, prunes leaves it can prove, restarts from what it has serialized,*)
(* or starts again from its roots.  Proofs give the targets as positions of *)
(* the forest as high as it is.                                            *)
(***************************************************************************)
EXTENDS Accumulator, Pollard

CONSTANTS
    AddSizes,       \* bound: how many leaves one block may add
    Sizes,          \* bound: numbers of leaves the forest may have
    ServeUpTo,      \* bound: leaves of a forest in which there are other calls than blocks
    MaxDels,        \* bound: leaves deleted by one block
    Memorable,      \* bound: which leaves of a block, by their number in it, may be remembered
    MaxIngested,    \* bound: targets of an ingested proof
    MaxPruned,      \* bound: leaves pruned in one call
    AnyBlock        \* may a block empty one half of a tree, of several leaves, and not the other?

VARIABLES
    pollard,
    wanted,     \* the leaves the peer was asked to keep, and not to delete or prune since
    last        \* the last call: its status, the leaves it was about, those it was to remember

vars == <<roots, leaves, pollard, wanted, last>>

Init ==
    /\ AccInit
    /\ pollard = NewPollard
    /\ wanted = {}
    /\ last = [status |-> "ok", about |-> {}, remembered |-> {}]

\* A call leaves its pollard behind, whatever its outcome.
Call(result, about, remembered) ==
    /\ \E p \in {Collected(result.p, {})} : \E order \in {MetInOrder(p)} : pollard' = Renamed(p, order)
    /\ last' = [status |-> result.status, about |-> about, remembered |-> remembered]

-----------------------------------------------------------------------------
(***************************************************************************)
(* Blocks.                                                                 *)
(***************************************************************************)
\* The leaves of one half of a tree, several of them, go; the others do not all.
EmptiesHalf(D) ==
    \E t \in ToSet(roots) :
        /\ IsBranchHash(t)
        /\ \E half \in {t[1], t[2]} :
               IsBranchHash(half) /\ LeavesOf(half) \subseteq D /\ ~ LeavesOf(t) \subseteq D

\* The subsets of S with up to n elements.
AtMost(n, S) ==
    LET upTo[k \in 0..n] == IF k = 0 THEN {{}} ELSE {T \cup {x} : T \in upTo[k - 1], x \in S} \cup {{}}
    IN  upTo[n]

\* The forest's own proof of the leaves T, and where those of R are.
Targets(T)   == InOrder(roots, leaves, T)
ProofHere(T) == ProofInPlace(roots, leaves, Targets(T))
PositionsOf(R) ==
    LET nodes == NodesOf(roots, leaves) IN {PositionIn(nodes, h) : h \in R}

Block ==
    \E k \in {n \in AddSizes : leaves + n \in Sizes} :
        \E D \in AtMost(MaxDels, Members(roots)) : \E proof \in {ProofHere(D)} :
            \E R \in SUBSET (Memorable \cap 1..k) :
                LET added == NewLeaves(leaves, k)
                    adds  == [i \in 1..k |-> [hash |-> added[i], remember |-> i \in R]]
                    kept  == {added[i] : i \in R}
                IN  /\ AnyBlock \/ ~ EmptiesHalf(D)
                    /\ Change(D, k)
                    /\ \E result \in {Modify(pollard, adds, Targets(D), proof)} : Call(result, D, kept)
                    /\ wanted' = (wanted \ D) \cup kept

-----------------------------------------------------------------------------
(***************************************************************************)
(* Caching and uncaching.                                                  *)
(***************************************************************************)
\* What ingesting a proof of T, to remember R, comes to.
Cached(result, T, R) ==
    /\ Call(result, T, R)
    /\ wanted' = IF result.status = "ok" THEN wanted \cup R ELSE wanted
    /\ UNCHANGED <<roots, leaves>>

Ingest ==
    /\ leaves <= ServeUpTo
    /\ \E T \in AtMost(MaxIngested, Members(roots)) \ {{}} : \E R \in SUBSET T :
           \E result \in {IngestProof(pollard, ProofHere(T), Targets(T), Listing(PositionsOf(R)))} :
               Cached(result, T, R)

IngestVerified ==
    /\ leaves <= ServeUpTo
    /\ \E T \in AtMost(MaxIngested, Members(roots)) \ {{}} :
           \E result \in {VerifyAndIngest(pollard, ProofHere(T), Targets(T), Listing(PositionsOf(T)))} :
               Cached(result, T, T)

Provable(p, h) == BatchProof(p, <<h>>).ok

ProvableLeaves(p) == {h \in DOMAIN p.map : IsLeafHash(h) /\ Provable(p, h)}

PruneSome ==
    /\ leaves <= ServeUpTo
    /\ \E S \in AtMost(MaxPruned, ProvableLeaves(pollard) \cap Members(roots)) \ {{}} :
           /\ Call(Prune(pollard, Ascending({PosOf(pollard, h) : h \in S})), S, {})
           /\ wanted' = wanted \ S
           /\ UNCHANGED <<roots, leaves>>

-----------------------------------------------------------------------------
(***************************************************************************)
(* Starting again.                                                         *)
(***************************************************************************)
Restart ==
    /\ leaves <= ServeUpTo
    /\ Call(Returns("ok", PollardDeserialize(PollardSerialize(pollard))), {}, {})
    /\ UNCHANGED <<roots, leaves, wanted>>

\* From the roots alone, when every row has one.
StartFromRoots ==
    /\ leaves + 1 \in {2^k : k \in 1..MaxForestRows}
    /\ Call(Returns("ok", FromRoots(PollardRoots(pollard), leaves)), Members(roots), {})
    /\ wanted' = {}
    /\ UNCHANGED <<roots, leaves>>

Next == Block \/ Ingest \/ IngestVerified \/ PruneSome \/ Restart \/ StartFromRoots

\* The last call and what was wanted decide nothing that happens later.
View == <<roots, leaves, pollard>>

Spec == Init /\ [][Next]_vars
=============================================================================
