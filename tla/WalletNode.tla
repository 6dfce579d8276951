---------------------------- MODULE WalletNode ----------------------------
(***************************************************************************)
(* A wallet that keeps a stump and a proof of its own leaves, beside the   *)
(* forest that proves what each block deletes.                             *)
(*                                                                         *)
(* The wallet fetches a proof or starts with none, has update bring it over*)
(* every block, in which its leaves may be spent and new ones remembered,  *)
(* narrows it when it loses interest in a leaf, and writes it out and reads*)
(* it back.  When a call fails the proof it was called on is gone.         *)
(***************************************************************************)
EXTENDS Accumulator, CachedProof

CONSTANTS
    AddSizes,       \* bound: how many leaves one block may add
    MaxDels,        \* bound: leaves deleted by one block
    MaxRemembered,  \* bound: new leaves remembered in one block
    MaxFetched,     \* bound: leaves of a fetched proof
    AnyBlock        \* do blocks of several leaves also come while a tree is empty?

VARIABLES
    stump,      \* the wallet's Stump
    cache,      \* its proof, and the hashes of the leaves it proves
    wanted      \* the leaves it should have a proof of

vars == <<roots, leaves, stump, cache, wanted>>

NothingCached == [proof |-> NoProof, hashes |-> <<>>]

\* The forest's own proof, with the targets where they are in it.
ProofHere(targets) == ProofInPlace(roots, leaves, targets)

CacheOf(hashes) == [proof |-> ProofHere(hashes), hashes |-> hashes]

-----------------------------------------------------------------------------
Init ==
    /\ AccInit
    /\ stump = NewStump
    /\ cache = NothingCached
    /\ wanted = {}

\* The proof a failed call was given is lost.
Keep(result, hashes) ==
    cache' = IF result.error THEN NothingCached ELSE [proof |-> result.proof, hashes |-> hashes]

\* A block is applied to the stump, and the proof brought over it.  (What is
\* bound with \E over one value is computed once.)
ProcessBlock(k, D, remembers) ==
    LET adds == NewLeaves(leaves, k)
    IN  \E dels \in {InOrder(roots, leaves, D)} :
        \E targets \in {ProofHere(dels).targets} :
        \E update \in {StumpModify(stump, adds, dels, ProofOf(roots, leaves, dels))} :
        \E updated \in {Update(cache.proof, cache.hashes, adds, targets, remembers, update)} :
            /\ Change(D, k)
            /\ update.ok
            /\ stump' = update.stump
            /\ Keep(updated, updated.hashes)
            /\ wanted' = (wanted \ D) \cup {adds[remembers[i] + 1] : i \in 1..Len(remembers)}

Block ==
    \E k \in AddSizes : \E D \in SUBSET Members(roots) :
        \E r \in 0..Min({k, MaxRemembered}) : \E kept \in kSubset(r, 0..(k - 1)) :
            /\ leaves + k <= MaxLeaves
            /\ Cardinality(D) <= MaxDels
            /\ AnyBlock \/ ~ BatchOverEmpty(roots, D, k)
            /\ ProcessBlock(k, D, Ascending(kept))

Fetch ==
    \E k \in 1..MaxFetched : \E D \in kSubset(k, Members(roots)) :
        /\ wanted = {}
        /\ cache' = CacheOf(InOrder(roots, leaves, D))
        /\ wanted' = D
        /\ UNCHANGED <<roots, leaves, stump>>

\* The wallet keeps the proof of some of its leaves only.
Narrow ==
    \E S \in SUBSET (1..Len(cache.hashes)) :
        LET places  == Ascending(S)
            hashes  == [i \in 1..Len(places) |-> cache.hashes[places[i]]]
            targets == [i \in 1..Len(places) |-> cache.proof.targets[places[i]]]
        IN  /\ Keep(GetProofSubset(cache.proof, cache.hashes, targets, leaves), hashes)
            /\ wanted' = ToSet(hashes)
            /\ UNCHANGED <<roots, leaves, stump>>

Restart ==
    /\ stump' = StumpDeserialize(StumpSerialize(stump))
    /\ cache' = [cache EXCEPT !.proof = ProofDeserialize(ProofSerialize(@))]
    /\ UNCHANGED <<roots, leaves, wanted>>

Next == Block \/ Fetch \/ Narrow \/ Restart

Spec == Init /\ [][Next]_vars
=============================================================================
