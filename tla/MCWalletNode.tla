--------------------------- MODULE MCWalletNode ---------------------------
(***************************************************************************)
(* The properties of WalletNode.                                           *)
(***************************************************************************)
EXTENDS WalletNode

\* A cached proof follows the forest: after any history of blocks it is,
\* position by position and hash by hash, the proof that the forest would
\* make of the same leaves.
CacheIsTheForestsProof ==
    /\ ToSet(cache.hashes) \subseteq Members(roots)
    /\ cache.hashes = InOrder(roots, leaves, ToSet(cache.hashes))
    /\ cache.proof = ProofHere(cache.hashes)

\* The wallet has a proof of exactly the leaves it remembered or fetched and
\* that no block has spent: update fails on no block, un-caches what the
\* block deletes and caches what it is asked to.
NothingIsForgotten == ToSet(cache.hashes) = wanted

\* The stump accepts the cached proof, and lets its leaves be spent with it.
CacheIsSpendable ==
    /\ StumpVerify(stump, cache.proof, cache.hashes) = "valid"
    /\ StumpModify(stump, <<>>, cache.hashes, cache.proof).ok
=============================================================================
