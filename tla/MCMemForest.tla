---------------------------- MODULE MCMemForest ----------------------------
(***************************************************************************)
(* The properties of MemForest, and the constants of its runs.             *)
(***************************************************************************)
EXTENDS MemForest

\* prove returns exactly the proof the forest promises: the targets where
\* they are, in the caller's order, and the hashes at the positions a
\* verifier cannot compute, in ascending order.
ProofIsAsPromised ==
    pc = "idle" =>
        \A t \in {<<a, b>> : a, b \in DOMAIN map} : Prove(t) = Abstract!ProofOf(Roots, leaves, t)

\* A call that has started returns.
CallReturns == (pc # "idle") ~> (pc = "idle")
=============================================================================
