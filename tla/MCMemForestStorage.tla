------------------------ MODULE MCMemForestStorage ------------------------
(***************************************************************************)
(* The properties of MemForestStorage.                                     *)
(***************************************************************************)
EXTENDS MCMemForest, MemForestStorage

Positions == [h \in DOMAIN map |-> GetPos(map[h])]

\* Reading back what was written gives the same forest: the same trees with
\* the same root hashes, and every leaf is indexed again and found at the
\* position it had.  A forest that has been emptied in part comes back too.
ReloadIsInvisible ==
    [][ Reload => /\ RootTrees' = RootTrees
                  /\ Roots' = Roots
                  /\ leaves' = leaves
                  /\ Positions' = Positions ]_vars
=============================================================================
