------------------------------ MODULE NodeHash ------------------------------
(***************************************************************************)
(* The hashes of the accumulator (src/node_hash/mod.rs).                   *)
(*                                                                         *)
(* Hashing is symbolic and therefore collision free: a leaf hash names the *)
(* leaf (LeafHash(i) is the i-th leaf ever added), and a parent hash is    *)
(* the pair of the hashes it was computed from.  A root hash is then the   *)
(* whole tree below it.  Every hash is a tuple, and tuples of different    *)
(* kinds have different lengths, so any two hashes can be compared.        *)
(***************************************************************************)
EXTENDS Naturals, Sequences

Empty        == <<>>
Placeholder  == <<0, 0, 0>>
LeafHash(i)  == <<i>>

ParentHash(l, r) == <<l, r>>

IsEmpty(h)      == h = Empty
IsLeafHash(h)   == Len(h) = 1
IsBranchHash(h) == Len(h) = 2

(***************************************************************************)
(* The encoding of a hash: one tag token, and the 32 bytes (one token      *)
(* here) only for a Some.  Read consumes what Write produced, and nothing  *)
(* more: it returns the hash and the rest of the input.                    *)
(***************************************************************************)
WriteHash(h) ==
    CASE h = Empty       -> <<"tag0">>
      [] h = Placeholder -> <<"tag1">>
      [] OTHER           -> <<"tag2", h>>

ReadHash(in) ==
    CASE Head(in) = "tag0" -> [hash |-> Empty,       rest |-> Tail(in)]
      [] Head(in) = "tag1" -> [hash |-> Placeholder, rest |-> Tail(in)]
      [] Head(in) = "tag2" -> [hash |-> in[2],       rest |-> Tail(Tail(in))]
=============================================================================
