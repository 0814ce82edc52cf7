----------------------------- MODULE MerkleTree -----------------------------
(***************************************************************************)
(* The proof tree: internal/merkle/tree.go, as far as proofs go: the node  *)
(* cache, Update, GenerateProof and VerifyProof. A hash is a constructor   *)
(* applied to the data, so that equal hashes mean equal data, as with      *)
(* SHA-256 in practice.                                                    *)
(***************************************************************************)
EXTENDS Sequences, Maps

NewTree3D == << >>   \* no address has a node

Hash(data) == [sha256 |-> data]

Update(nodes, a, data) == Assigned(nodes, a, Hash(data))

GenerateProof(nodes, a) ==
    IF a \in DOMAIN nodes THEN <<nodes[a]>> ELSE << >>

(* Neither the address nor the tree is consulted. *)
VerifyProof(proof, data) == proof # << >> /\ proof[1] = Hash(data)

=============================================================================
