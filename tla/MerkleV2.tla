------------------------------ MODULE MerkleV2 ------------------------------
(***************************************************************************)
(* The Merkle tree of batch anchors (packages/pog/src/merkle.ts): a batch  *)
(* of digests is put together, then somebody claims a value to be in it    *)
(* and gives a proof, sibling by sibling.                                  *)
(*                                                                         *)
(* keccak256 is free of collisions: a hash is the term it was made from,   *)
(* and a node, which sorts its children, is the set of them.               *)
(***************************************************************************)
EXTENDS Naturals, Sequences, FiniteSets

CONSTANTS Digest, NoClaim,
          MaxBatch,  \* bound: digests in a batch
          MaxProof   \* bound: siblings of a proof

ASSUME MerkleAssumption ==
  MaxBatch \in Nat /\ MaxProof \in Nat /\ NoClaim \notin Digest

VARIABLES
  batch,  \* the digests, in order
  claim,  \* the value claimed to be in the batch
  hash,   \* what verifyMerkleProof has come to
  length  \* of the proof so far

merkleVars == <<batch, claim, hash, length>>
-----------------------------------------------------------------------------
merkleLeaf(d)    == <<"leaf", d>>
merkleNode(a, b) == <<"node", {a, b}>>

\* An odd node is promoted.
BadLevelUp(level) ==
  [k \in 1..((Len(level) + 1) \div 2) |->
     merkleNode(level[2*k - 1], level[IF 2*k <= Len(level) THEN 2*k ELSE 2*k - 1])]
LevelUp(level) ==
  [k \in 1..((Len(level) + 1) \div 2) |->
     IF 2*k <= Len(level) THEN merkleNode(level[2*k - 1], level[2*k])
     ELSE level[2*k - 1]]

\* Level n of the tree; from the root on they are all alike.
Levels(digests) ==
  LET f[n \in 0..Len(digests)] ==
        IF n = 0 THEN [i \in DOMAIN digests |-> merkleLeaf(digests[i])]
        ELSE IF Len(f[n - 1]) > 1 THEN LevelUp(f[n - 1]) ELSE f[n - 1]
  IN f

merkleRoot(digests) == Levels(digests)[Len(digests)][1]

\* The place, at each level, of the node above the digest at the index.
Places(digests, index) ==
  LET f[n \in 0..Len(digests)] == IF n = 0 THEN index ELSE (f[n - 1] + 1) \div 2
  IN f

\* The node beside that one, if there is one.
Sibling(level, i) ==
  LET j == IF i % 2 = 1 THEN i + 1 ELSE i - 1 IN
    IF Len(level) > 1 /\ j <= Len(level) THEN <<level[j]>> ELSE <<>>

\* The proof as far as level n.
ProofUpTo(digests, index) ==
  LET f[n \in 0..Len(digests)] ==
        IF n = 0 THEN <<>>
        ELSE f[n - 1] \o Sibling(Levels(digests)[n - 1], Places(digests, index)[n - 1])
  IN f

merkleProof(digests, index) == ProofUpTo(digests, index)[Len(digests)]

\* What the verifier has come to after n siblings.
HashUpTo(digest, proof) ==
  LET f[n \in 0..Len(proof)] ==
        IF n = 0 THEN merkleLeaf(digest) ELSE merkleNode(f[n - 1], proof[n])
  IN f

verifyMerkleProof(digest, proof, root) == HashUpTo(digest, proof)[Len(proof)] = root
-----------------------------------------------------------------------------
MerkleInit == batch = <<>> /\ claim = NoClaim /\ hash = NoClaim /\ length = 0

AddDigest(d) ==
  /\ claim = NoClaim /\ Len(batch) < MaxBatch
  /\ batch' = Append(batch, d)
  /\ UNCHANGED <<claim, hash, length>>

Hashes ==
  {merkleLeaf(d) : d \in Digest}
    \cup UNION {{Levels(batch)[n][k] : k \in DOMAIN Levels(batch)[n]} :
                 n \in 0..Len(batch)}

\* Anything may be claimed: a digest, or a hash of the tree passed off as one.
ClaimMember(x) ==
  /\ claim = NoClaim /\ batch # <<>>
  /\ claim' = x /\ hash' = merkleLeaf(x)
  /\ UNCHANGED <<batch, length>>

\* A proof is made of the hashes one can know of.
NextSibling(s) ==
  /\ claim # NoClaim /\ length < MaxProof
  /\ hash' = merkleNode(hash, s) /\ length' = length + 1
  /\ UNCHANGED <<batch, claim>>

MerkleNext ==
  \/ \E d \in Digest : AddDigest(d)
  \/ \E x \in Digest \cup Hashes : ClaimMember(x)
  \/ \E s \in Hashes : NextSibling(s)

MerkleSpec == MerkleInit /\ [][MerkleNext]_merkleVars
-----------------------------------------------------------------------------
Batches == UNION {[1..n -> Digest] : n \in 1..MaxBatch}
Copies(d, b) == Cardinality({i \in DOMAIN b : b[i] = d})

\* The proof of each digest of a batch verifies, the last one of an odd level
\* included; no proof leads from anything else to the root; and lists that
\* differ in what they hold, or how often, have different roots (merkle.ts:5).
ProofsBind ==
  batch # <<>> =>
    /\ claim = NoClaim =>
         /\ \A i \in DOMAIN batch :
              verifyMerkleProof(batch[i], merkleProof(batch, i), merkleRoot(batch))
         /\ \A other \in Batches :
              merkleRoot(other) = merkleRoot(batch) =>
                \A d \in Digest : Copies(d, other) = Copies(d, batch)
    /\ claim # NoClaim /\ hash = merkleRoot(batch) =>
         \E i \in DOMAIN batch : batch[i] = claim
=============================================================================
