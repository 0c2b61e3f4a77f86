--------------------------- MODULE MerkleV2Proofs ---------------------------
(***************************************************************************)
(* The Merkle tree of a batch, for any digests and any size of the batch:  *)
(* its proofs verify, nothing else does, and its root tells what it holds. *)
(*                                                                         *)
(* The tree, the proofs and their verification are loops, defined by       *)
(* recursion. What they compute is proved by induction over the natural    *)
(* numbers, stated of a set and not of a predicate.                        *)
(***************************************************************************)
EXTENDS MerkleV2, FiniteSetTheorems, WellFoundedInduction, TLAPS

LEMMA Least ==
  ASSUME NEW T \in SUBSET Nat, T # {}
  PROVE  \E n \in T : \A m \in T : n <= m
<1> DEFINE R == {ss \in Nat \X Nat : ss[1] < ss[2]}
<1>1. IsWellFoundedOn(R, Nat)
  BY NatLessThanWellFounded DEF OpToRel
<1>2. PICK n \in T : \A m \in T : <<m, n>> \notin R
  <2> HIDE DEF R
  <2>1. QED
    BY <1>1, WFMin
<1>3. ASSUME NEW m \in T PROVE n <= m
  <2>1. m \in Nat /\ n \in Nat
    OBVIOUS
  <2>2. ~(m < n)
    BY <1>2, <2>1
  <2>3. QED
    BY <2>1, <2>2
<1>4. QED
  BY <1>3

LEMMA Induction ==
  ASSUME NEW T, 0 \in T, \A n \in Nat : n \in T => n + 1 \in T
  PROVE  \A n \in Nat : n \in T
<1> DEFINE U == {n \in Nat : n \notin T}
<1>1. SUFFICES ASSUME U # {} PROVE FALSE
  OBVIOUS
<1>2. PICK n \in U : \A m \in U : n <= m
  BY <1>1, Least
<1>3. n \in Nat /\ n # 0
  BY <1>2
<1>4. n - 1 \in Nat /\ n - 1 \notin U /\ n = (n - 1) + 1
  BY <1>2, <1>3
<1>5. QED
  BY <1>2, <1>3, <1>4
-----------------------------------------------------------------------------
(***************************************************************************)
(* The levels of a tree.                                                   *)
(***************************************************************************)
Leaves(b) == [i \in DOMAIN b |-> merkleLeaf(b[i])]
Above(level) == IF Len(level) > 1 THEN LevelUp(level) ELSE level

LEMMA LevelsDefined ==
  ASSUME NEW b, Len(b) \in Nat
  PROVE  /\ DOMAIN Levels(b) = 0..Len(b)
         /\ Levels(b)[0] = Leaves(b)
         /\ \A n \in 0..(Len(b) - 1) : Levels(b)[n + 1] = Above(Levels(b)[n])
<1> DEFINE Def(f, n) == IF n = 0 THEN Leaves(b) ELSE Above(f[n - 1])
           T == {m \in Nat : \E g : g = [n \in 0..m |-> Def(g, n)]}
<1>1. 0 \in T
  <2>1. [n \in 0..0 |-> Leaves(b)] = [n \in 0..0 |-> Def([i \in 0..0 |-> Leaves(b)], n)]
    OBVIOUS
  <2>2. QED
    BY <2>1
<1>2. ASSUME NEW m \in Nat, m \in T PROVE m + 1 \in T
  <2>1. PICK g : g = [n \in 0..m |-> Def(g, n)]
    BY <1>2
  <2> HIDE DEF Def
  <2> DEFINE h == [n \in 0..(m + 1) |-> IF n <= m THEN g[n] ELSE Def(g, n)]
  <2>2. ASSUME NEW n \in 0..(m + 1) PROVE h[n] = Def(h, n)
    <3>1. n # 0 => h[n - 1] = g[n - 1]
      OBVIOUS
    <3>2. Def(h, n) = Def(g, n)
      BY <3>1 DEF Def
    <3>3. n <= m => g[n] = Def(g, n)
      BY <2>1
    <3>4. QED
      BY <3>2, <3>3
  <2>3. h = [n \in 0..(m + 1) |-> Def(h, n)]
    BY <2>2
  <2>4. \E f : f = [n \in 0..(m + 1) |-> Def(f, n)]
    <3> HIDE DEF h
    <3>1. QED
      BY <2>3
  <2>5. QED
    BY <2>4
<1>3. PICK g : g = [n \in 0..Len(b) |-> Def(g, n)]
  <2>1. \A m \in Nat : m \in T
    <3> HIDE DEF T
    <3>1. QED
      BY <1>1, <1>2, Induction
  <2>2. Len(b) \in T
    BY <2>1
  <2> HIDE DEF Def
  <2>3. QED
    BY <2>2
<1>4. Levels(b) = [n \in 0..Len(b) |-> Def(Levels(b), n)]
  BY <1>3 DEF Levels, Leaves, Above
<1>5. QED
  BY <1>4

LEMMA PlacesDefined ==
  ASSUME NEW b, NEW index, Len(b) \in Nat
  PROVE  /\ DOMAIN Places(b, index) = 0..Len(b)
         /\ Places(b, index)[0] = index
         /\ \A n \in 0..(Len(b) - 1) :
              Places(b, index)[n + 1] = (Places(b, index)[n] + 1) \div 2
<1> DEFINE Def(f, n) == IF n = 0 THEN index ELSE (f[n - 1] + 1) \div 2
           T == {m \in Nat : \E g : g = [n \in 0..m |-> Def(g, n)]}
<1>1. 0 \in T
  <2>1. [n \in 0..0 |-> index] = [n \in 0..0 |-> Def([i \in 0..0 |-> index], n)]
    OBVIOUS
  <2>2. QED
    BY <2>1
<1>2. ASSUME NEW m \in Nat, m \in T PROVE m + 1 \in T
  <2>1. PICK g : g = [n \in 0..m |-> Def(g, n)]
    BY <1>2
  <2> HIDE DEF Def
  <2> DEFINE h == [n \in 0..(m + 1) |-> IF n <= m THEN g[n] ELSE Def(g, n)]
  <2>2. ASSUME NEW n \in 0..(m + 1) PROVE h[n] = Def(h, n)
    <3>1. n # 0 => h[n - 1] = g[n - 1]
      OBVIOUS
    <3>2. Def(h, n) = Def(g, n)
      BY <3>1 DEF Def
    <3>3. n <= m => g[n] = Def(g, n)
      BY <2>1
    <3>4. QED
      BY <3>2, <3>3
  <2>3. h = [n \in 0..(m + 1) |-> Def(h, n)]
    BY <2>2
  <2>4. \E f : f = [n \in 0..(m + 1) |-> Def(f, n)]
    <3> HIDE DEF h
    <3>1. QED
      BY <2>3
  <2>5. QED
    BY <2>4
<1>3. PICK g : g = [n \in 0..Len(b) |-> Def(g, n)]
  <2>1. \A m \in Nat : m \in T
    <3> HIDE DEF T
    <3>1. QED
      BY <1>1, <1>2, Induction
  <2>2. Len(b) \in T
    BY <2>1
  <2> HIDE DEF Def
  <2>3. QED
    BY <2>2
<1>4. Places(b, index) = [n \in 0..Len(b) |-> Def(Places(b, index), n)]
  BY <1>3 DEF Places
<1>5. QED
  BY <1>4

LEMMA ProofDefined ==
  ASSUME NEW b, NEW index, Len(b) \in Nat
  PROVE  /\ DOMAIN ProofUpTo(b, index) = 0..Len(b)
         /\ ProofUpTo(b, index)[0] = <<>>
         /\ \A n \in 0..(Len(b) - 1) :
              ProofUpTo(b, index)[n + 1] = ProofUpTo(b, index)[n] \o Sibling(Levels(b)[n], Places(b, index)[n])
<1> DEFINE Def(f, n) == IF n = 0 THEN <<>> ELSE f[n - 1] \o Sibling(Levels(b)[n - 1], Places(b, index)[n - 1])
           T == {m \in Nat : \E g : g = [n \in 0..m |-> Def(g, n)]}
<1>1. 0 \in T
  <2>1. [n \in 0..0 |-> <<>>] = [n \in 0..0 |-> Def([i \in 0..0 |-> <<>>], n)]
    OBVIOUS
  <2>2. QED
    BY <2>1
<1>2. ASSUME NEW m \in Nat, m \in T PROVE m + 1 \in T
  <2>1. PICK g : g = [n \in 0..m |-> Def(g, n)]
    BY <1>2
  <2> HIDE DEF Def
  <2> DEFINE h == [n \in 0..(m + 1) |-> IF n <= m THEN g[n] ELSE Def(g, n)]
  <2>2. ASSUME NEW n \in 0..(m + 1) PROVE h[n] = Def(h, n)
    <3>1. n # 0 => h[n - 1] = g[n - 1]
      OBVIOUS
    <3>2. Def(h, n) = Def(g, n)
      BY <3>1 DEF Def
    <3>3. n <= m => g[n] = Def(g, n)
      BY <2>1
    <3>4. QED
      BY <3>2, <3>3
  <2>3. h = [n \in 0..(m + 1) |-> Def(h, n)]
    BY <2>2
  <2>4. \E f : f = [n \in 0..(m + 1) |-> Def(f, n)]
    <3> HIDE DEF h
    <3>1. QED
      BY <2>3
  <2>5. QED
    BY <2>4
<1>3. PICK g : g = [n \in 0..Len(b) |-> Def(g, n)]
  <2>1. \A m \in Nat : m \in T
    <3> HIDE DEF T
    <3>1. QED
      BY <1>1, <1>2, Induction
  <2>2. Len(b) \in T
    BY <2>1
  <2> HIDE DEF Def
  <2>3. QED
    BY <2>2
<1>4. ProofUpTo(b, index) = [n \in 0..Len(b) |-> Def(ProofUpTo(b, index), n)]
  BY <1>3 DEF ProofUpTo
<1>5. QED
  BY <1>4

LEMMA HashDefined ==
  ASSUME NEW x, NEW proof, Len(proof) \in Nat
  PROVE  /\ DOMAIN HashUpTo(x, proof) = 0..Len(proof)
         /\ HashUpTo(x, proof)[0] = merkleLeaf(x)
         /\ \A n \in 0..(Len(proof) - 1) :
              HashUpTo(x, proof)[n + 1] = merkleNode(HashUpTo(x, proof)[n], proof[n + 1])
<1> DEFINE Def(f, n) == IF n = 0 THEN merkleLeaf(x) ELSE merkleNode(f[n - 1], proof[n])
           T == {m \in Nat : \E g : g = [n \in 0..m |-> Def(g, n)]}
<1>1. 0 \in T
  <2>1. [n \in 0..0 |-> merkleLeaf(x)] = [n \in 0..0 |-> Def([i \in 0..0 |-> merkleLeaf(x)], n)]
    OBVIOUS
  <2>2. QED
    BY <2>1
<1>2. ASSUME NEW m \in Nat, m \in T PROVE m + 1 \in T
  <2>1. PICK g : g = [n \in 0..m |-> Def(g, n)]
    BY <1>2
  <2> HIDE DEF Def
  <2> DEFINE h == [n \in 0..(m + 1) |-> IF n <= m THEN g[n] ELSE Def(g, n)]
  <2>2. ASSUME NEW n \in 0..(m + 1) PROVE h[n] = Def(h, n)
    <3>1. n # 0 => h[n - 1] = g[n - 1]
      OBVIOUS
    <3>2. Def(h, n) = Def(g, n)
      BY <3>1 DEF Def
    <3>3. n <= m => g[n] = Def(g, n)
      BY <2>1
    <3>4. QED
      BY <3>2, <3>3
  <2>3. h = [n \in 0..(m + 1) |-> Def(h, n)]
    BY <2>2
  <2>4. \E f : f = [n \in 0..(m + 1) |-> Def(f, n)]
    <3> HIDE DEF h
    <3>1. QED
      BY <2>3
  <2>5. QED
    BY <2>4
<1>3. PICK g : g = [n \in 0..Len(proof) |-> Def(g, n)]
  <2>1. \A m \in Nat : m \in T
    <3> HIDE DEF T
    <3>1. QED
      BY <1>1, <1>2, Induction
  <2>2. Len(proof) \in T
    BY <2>1
  <2> HIDE DEF Def
  <2>3. QED
    BY <2>2
<1>4. HashUpTo(x, proof) = [n \in 0..Len(proof) |-> Def(HashUpTo(x, proof), n)]
  BY <1>3 DEF HashUpTo
<1>5. QED
  BY <1>4

Batch == Seq(Digest) \ {<<>>}

LEMMA BatchIs ==
  ASSUME NEW b \in Batch
  PROVE  /\ Len(b) \in Nat \ {0} /\ DOMAIN b = 1..Len(b)
         /\ \A i \in DOMAIN b : b[i] \in Digest
BY DEF Batch

\* A list with something in it.
Listed(s) ==
  /\ Len(s) \in Nat \ {0} /\ DOMAIN s = 1..Len(s)
  /\ s = [i \in 1..Len(s) |-> s[i]]

LEMMA ListOf ==
  ASSUME NEW k \in Nat \ {0}, NEW s, s = [i \in 1..k |-> s[i]]
  PROVE  Listed(s) /\ Len(s) = k
<1> DEFINE S == {s[i] : i \in 1..k}
<1>1. s \in [1..k -> S]
  OBVIOUS
<1>2. s \in Seq(S) /\ DOMAIN s = 1..k
  BY <1>1
<1>3. Len(s) = k
  <2> HIDE DEF S
  <2>1. QED
    BY <1>2
<1>4. QED
  BY <1>3 DEF Listed

\* What one turn of the loop makes of a level.
LEMMA AboveIs ==
  ASSUME NEW s, Listed(s)
  PROVE  /\ Listed(Above(s))
         /\ Len(s) = 1 => Above(s) = s
         /\ Len(s) > 1 =>
              /\ Len(Above(s)) = (Len(s) + 1) \div 2
              /\ \A k \in 1..Len(Above(s)) :
                   Above(s)[k] = IF 2*k <= Len(s) THEN merkleNode(s[2*k - 1], s[2*k])
                                 ELSE s[2*k - 1]
<1>1. CASE Len(s) = 1
  BY <1>1 DEF Above
<1>2. CASE Len(s) > 1
  <2> DEFINE k == (Len(s) + 1) \div 2
             up == [i \in 1..k |-> IF 2*i <= Len(s) THEN merkleNode(s[2*i - 1], s[2*i])
                                   ELSE s[2*i - 1]]
  <2>1. Above(s) = up
    BY <1>2 DEF Above, LevelUp
  <2>2. k \in Nat \ {0}
    BY <1>2 DEF Listed
  <2>3. up = [i \in 1..k |-> up[i]]
    OBVIOUS
  <2>4. Listed(up) /\ Len(up) = k
    <3> HIDE DEF up, k
    <3>1. QED
      BY <2>2, <2>3, ListOf
  <2>5. QED
    BY <1>2, <2>1, <2>4
<1>3. QED
  BY <1>1, <1>2 DEF Listed

\* Each level is a list, and shorter than the one below until it is the root.
LEMMA LevelsListed ==
  ASSUME NEW b \in Batch, NEW n \in 0..Len(b)
  PROVE  /\ Listed(Levels(b)[n])
         /\ Len(Levels(b)[n]) = 1 \/ Len(Levels(b)[n]) <= Len(b) - n
<1> DEFINE Good(m) == /\ Listed(Levels(b)[m])
                      /\ Len(Levels(b)[m]) = 1 \/ Len(Levels(b)[m]) <= Len(b) - m
           T == {m \in Nat : m <= Len(b) => Good(m)}
<1>1. Len(b) \in Nat \ {0} /\ DOMAIN b = 1..Len(b)
  BY BatchIs
<1>2. 0 \in T
  <2>1. Leaves(b) = [i \in 1..Len(b) |-> Leaves(b)[i]]
    BY <1>1 DEF Leaves
  <2>2. Listed(Leaves(b)) /\ Len(Leaves(b)) = Len(b)
    BY <1>1, <2>1, ListOf
  <2>3. QED
    BY <1>1, <2>2, LevelsDefined
<1>3. ASSUME NEW m \in Nat, m \in T PROVE m + 1 \in T
  <2>1. CASE m + 1 <= Len(b)
    <3> DEFINE s == Levels(b)[m]
    <3>1. Listed(s) /\ (Len(s) = 1 \/ Len(s) <= Len(b) - m)
      BY <1>1, <1>3, <2>1
    <3>2. Levels(b)[m + 1] = Above(s)
      BY <1>1, <2>1, LevelsDefined
    <3> HIDE DEF s
    <3>3. Listed(Above(s)) /\ (Len(s) = 1 => Above(s) = s)
          /\ (Len(s) > 1 => Len(Above(s)) = (Len(s) + 1) \div 2)
      BY <3>1, AboveIs
    <3>4. Len(Above(s)) = 1 \/ Len(Above(s)) <= Len(b) - (m + 1)
      <4>1. PICK l \in Nat \ {0} : l = Len(s)
        BY <3>1 DEF Listed
      <4>2. CASE l = 1
        BY <3>1, <3>3, <4>1, <4>2
      <4>3. CASE l > 1
        <5>1. l <= Len(b) - m /\ Len(Above(s)) = (l + 1) \div 2
          BY <3>1, <3>3, <4>1, <4>3
        <5>2. (l + 1) \div 2 <= l - 1
          BY <4>3
        <5>3. QED
          BY <1>1, <5>1, <5>2
      <4>4. QED
        BY <4>2, <4>3
    <3>5. QED
      BY <3>2, <3>3, <3>4
  <2>2. QED
    BY <2>1
<1>4. n \in T
  <2> HIDE DEF T
  <2>1. QED
    BY <1>2, <1>3, Induction
<1>5. QED
  BY <1>1, <1>4

LEMMA RootAlone ==
  ASSUME NEW b \in Batch
  PROVE  Len(Levels(b)[Len(b)]) = 1 /\ merkleRoot(b) = Levels(b)[Len(b)][1]
<1>1. Len(b) \in Nat \ {0}
  BY BatchIs
<1>2. Listed(Levels(b)[Len(b)])
      /\ (Len(Levels(b)[Len(b)]) = 1 \/ Len(Levels(b)[Len(b)]) <= Len(b) - Len(b))
  BY <1>1, LevelsListed
<1>3. QED
  BY <1>1, <1>2 DEF Listed, merkleRoot

\* A node above the leaves is one of the level below, promoted, or made of two.
Made(h, level) ==
  \/ \E i \in DOMAIN level : h = level[i]
  \/ \E i, j \in DOMAIN level : h = merkleNode(level[i], level[j])

LEMMA MadeOf ==
  ASSUME NEW b \in Batch, NEW n \in Nat, n < Len(b), NEW k \in DOMAIN Levels(b)[n + 1]
  PROVE  Made(Levels(b)[n + 1][k], Levels(b)[n])
<1> DEFINE s == Levels(b)[n]
<1>1. Len(b) \in Nat
  BY BatchIs
<1>2. Listed(s) /\ Levels(b)[n + 1] = Above(s)
  BY <1>1, LevelsListed, LevelsDefined
<1> HIDE DEF s
<1>3. CASE Len(s) = 1
  BY <1>2, <1>3, AboveIs DEF Made, Listed, s
<1>4. CASE Len(s) > 1
  <2>1. k \in 1..((Len(s) + 1) \div 2)
    BY <1>2, <1>4, AboveIs DEF Listed
  <2>2. Above(s)[k] = IF 2*k <= Len(s) THEN merkleNode(s[2*k - 1], s[2*k]) ELSE s[2*k - 1]
    BY <1>2, <1>4, <2>1, AboveIs
  <2>3. 2*k - 1 \in DOMAIN s /\ (2*k <= Len(s) => 2*k \in DOMAIN s)
    BY <1>2, <2>1 DEF Listed
  <2>4. QED
    BY <1>2, <2>2, <2>3 DEF Made, s
<1>5. QED
  BY <1>2, <1>3, <1>4 DEF Listed
-----------------------------------------------------------------------------
(***************************************************************************)
(* Nothing but a digest of the batch verifies.                             *)
(***************************************************************************)
HashIn(b, h) ==
  \E n \in 0..Len(b) : \E k \in DOMAIN Levels(b)[n] : h = Levels(b)[n][k]

LEMMA LeafBelow ==
  ASSUME NEW b \in Batch, NEW x, HashIn(b, merkleLeaf(x))
  PROVE  \E i \in DOMAIN b : b[i] = x
<1> DEFINE Good(n) == \A k \in DOMAIN Levels(b)[n] :
                        merkleLeaf(x) = Levels(b)[n][k] => \E i \in DOMAIN b : b[i] = x
           T == {n \in Nat : n <= Len(b) => Good(n)}
<1>1. Len(b) \in Nat
  BY BatchIs
<1>2. 0 \in T
  <2>1. Levels(b)[0] = [i \in DOMAIN b |-> merkleLeaf(b[i])]
    BY <1>1, LevelsDefined DEF Leaves
  <2>2. QED
    BY <2>1 DEF merkleLeaf
<1>3. ASSUME NEW n \in Nat, n \in T PROVE n + 1 \in T
  <2>1. SUFFICES ASSUME n + 1 <= Len(b), NEW k \in DOMAIN Levels(b)[n + 1],
                        merkleLeaf(x) = Levels(b)[n + 1][k]
                 PROVE  \E i \in DOMAIN b : b[i] = x
    BY <1>1
  <2>2. Good(n)
    BY <1>1, <1>3, <2>1
  <2>3. Made(merkleLeaf(x), Levels(b)[n])
    BY <1>1, <2>1, MadeOf
  <2>4. \A i, j \in DOMAIN Levels(b)[n] :
          merkleLeaf(x) # merkleNode(Levels(b)[n][i], Levels(b)[n][j])
    BY DEF merkleLeaf, merkleNode
  <2>5. QED
    BY <2>2, <2>3, <2>4 DEF Made
<1>4. \A n \in Nat : n \in T
  <2> HIDE DEF T
  <2>1. QED
    BY <1>2, <1>3, Induction
<1>5. PICK n \in 0..Len(b) : \E k \in DOMAIN Levels(b)[n] : merkleLeaf(x) = Levels(b)[n][k]
  BY DEF HashIn
<1>6. n \in T /\ n <= Len(b)
  BY <1>1, <1>4
<1>7. QED
  BY <1>5, <1>6

LEMMA NodeBelow ==
  ASSUME NEW b \in Batch, NEW h, NEW s, HashIn(b, merkleNode(h, s))
  PROVE  HashIn(b, h)
<1> DEFINE Good(n) == \A k \in DOMAIN Levels(b)[n] :
                        merkleNode(h, s) = Levels(b)[n][k] => HashIn(b, h)
           T == {n \in Nat : n <= Len(b) => Good(n)}
<1>1. Len(b) \in Nat
  BY BatchIs
<1>2. 0 \in T
  <2>1. Levels(b)[0] = [i \in DOMAIN b |-> merkleLeaf(b[i])]
    BY <1>1, LevelsDefined DEF Leaves
  <2>2. \A k \in DOMAIN b : merkleNode(h, s) # merkleLeaf(b[k])
    BY DEF merkleLeaf, merkleNode
  <2>3. QED
    BY <2>1, <2>2
<1>3. ASSUME NEW n \in Nat, n \in T PROVE n + 1 \in T
  <2>1. SUFFICES ASSUME n + 1 <= Len(b), NEW k \in DOMAIN Levels(b)[n + 1],
                        merkleNode(h, s) = Levels(b)[n + 1][k]
                 PROVE  HashIn(b, h)
    BY <1>1
  <2>2. Good(n)
    BY <1>1, <1>3, <2>1
  <2>3. Made(merkleNode(h, s), Levels(b)[n])
    BY <1>1, <2>1, MadeOf
  <2>4. ASSUME NEW i \in DOMAIN Levels(b)[n], NEW j \in DOMAIN Levels(b)[n],
               merkleNode(h, s) = merkleNode(Levels(b)[n][i], Levels(b)[n][j])
        PROVE  HashIn(b, h)
    <3>1. {h, s} = {Levels(b)[n][i], Levels(b)[n][j]}
      BY <2>4 DEF merkleNode
    <3>2. h = Levels(b)[n][i] \/ h = Levels(b)[n][j]
      BY <3>1
    <3>3. n \in 0..Len(b)
      BY <1>1, <2>1
    <3>4. QED
      BY <3>2, <3>3 DEF HashIn
  <2>5. QED
    BY <2>2, <2>3, <2>4 DEF Made
<1>4. \A n \in Nat : n \in T
  <2> HIDE DEF T
  <2>1. QED
    BY <1>2, <1>3, Induction
<1>5. PICK n \in 0..Len(b) : \E k \in DOMAIN Levels(b)[n] : merkleNode(h, s) = Levels(b)[n][k]
  BY DEF HashIn
<1>6. n \in T /\ n <= Len(b)
  BY <1>1, <1>4
<1>7. QED
  BY <1>5, <1>6

\* A proof that has come to a hash of the tree is of a digest of the batch.
ClaimTrue == HashIn(batch, hash) => \E i \in DOMAIN batch : batch[i] = claim
ClaimInv ==
  /\ batch \in Seq(Digest) /\ Len(batch) <= MaxBatch
  /\ claim # NoClaim => batch # <<>> /\ ClaimTrue

LEMMA ClaimInit == MerkleInit => ClaimInv
BY MerkleAssumption DEF MerkleInit, ClaimInv

LEMMA ClaimStep == ClaimInv /\ [MerkleNext]_merkleVars => ClaimInv'
<1> SUFFICES ASSUME ClaimInv, [MerkleNext]_merkleVars PROVE ClaimInv'
  OBVIOUS
<1>1. batch \in Seq(Digest) /\ Len(batch) <= MaxBatch /\ MaxBatch \in Nat
  BY MerkleAssumption DEF ClaimInv
<1>2. ASSUME NEW d \in Digest, AddDigest(d) PROVE ClaimInv'
  BY <1>1, <1>2 DEF AddDigest, ClaimInv
<1>3. ASSUME NEW x, ClaimMember(x) PROVE ClaimInv'
  <2>1. batch \in Batch
    BY <1>1, <1>3 DEF ClaimMember, Batch
  <2>2. HashIn(batch, merkleLeaf(x)) => \E i \in DOMAIN batch : batch[i] = x
    BY <2>1, LeafBelow
  <2>3. QED
    BY <1>1, <1>3, <2>2 DEF ClaimMember, ClaimInv, ClaimTrue, HashIn
<1>4. ASSUME NEW s, NextSibling(s) PROVE ClaimInv'
  <2>1. batch \in Batch /\ ClaimTrue
    BY <1>1, <1>4 DEF NextSibling, Batch, ClaimInv
  <2>2. HashIn(batch, merkleNode(hash, s)) => HashIn(batch, hash)
    BY <2>1, NodeBelow
  <2>3. QED
    BY <1>1, <1>4, <2>1, <2>2 DEF NextSibling, ClaimInv, ClaimTrue, HashIn
<1>5. CASE UNCHANGED merkleVars
  BY <1>5 DEF ClaimInv, ClaimTrue, HashIn, merkleVars
<1>6. QED
  BY <1>2, <1>3, <1>4, <1>5 DEF MerkleNext
-----------------------------------------------------------------------------
(***************************************************************************)
(* The proof of each digest verifies.                                      *)
(***************************************************************************)

\* One level: the node above a place is the node there, promoted, when it has
\* no sibling, or made of the two.
LEMMA StepUp ==
  ASSUME NEW s, Listed(s), NEW p \in DOMAIN s
  PROVE  LET q == (p + 1) \div 2 IN
           /\ q \in DOMAIN Above(s)
           /\ \/ Sibling(s, p) = <<>> /\ Above(s)[q] = s[p]
              \/ \E v \in DOMAIN s : /\ Sibling(s, p) = <<s[v]>>
                                     /\ Above(s)[q] = merkleNode(s[p], s[v])
<1> DEFINE q == (p + 1) \div 2
<1>1. PICK l \in Nat \ {0} : l = Len(s)
  BY DEF Listed
<1>2. p \in Nat \ {0} /\ p <= l /\ DOMAIN s = 1..l
  BY <1>1 DEF Listed
<1>3. CASE l = 1
  <2>1. p = 1 /\ q = 1 /\ Above(s) = s
    BY <1>1, <1>2, <1>3, AboveIs
  <2>2. Sibling(s, p) = <<>>
    BY <1>1, <1>3 DEF Sibling
  <2>3. QED
    BY <1>2, <2>1, <2>2
<1>4. CASE l > 1
  <2>1. /\ DOMAIN Above(s) = 1..((l + 1) \div 2)
        /\ \A k \in 1..((l + 1) \div 2) :
             Above(s)[k] = IF 2*k <= l THEN merkleNode(s[2*k - 1], s[2*k]) ELSE s[2*k - 1]
    BY <1>1, <1>4, AboveIs DEF Listed
  <2>2. q \in 1..((l + 1) \div 2)
    BY <1>2
  <2>3. CASE p % 2 = 1
    <3>1. 2*q - 1 = p /\ 2*q = p + 1
      BY <1>2, <2>3
    <3>2. CASE p + 1 <= l
      <4>1. Sibling(s, p) = <<s[p + 1]>>
        BY <1>1, <1>4, <2>3, <3>2 DEF Sibling
      <4>2. p + 1 \in DOMAIN s
        BY <1>2, <3>2
      <4>3. Above(s)[q] = merkleNode(s[p], s[p + 1])
        BY <2>1, <2>2, <3>1, <3>2
      <4>4. QED
        BY <2>1, <2>2, <4>1, <4>2, <4>3
    <3>3. CASE ~(p + 1 <= l)
      <4>1. Sibling(s, p) = <<>>
        BY <1>1, <2>3, <3>3 DEF Sibling
      <4>2. Above(s)[q] = s[p]
        BY <2>1, <2>2, <3>1, <3>3
      <4>3. QED
        BY <2>1, <2>2, <4>1, <4>2
    <3>4. QED
      BY <3>2, <3>3
  <2>4. CASE p % 2 # 1
    <3>1. 2*q = p /\ 2*q - 1 = p - 1 /\ p - 1 \in DOMAIN s
      BY <1>2, <2>4
    <3>2. Sibling(s, p) = <<s[p - 1]>>
      BY <1>1, <1>2, <1>4, <2>4 DEF Sibling
    <3>3. Above(s)[q] = merkleNode(s[p - 1], s[p])
      BY <1>2, <2>1, <2>2, <3>1
    <3>4. merkleNode(s[p - 1], s[p]) = merkleNode(s[p], s[p - 1])
      <4>1. {s[p - 1], s[p]} = {s[p], s[p - 1]}
        OBVIOUS
      <4>2. QED
        BY <4>1 DEF merkleNode
    <3>5. QED
      BY <2>1, <2>2, <3>1, <3>2, <3>3, <3>4
  <2>5. QED
    BY <2>3, <2>4
<1>5. QED
  BY <1>1, <1>3, <1>4

\* The place of an index is one of each level.
LEMMA PlaceIn ==
  ASSUME NEW b \in Batch, NEW i \in DOMAIN b, NEW n \in 0..Len(b)
  PROVE  Places(b, i)[n] \in DOMAIN Levels(b)[n]
<1> DEFINE T == {m \in Nat : m <= Len(b) => Places(b, i)[m] \in DOMAIN Levels(b)[m]}
<1>1. Len(b) \in Nat
  BY BatchIs
<1>2. 0 \in T
  BY <1>1, PlacesDefined, LevelsDefined DEF Leaves
<1>3. ASSUME NEW m \in Nat, m \in T, m + 1 <= Len(b)
      PROVE  Places(b, i)[m + 1] \in DOMAIN Levels(b)[m + 1]
  <2>1. Places(b, i)[m] \in DOMAIN Levels(b)[m]
    BY <1>1, <1>3
  <2>2. Places(b, i)[m + 1] = (Places(b, i)[m] + 1) \div 2
    BY <1>1, <1>3, PlacesDefined
  <2>3. Levels(b)[m + 1] = Above(Levels(b)[m]) /\ Listed(Levels(b)[m])
    BY <1>1, <1>3, LevelsDefined, LevelsListed
  <2>4. QED
    BY <2>1, <2>2, <2>3, StepUp
<1>4. n \in T
  <2>1. \A m \in Nat : m \in T => m + 1 \in T
    BY <1>3
  <2> HIDE DEF T
  <2>2. QED
    BY <1>2, <2>1, Induction
<1>5. QED
  BY <1>1, <1>4

\* One more sibling is one more node.
LEMMA HashAppend ==
  ASSUME NEW S, NEW proof \in Seq(S), NEW s \in S, NEW x
  PROVE  HashUpTo(x, Append(proof, s))[Len(proof) + 1] =
           merkleNode(HashUpTo(x, proof)[Len(proof)], s)
<1> DEFINE longer == Append(proof, s)
           T == {n \in Nat : n <= Len(proof) =>
                               HashUpTo(x, longer)[n] = HashUpTo(x, proof)[n]}
<1>1. /\ Len(proof) \in Nat /\ Len(longer) = Len(proof) + 1
      /\ \A n \in 1..Len(proof) : longer[n] = proof[n]
      /\ longer[Len(proof) + 1] = s
  OBVIOUS
<1> HIDE DEF longer
<1>2. 0 \in T
  BY <1>1, HashDefined
<1>3. ASSUME NEW n \in Nat, n \in T, n + 1 <= Len(proof)
      PROVE  HashUpTo(x, longer)[n + 1] = HashUpTo(x, proof)[n + 1]
  <2>1. HashUpTo(x, longer)[n + 1] = merkleNode(HashUpTo(x, longer)[n], longer[n + 1])
    <3>1. Len(longer) \in Nat /\ n \in 0..(Len(longer) - 1)
      BY <1>1, <1>3
    <3>2. QED
      BY <3>1, HashDefined
  <2>2. HashUpTo(x, proof)[n + 1] = merkleNode(HashUpTo(x, proof)[n], proof[n + 1])
    BY <1>1, <1>3, HashDefined
  <2>3. HashUpTo(x, longer)[n] = HashUpTo(x, proof)[n] /\ longer[n + 1] = proof[n + 1]
    BY <1>1, <1>3
  <2>4. QED
    BY <2>1, <2>2, <2>3
<1>4. Len(proof) \in T
  <2>1. \A n \in Nat : n \in T => n + 1 \in T
    BY <1>3
  <2> HIDE DEF T
  <2>2. QED
    BY <1>1, <1>2, <2>1, Induction
<1>5. HashUpTo(x, longer)[Len(proof) + 1] =
        merkleNode(HashUpTo(x, longer)[Len(proof)], longer[Len(proof) + 1])
  BY <1>1, HashDefined
<1>6. QED
  BY <1>1, <1>4, <1>5 DEF longer

Tree(b) ==
  UNION {{Levels(b)[n][k] : k \in DOMAIN Levels(b)[n]} : n \in 0..Len(b)}

\* The verifier is, with the proof as far as a level, at the node above the digest.
LEMMA ProofClimbs ==
  ASSUME NEW b \in Batch, NEW i \in DOMAIN b, NEW n \in 0..Len(b)
  PROVE  LET proof == ProofUpTo(b, i)[n] IN
           /\ proof \in Seq(Tree(b))
           /\ HashUpTo(b[i], proof)[Len(proof)] = Levels(b)[n][Places(b, i)[n]]
<1> DEFINE Climbs(m) ==
             /\ ProofUpTo(b, i)[m] \in Seq(Tree(b))
             /\ HashUpTo(b[i], ProofUpTo(b, i)[m])[Len(ProofUpTo(b, i)[m])]
                  = Levels(b)[m][Places(b, i)[m]]
           T == {m \in Nat : m <= Len(b) => Climbs(m)}
<1>1. Len(b) \in Nat
  BY BatchIs
<1>2. 0 \in T
  <2>1. ProofUpTo(b, i)[0] = <<>> /\ Places(b, i)[0] = i
    BY <1>1, ProofDefined, PlacesDefined
  <2>2. Levels(b)[0][i] = merkleLeaf(b[i])
    BY <1>1, LevelsDefined DEF Leaves
  <2>3. HashUpTo(b[i], <<>>)[0] = merkleLeaf(b[i])
    BY HashDefined
  <2>4. <<>> \in Seq(Tree(b)) /\ Len(<<>>) = 0
    OBVIOUS
  <2>5. QED
    BY <2>1, <2>2, <2>3, <2>4
<1>3. ASSUME NEW m \in Nat, m \in T, m + 1 <= Len(b) PROVE Climbs(m + 1)
  <2> DEFINE proof == ProofUpTo(b, i)[m]  s == Levels(b)[m]  p == Places(b, i)[m]
  <2>1. m \in 0..Len(b) /\ m \in 0..(Len(b) - 1)
    BY <1>1, <1>3
  <2>2. proof \in Seq(Tree(b)) /\ HashUpTo(b[i], proof)[Len(proof)] = s[p]
    BY <1>1, <1>3
  <2>3. ProofUpTo(b, i)[m + 1] = proof \o Sibling(s, p)
    BY <1>1, <2>1, ProofDefined
  <2>4. Levels(b)[m + 1] = Above(s) /\ Places(b, i)[m + 1] = (p + 1) \div 2
    BY <1>1, <2>1, LevelsDefined, PlacesDefined
  <2>5. Listed(s) /\ p \in DOMAIN s
    BY <2>1, LevelsListed, PlaceIn
  <2>6. \A v \in DOMAIN s : s[v] \in Tree(b)
    BY <2>1 DEF Tree
  <2> HIDE DEF proof, s, p
  <2>7. CASE Sibling(s, p) = <<>> /\ Above(s)[(p + 1) \div 2] = s[p]
    <3>1. proof \o Sibling(s, p) = proof
      BY <2>2, <2>7
    <3>2. QED
      BY <2>2, <2>3, <2>4, <2>7, <3>1
  <2>8. ASSUME NEW v \in DOMAIN s, Sibling(s, p) = <<s[v]>>,
               Above(s)[(p + 1) \div 2] = merkleNode(s[p], s[v])
        PROVE  Climbs(m + 1)
    <3>1. /\ proof \o Sibling(s, p) = Append(proof, s[v])
          /\ Len(Append(proof, s[v])) = Len(proof) + 1
          /\ Append(proof, s[v]) \in Seq(Tree(b))
      BY <2>2, <2>6, <2>8
    <3>2. HashUpTo(b[i], Append(proof, s[v]))[Len(proof) + 1] = merkleNode(s[p], s[v])
      BY <2>2, <2>6, HashAppend
    <3>3. QED
      BY <2>3, <2>4, <2>8, <3>1, <3>2
  <2>9. QED
    BY <2>5, <2>7, <2>8, StepUp
<1>4. n \in T
  <2>1. \A m \in Nat : m \in T => m + 1 \in T
    BY <1>3
  <2> HIDE DEF T
  <2>2. QED
    BY <1>2, <2>1, Induction
<1>5. QED
  BY <1>1, <1>4

LEMMA ProofVerifies ==
  ASSUME NEW b \in Batch, NEW i \in DOMAIN b
  PROVE  verifyMerkleProof(b[i], merkleProof(b, i), merkleRoot(b))
<1>1. Len(b) \in 0..Len(b)
  BY BatchIs
<1>2. HashUpTo(b[i], merkleProof(b, i))[Len(merkleProof(b, i))]
        = Levels(b)[Len(b)][Places(b, i)[Len(b)]]
  BY <1>1, ProofClimbs DEF merkleProof
<1>3. Places(b, i)[Len(b)] = 1
  BY <1>1, PlaceIn, LevelsListed, RootAlone DEF Listed
<1>4. QED
  BY <1>2, <1>3, RootAlone DEF verifyMerkleProof
-----------------------------------------------------------------------------
(***************************************************************************)
(* The root tells how often each digest is in the batch.                   *)
(***************************************************************************)
Under(b, n, k, d) == {i \in DOMAIN b : Places(b, i)[n] = k /\ b[i] = d}
Count(b, n, k, d) == Cardinality(Under(b, n, k, d))

LEMMA UnderFinite ==
  ASSUME NEW b \in Batch, NEW n, NEW k, NEW d
  PROVE  IsFiniteSet(Under(b, n, k, d)) /\ Count(b, n, k, d) \in Nat
<1>1. Under(b, n, k, d) \subseteq 1..Len(b) /\ Len(b) \in Nat
  BY BatchIs DEF Under
<1>2. IsFiniteSet(1..Len(b))
  BY <1>1, FS_Interval
<1>3. QED
  BY <1>1, <1>2, FS_Subset, FS_CardinalityType DEF Count

LEMMA CountLeaf ==
  ASSUME NEW b \in Batch, NEW k \in DOMAIN b, NEW d
  PROVE  Count(b, 0, k, d) = IF b[k] = d THEN 1 ELSE 0
<1>1. \A i \in DOMAIN b : Places(b, i)[0] = i
  BY BatchIs, PlacesDefined
<1>2. Under(b, 0, k, d) = IF b[k] = d THEN {k} ELSE {}
  BY <1>1 DEF Under
<1>3. QED
  BY <1>2, FS_EmptySet, FS_Singleton DEF Count

\* What a node of the next level covers.
Promotes(b, n, k, j) ==
  /\ Levels(b)[n + 1][k] = Levels(b)[n][j]
  /\ \A d : Count(b, n + 1, k, d) = Count(b, n, j, d)
Joins(b, n, k, i, j) ==
  /\ Levels(b)[n + 1][k] = merkleNode(Levels(b)[n][i], Levels(b)[n][j])
  /\ \A d : Count(b, n + 1, k, d) = Count(b, n, i, d) + Count(b, n, j, d)

LEMMA CountAbove ==
  ASSUME NEW b \in Batch, NEW n \in Nat, n < Len(b), NEW k \in DOMAIN Levels(b)[n + 1]
  PROVE  \/ \E j \in DOMAIN Levels(b)[n] : Promotes(b, n, k, j)
         \/ \E i, j \in DOMAIN Levels(b)[n] : Joins(b, n, k, i, j)
<1> DEFINE s == Levels(b)[n]
<1>1. Len(b) \in Nat /\ n \in 0..Len(b) /\ n \in 0..(Len(b) - 1)
  BY BatchIs
<1>2. Listed(s) /\ Levels(b)[n + 1] = Above(s)
  BY <1>1, LevelsListed, LevelsDefined
<1>3. \A i \in DOMAIN b : /\ Places(b, i)[n] \in DOMAIN s
                          /\ Places(b, i)[n + 1] = (Places(b, i)[n] + 1) \div 2
  BY <1>1, PlaceIn, PlacesDefined
<1>4. PICK l \in Nat \ {0} : l = Len(s) /\ DOMAIN s = 1..l
  BY <1>2 DEF Listed
<1> HIDE DEF s
<1>5. CASE l = 1
  <2>1. Above(s) = s /\ k = 1
    BY <1>2, <1>4, <1>5, AboveIs
  <2>2. \A i \in DOMAIN b : Places(b, i)[n] = 1 /\ Places(b, i)[n + 1] = 1
    BY <1>3, <1>4, <1>5
  <2>3. \A d : Under(b, n + 1, k, d) = Under(b, n, 1, d)
    BY <2>1, <2>2 DEF Under
  <2>4. Promotes(b, n, k, 1)
    BY <1>2, <2>1, <2>3 DEF Promotes, Count, s
  <2>5. QED
    BY <1>4, <2>4 DEF s
<1>6. CASE l > 1
  <2>1. k \in 1..((l + 1) \div 2)
    BY <1>2, <1>4, <1>6, AboveIs DEF Listed
  <2>2. Above(s)[k] = IF 2*k <= l THEN merkleNode(s[2*k - 1], s[2*k]) ELSE s[2*k - 1]
    BY <1>2, <1>4, <1>6, <2>1, AboveIs DEF Listed
  <2>3. 2*k - 1 \in 1..l
    BY <2>1
  <2>4. \A p \in 1..l : (p + 1) \div 2 = k <=> p \in {2*k - 1, 2*k}
    BY <2>1
  <2>5. \A d : Under(b, n + 1, k, d) = Under(b, n, 2*k - 1, d) \cup Under(b, n, 2*k, d)
    BY <1>3, <1>4, <2>4 DEF Under
  <2>6. CASE 2*k <= l
    <3>1. \A d : Under(b, n, 2*k - 1, d) \cap Under(b, n, 2*k, d) = {}
      BY <2>1 DEF Under
    <3>2. ASSUME NEW d
          PROVE  Count(b, n + 1, k, d) = Count(b, n, 2*k - 1, d) + Count(b, n, 2*k, d)
      <4>1. PICK U, V : /\ U = Under(b, n, 2*k - 1, d) /\ V = Under(b, n, 2*k, d)
                        /\ IsFiniteSet(U) /\ IsFiniteSet(V)
        BY UnderFinite
      <4>2. U \cap V = {} /\ Under(b, n + 1, k, d) = U \cup V
        BY <2>5, <3>1, <4>1
      <4>3. /\ Cardinality(U \cup V) = Cardinality(U) + Cardinality(V) - Cardinality({})
            /\ Cardinality(U) \in Nat /\ Cardinality(V) \in Nat
        BY <4>1, <4>2, FS_Union, FS_CardinalityType
      <4>4. /\ Count(b, n + 1, k, d) = Cardinality(U \cup V)
            /\ Count(b, n, 2*k - 1, d) = Cardinality(U)
            /\ Count(b, n, 2*k, d) = Cardinality(V)
        BY <4>1, <4>2 DEF Count
      <4>5. QED
        BY <4>3, <4>4, FS_EmptySet
    <3>3. Joins(b, n, k, 2*k - 1, 2*k)
      BY <1>2, <2>2, <2>6, <3>2 DEF Joins, s
    <3>4. 2*k \in 1..l
      BY <2>1, <2>6
    <3>5. QED
      BY <1>4, <2>3, <3>3, <3>4 DEF s
  <2>7. CASE ~(2*k <= l)
    <3>1. \A d : Under(b, n, 2*k, d) = {}
      BY <1>3, <1>4, <2>1, <2>7 DEF Under
    <3>2. \A d : Under(b, n + 1, k, d) = Under(b, n, 2*k - 1, d)
      BY <2>5, <3>1
    <3>3. Promotes(b, n, k, 2*k - 1)
      BY <1>2, <2>2, <2>7, <3>2 DEF Promotes, Count, s
    <3>4. QED
      BY <1>4, <2>3, <3>3 DEF s
  <2>8. QED
    BY <2>6, <2>7
<1>7. QED
  BY <1>4, <1>5, <1>6

\* Equal hashes, of two trees and at any levels, cover the same digests.
Alike(a, n, b, m) ==
  \A k \in DOMAIN Levels(a)[n], l \in DOMAIN Levels(b)[m] :
    Levels(a)[n][k] = Levels(b)[m][l] =>
      \A d : Count(a, n, k, d) = Count(b, m, l, d)

LEMMA AlikeLeaves ==
  ASSUME NEW a \in Batch, NEW b \in Batch
  PROVE  Alike(a, 0, b, 0)
<1>1. /\ Levels(a)[0] = [i \in DOMAIN a |-> merkleLeaf(a[i])]
      /\ Levels(b)[0] = [i \in DOMAIN b |-> merkleLeaf(b[i])]
  BY BatchIs, LevelsDefined DEF Leaves
<1>2. ASSUME NEW k \in DOMAIN a, NEW l \in DOMAIN b,
             merkleLeaf(a[k]) = merkleLeaf(b[l]), NEW d
      PROVE  Count(a, 0, k, d) = Count(b, 0, l, d)
  <2>1. a[k] = b[l]
    BY <1>2 DEF merkleLeaf
  <2>2. QED
    BY <2>1, CountLeaf
<1>3. QED
  BY <1>1, <1>2 DEF Alike

LEMMA LeafOrNode ==
  ASSUME NEW b, NEW n, NEW k, NEW i, NEW j, Joins(b, n, k, i, j),
         NEW a \in Batch, NEW l \in DOMAIN Levels(a)[0]
  PROVE  Levels(a)[0][l] # Levels(b)[n + 1][k]
<1>1. Levels(a)[0] = [x \in DOMAIN a |-> merkleLeaf(a[x])]
  BY BatchIs, LevelsDefined DEF Leaves
<1>2. QED
  BY <1>1 DEF Joins, merkleLeaf, merkleNode

LEMMA SameChildren ==
  ASSUME NEW p, NEW q, NEW x, NEW y, merkleNode(p, q) = merkleNode(x, y)
  PROVE  (p = x /\ q = y) \/ (p = y /\ q = x)
<1>1. {p, q} = {x, y}
  BY DEF merkleNode
<1>2. p \in {x, y} /\ q \in {x, y} /\ x \in {p, q} /\ y \in {p, q}
  BY <1>1
<1>3. (p = x \/ p = y) /\ (q = x \/ q = y) /\ (x = p \/ x = q) /\ (y = p \/ y = q)
  BY <1>2
<1>4. QED
  BY <1>3

\* A node is of the level below, or covers what two of them do; so that two
\* equal nodes come from equal nodes, down to the leaves.
LEMMA AllAlike ==
  ASSUME NEW a \in Batch, NEW b \in Batch, NEW n \in 0..Len(a), NEW m \in 0..Len(b)
  PROVE  Alike(a, n, b, m)
<1> DEFINE T == {t \in Nat : \A x \in 0..Len(a), y \in 0..Len(b) :
                               x + y <= t => Alike(a, x, b, y)}
<1>1. Len(a) \in Nat /\ Len(b) \in Nat
  BY BatchIs
<1>2. 0 \in T
  <2>1. \A x \in 0..Len(a), y \in 0..Len(b) : x + y <= 0 => x = 0 /\ y = 0
    BY <1>1
  <2>2. QED
    BY <2>1, AlikeLeaves
<1>3. ASSUME NEW t \in Nat, t \in T, NEW x \in 0..Len(a), NEW y \in 0..Len(b), x + y <= t + 1
      PROVE  Alike(a, x, b, y)
  <2>1. SUFFICES ASSUME NEW k \in DOMAIN Levels(a)[x], NEW l \in DOMAIN Levels(b)[y],
                        Levels(a)[x][k] = Levels(b)[y][l], NEW d
                 PROVE  Count(a, x, k, d) = Count(b, y, l, d)
    BY DEF Alike
  <2>2. x \in Nat /\ y \in Nat
    BY <1>1
  <2>3. ASSUME x # 0, NEW i \in DOMAIN Levels(a)[x - 1], Promotes(a, x - 1, k, i)
        PROVE  Count(a, x, k, d) = Count(b, y, l, d)
    <3>1. x - 1 \in 0..Len(a) /\ (x - 1) + y <= t /\ (x - 1) + 1 = x
      BY <1>1, <1>3, <2>2, <2>3
    <3>2. Alike(a, x - 1, b, y)
      BY <1>3, <3>1
    <3>3. Levels(a)[x - 1][i] = Levels(b)[y][l]
      BY <2>1, <2>3, <3>1 DEF Promotes
    <3>4. QED
      BY <2>3, <3>1, <3>2, <3>3 DEF Promotes, Alike
  <2>4. ASSUME y # 0, NEW j \in DOMAIN Levels(b)[y - 1], Promotes(b, y - 1, l, j)
        PROVE  Count(a, x, k, d) = Count(b, y, l, d)
    <3>1. y - 1 \in 0..Len(b) /\ x + (y - 1) <= t /\ (y - 1) + 1 = y
      BY <1>1, <1>3, <2>2, <2>4
    <3>2. Alike(a, x, b, y - 1)
      BY <1>3, <3>1
    <3>3. Levels(a)[x][k] = Levels(b)[y - 1][j]
      BY <2>1, <2>4, <3>1 DEF Promotes
    <3>4. QED
      BY <2>4, <3>1, <3>2, <3>3 DEF Promotes, Alike
  <2>5. ASSUME x # 0, y # 0,
               NEW i1 \in DOMAIN Levels(a)[x - 1], NEW i2 \in DOMAIN Levels(a)[x - 1],
               NEW j1 \in DOMAIN Levels(b)[y - 1], NEW j2 \in DOMAIN Levels(b)[y - 1],
               Joins(a, x - 1, k, i1, i2), Joins(b, y - 1, l, j1, j2)
        PROVE  Count(a, x, k, d) = Count(b, y, l, d)
    <3>1. /\ x - 1 \in 0..Len(a) /\ y - 1 \in 0..Len(b) /\ (x - 1) + (y - 1) <= t
          /\ (x - 1) + 1 = x /\ (y - 1) + 1 = y
      BY <1>1, <1>3, <2>2, <2>5
    <3>2. Alike(a, x - 1, b, y - 1)
      BY <1>3, <3>1
    <3> DEFINE p1 == Levels(a)[x - 1][i1]  p2 == Levels(a)[x - 1][i2]
               q1 == Levels(b)[y - 1][j1]  q2 == Levels(b)[y - 1][j2]
    <3>3. merkleNode(p1, p2) = merkleNode(q1, q2)
      BY <2>1, <2>5, <3>1 DEF Joins
    <3>4. (p1 = q1 /\ p2 = q2) \/ (p1 = q2 /\ p2 = q1)
      BY <3>3, SameChildren
    <3>6. /\ Count(a, x, k, d) = Count(a, x - 1, i1, d) + Count(a, x - 1, i2, d)
          /\ Count(b, y, l, d) = Count(b, y - 1, j1, d) + Count(b, y - 1, j2, d)
      BY <2>5, <3>1 DEF Joins
    <3>7. /\ Count(a, x - 1, i1, d) \in Nat /\ Count(a, x - 1, i2, d) \in Nat
          /\ Count(b, y - 1, j1, d) \in Nat /\ Count(b, y - 1, j2, d) \in Nat
      BY UnderFinite
    <3>8. CASE p1 = q1 /\ p2 = q2
      <4>1. /\ Count(a, x - 1, i1, d) = Count(b, y - 1, j1, d)
            /\ Count(a, x - 1, i2, d) = Count(b, y - 1, j2, d)
        BY <3>2, <3>8 DEF Alike
      <4>2. QED
        BY <3>6, <4>1
    <3>9. CASE p1 = q2 /\ p2 = q1
      <4>1. /\ Count(a, x - 1, i1, d) = Count(b, y - 1, j2, d)
            /\ Count(a, x - 1, i2, d) = Count(b, y - 1, j1, d)
        BY <3>2, <3>9 DEF Alike
      <4>2. QED
        BY <3>6, <3>7, <4>1
    <3>10. QED
      BY <3>4, <3>8, <3>9
  <2>6. CASE x = 0 /\ y = 0
    BY <2>1, <2>6, AlikeLeaves DEF Alike
  <2>7. x # 0 =>
          \/ \E i \in DOMAIN Levels(a)[x - 1] : Promotes(a, x - 1, k, i)
          \/ \E i, j \in DOMAIN Levels(a)[x - 1] : Joins(a, x - 1, k, i, j)
    <3>1. ASSUME x # 0 PROVE x - 1 \in Nat /\ x - 1 < Len(a) /\ (x - 1) + 1 = x
      BY <1>1, <2>2, <3>1
    <3>2. QED
      BY <3>1, CountAbove
  <2>8. y # 0 =>
          \/ \E j \in DOMAIN Levels(b)[y - 1] : Promotes(b, y - 1, l, j)
          \/ \E i, j \in DOMAIN Levels(b)[y - 1] : Joins(b, y - 1, l, i, j)
    <3>1. ASSUME y # 0 PROVE y - 1 \in Nat /\ y - 1 < Len(b) /\ (y - 1) + 1 = y
      BY <1>1, <2>2, <3>1
    <3>2. QED
      BY <3>1, CountAbove
  <2>9. CASE x = 0 /\ y # 0
    <3>1. y - 1 \in Nat /\ y - 1 < Len(b) /\ (y - 1) + 1 = y
      BY <1>1, <2>2, <2>9
    <3>2. ASSUME NEW i, NEW j, Joins(b, y - 1, l, i, j) PROVE FALSE
      <4>1. k \in DOMAIN Levels(a)[0] /\ Levels(a)[0][k] = Levels(b)[y][l]
        BY <2>1, <2>9
      <4>2. Levels(a)[0][k] # Levels(b)[(y - 1) + 1][l]
        BY <3>2, <4>1, LeafOrNode
      <4>3. QED
        BY <3>1, <4>1, <4>2
    <3>3. QED
      BY <2>4, <2>8, <2>9, <3>2
  <2>10. CASE x # 0 /\ y = 0
    <3>1. x - 1 \in Nat /\ x - 1 < Len(a) /\ (x - 1) + 1 = x
      BY <1>1, <2>2, <2>10
    <3>2. ASSUME NEW i, NEW j, Joins(a, x - 1, k, i, j) PROVE FALSE
      <4>1. l \in DOMAIN Levels(b)[0] /\ Levels(b)[0][l] = Levels(a)[x][k]
        BY <2>1, <2>10
      <4>2. Levels(b)[0][l] # Levels(a)[(x - 1) + 1][k]
        BY <3>2, <4>1, LeafOrNode
      <4>3. QED
        BY <3>1, <4>1, <4>2
    <3>3. QED
      BY <2>3, <2>7, <2>10, <3>2
  <2>11. CASE x # 0 /\ y # 0
    BY <2>3, <2>4, <2>5, <2>7, <2>8, <2>11
  <2>12. QED
    BY <2>6, <2>9, <2>10, <2>11
<1>4. n + m \in T
  <2>1. ASSUME NEW t \in Nat, t \in T PROVE t + 1 \in T
    <3>1. \A x \in 0..Len(a), y \in 0..Len(b) : x + y <= t + 1 => Alike(a, x, b, y)
      BY <1>3, <2>1
    <3>2. QED
      BY <3>1
  <2>2. n + m \in Nat
    BY <1>1
  <2> HIDE DEF T
  <2>3. QED
    BY <1>2, <2>1, <2>2, Induction
<1>5. QED
  BY <1>1, <1>4

\* At the root everything is covered.
LEMMA CountAll ==
  ASSUME NEW b \in Batch, NEW d
  PROVE  Count(b, Len(b), 1, d) = Copies(d, b)
<1>1. Len(b) \in 0..Len(b)
  BY BatchIs
<1>2. \A i \in DOMAIN b : Places(b, i)[Len(b)] = 1
  BY <1>1, PlaceIn, LevelsListed, RootAlone DEF Listed
<1>3. Under(b, Len(b), 1, d) = {i \in DOMAIN b : b[i] = d}
  BY <1>2 DEF Under
<1>4. QED
  BY <1>3 DEF Count, Copies

LEMMA RootTells ==
  ASSUME NEW a \in Batch, NEW b \in Batch, merkleRoot(a) = merkleRoot(b), NEW d
  PROVE  Copies(d, a) = Copies(d, b)
<1>1. Len(a) \in 0..Len(a) /\ Len(b) \in 0..Len(b)
  BY BatchIs
<1>2. 1 \in DOMAIN Levels(a)[Len(a)] /\ 1 \in DOMAIN Levels(b)[Len(b)]
  BY <1>1, LevelsListed, RootAlone DEF Listed
<1>3. Levels(a)[Len(a)][1] = Levels(b)[Len(b)][1]
  BY RootAlone
<1>4. Count(a, Len(a), 1, d) = Count(b, Len(b), 1, d)
  BY <1>1, <1>2, <1>3, AllAlike DEF Alike
<1>5. QED
  BY <1>4, CountAll
-----------------------------------------------------------------------------
\* The proof made for each digest of a batch verifies, the last one of an odd
\* level included; no proof of any length, made of hashes one can know of,
\* leads from anything else to the root; and batches with one root hold the
\* same digests equally often (merkle.ts).
THEOREM BatchesBind == MerkleSpec => []ProofsBind
<1>1. ASSUME ClaimInv PROVE ProofsBind
  <2>1. SUFFICES ASSUME batch # <<>> PROVE ProofsBind
    BY DEF ProofsBind
  <2>2. batch \in Batch
    BY <1>1, <2>1 DEF ClaimInv, Batch
  <2>3. \A i \in DOMAIN batch :
          verifyMerkleProof(batch[i], merkleProof(batch, i), merkleRoot(batch))
    BY <2>2, ProofVerifies
  <2>4. ASSUME NEW other \in Batches, merkleRoot(other) = merkleRoot(batch), NEW d \in Digest
        PROVE  Copies(d, other) = Copies(d, batch)
    <3>1. other \in Batch
      BY MerkleAssumption DEF Batches, Batch
    <3>2. QED
      BY <2>2, <2>4, <3>1, RootTells
  <2>5. ASSUME claim # NoClaim, hash = merkleRoot(batch)
        PROVE  \E i \in DOMAIN batch : batch[i] = claim
    <3>1. Len(batch) \in 0..Len(batch)
      BY <2>2, BatchIs
    <3>2. 1 \in DOMAIN Levels(batch)[Len(batch)] /\ merkleRoot(batch) = Levels(batch)[Len(batch)][1]
      BY <2>2, <3>1, LevelsListed, RootAlone DEF Listed
    <3>3. HashIn(batch, hash)
      BY <2>5, <3>1, <3>2 DEF HashIn
    <3>4. QED
      BY <1>1, <2>5, <3>3 DEF ClaimInv, ClaimTrue
  <2>6. QED
    BY <2>3, <2>4, <2>5 DEF ProofsBind
<1>2. QED
  BY <1>1, ClaimInit, ClaimStep, PTL DEF MerkleSpec
=============================================================================
