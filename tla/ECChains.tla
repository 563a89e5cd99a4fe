------------------------------ MODULE ECChains ------------------------------
(***************************************************************************)
(* EC chains of tipsets [epoch, key, powerTable], their validity, and the  *)
(* merkle roots that are their keys.                                       *)
(*                                                                         *)
(* Keccak is taken to be injective and to give the zero digest to nothing: *)
(* a digest is the term it hashes, marked as a leaf or an internal node.   *)
(***************************************************************************)
EXTENDS ECChain, Integers, SequencesExt

CONSTANTS
    ChainMaxLen,  \* longest chain, 128 in the code
    NoTipSetKey,  \* the empty tipset key
    NoCid         \* an undefined power table CID

\* TipSet.Validate; keys and CIDs beyond their maximum length are not modelled.
ValidTipSet(ts) == ts.key # NoTipSetKey /\ ts.powerTable # NoCid

\* The epochs that Validate's loop accepts.
Increasing(c) == \A i \in DOMAIN c : c[i].epoch > (IF i = 1 THEN -1 ELSE c[i - 1].epoch)

ValidChain(c) ==
    IsZero(c) \/ (Len(c) <= ChainMaxLen /\ (\A i \in DOMAIN c : ValidTipSet(c[i])) /\ Increasing(c))

ChainHead(c) == c[Len(c)]

Suffix(c) == IF IsZero(c) THEN << >> ELSE SubSeq(c, 2, Len(c))

-----------------------------------------------------------------------------
ZeroDigest == << >>

leafHash(value) == <<"leaf", value>>

internalHash(left, right) == <<"node", left, right>>

\* depth: bits.Len(length - 1)
depth(length) == CHOOSE d \in 0..length : 2^d >= length /\ (d = 0 \/ 2^(d - 1) < length)

RECURSIVE buildTree(_, _)
buildTree(dep, values) ==
    IF values = << >> THEN ZeroDigest
    ELSE IF dep = 0 THEN leafHash(values[1])
    ELSE LET split == IF 2^(dep - 1) < Len(values) THEN 2^(dep - 1) ELSE Len(values)
         IN  internalHash(buildTree(dep - 1, SubSeq(values, 1, split)),
                          buildTree(dep - 1, SubSeq(values, split + 1, Len(values))))

Tree(values) == buildTree(depth(Len(values)), values)

\* The proof that buildTree gives the value at position i: its uncles, from the leaf up.
RECURSIVE ProofOf(_, _, _)
ProofOf(dep, values, i) ==
    IF dep = 0 THEN << >>
    ELSE LET split == IF 2^(dep - 1) < Len(values) THEN 2^(dep - 1) ELSE Len(values)
             left == SubSeq(values, 1, split)
             right == SubSeq(values, split + 1, Len(values))
         IN  IF i <= split THEN Append(ProofOf(dep - 1, left, i), buildTree(dep - 1, right))
             ELSE Append(ProofOf(dep - 1, right, i - split), buildTree(dep - 1, left))

TreeWithProofs(values) ==
    <<Tree(values), [i \in DOMAIN values |-> ProofOf(depth(Len(values)), values, i)]>>

GoesLeft(index, level) == (index \div 2^level) % 2 = 0

\* VerifyProof, as the pair of valid and more.
VerifyProof(root, index, value, proof) ==
    LET climb(s, k) ==
            IF GoesLeft(index, k - 1)
            THEN <<internalHash(s[1], proof[k]), s[2] \/ proof[k] # ZeroDigest>>
            ELSE <<internalHash(proof[k], s[1]), s[2]>>
        top == FoldLeft(climb, <<leafHash(value), FALSE>>, [k \in DOMAIN proof |-> k])
    IN  IF index > 2^Len(proof) - 1 THEN <<FALSE, FALSE>> ELSE <<root = top[1], top[2]>>

\* BatchTree's subtree of values[start..end-1] at a depth.  What the memo returns is
\* what the same arguments gave before.
RECURSIVE BatchSubtree(_, _, _, _)
BatchSubtree(values, dep, start, end) ==
    IF end = start THEN ZeroDigest
    ELSE IF dep = 0 THEN leafHash(values[start + 1])
    ELSE LET split == IF start + 2^(dep - 1) > end THEN end ELSE start + 2^(dep - 1)
         IN  internalHash(BatchSubtree(values, dep - 1, start, split),
                          BatchSubtree(values, dep - 1, split, end))

\* Mutant: the right subtree is only as deep as its values need.
MutantBatchTree(values) ==
    LET roots[k \in 1..Len(values)] ==
            IF k = 1 THEN leafHash(values[1])
            ELSE LET size == 2^(depth(k) - 1)
                 IN  internalHash(roots[size], BatchSubtree(values, depth(k - size), size, k))
    IN  [k \in DOMAIN values |-> roots[k]]

\* BatchTree: every prefix's root, over the root of its perfect left subtree.
BatchTree(values) ==
    LET roots[k \in 1..Len(values)] ==
            IF k = 1 THEN leafHash(values[1])
            ELSE LET size == 2^(depth(k) - 1)
                 IN  internalHash(roots[size], BatchSubtree(values, depth(k) - 1, size, k))
    IN  [k \in DOMAIN values |-> roots[k]]

-----------------------------------------------------------------------------
\* MarshalForSigning keeps every field, in the order epoch, key, power table.
MarshalTipSet(ts) == <<ts.epoch, ts.key, ts.powerTable>>

MarshalChain(c) == [i \in DOMAIN c |-> MarshalTipSet(c[i])]

Key(c) == IF IsZero(c) THEN ZeroDigest ELSE Tree(MarshalChain(c))

KeysForPrefixes(c) == BatchTree(MarshalChain(c))

=============================================================================
