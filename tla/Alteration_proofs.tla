------------------------- MODULE Alteration_proofs --------------------------
(***************************************************************************)
(* What verifyChain tells about an altered chain, for every length of the   *)
(* chain, every number of alterations and every set of payloads, nonces and *)
(* keys.                                                                    *)
(***************************************************************************)
EXTENDS Alteration, SequenceTheorems, WellFoundedInduction, TLAPS

\* A set of numbers that is not empty has a least element.
LEMMA Least ==
    ASSUME NEW S, S \subseteq Nat, S # {}
    PROVE  \E n \in S : \A m \in S : n <= m
<1> DEFINE R == OpToRel(<, Nat)
<1>1. IsWellFoundedOn(R, Nat)
  BY NatLessThanWellFounded
<1>2. \A m, n \in Nat : m < n => <<m, n>> \in R
  BY DEF OpToRel
<1> HIDE DEF R
<1>3. PICK n \in S : \A m \in S : ~(<<m, n>> \in R)
  BY <1>1, WFMin
<1>4. \A m \in S : m \in Nat /\ n \in Nat /\ ~(m < n)
  BY <1>2, <1>3, Zenon
<1>5. \A m \in S : n <= m
  BY <1>4
<1> QED
  BY <1>5

-----------------------------------------------------------------------------
\* Hashes are terms: equal hashes are hashes of the same thing.

LEMMA HashInjective ==
    ASSUME NEW a, NEW b, getHash(a) = getHash(b)
    PROVE  a = b
BY DEF getHash

\* The hash of a block is the hash of no header.
LEMMA HeaderHashIsNoBlockHash ==
    ASSUME NEW h, NEW a, NEW b, NEW c, NEW d
    PROVE  headerHash(h) # getHash(<<a, b, c, d>>)
<1>1. \A x : <<x>> # <<a, b, c, d>>
  OBVIOUS
<1> QED
  BY <1>1, HashInjective DEF headerHash, getHashN

LEMMA HeaderHashInjective ==
    ASSUME NEW g \in Headers, NEW h \in Headers, headerHash(g) = headerHash(h)
    PROVE  g = h
<1>1. <<getHash(<<g.data, g.privateKey, g.publicKey>>)>> =
      <<getHash(<<h.data, h.privateKey, h.publicKey>>)>>
  BY HashInjective DEF headerHash, getHashN
<1>2. getHash(<<g.data, g.privateKey, g.publicKey>>) =
      getHash(<<h.data, h.privateKey, h.publicKey>>)
  BY <1>1
<1>3. <<g.data, g.privateKey, g.publicKey>> = <<h.data, h.privateKey, h.publicKey>>
  BY <1>2, HashInjective
<1>4. g.data = h.data /\ g.privateKey = h.privateKey /\ g.publicKey = h.publicKey
  BY <1>3
<1> QED
  BY <1>4 DEF Headers

-----------------------------------------------------------------------------
(***************************************************************************)
(* The inductive invariant.  Of the chain that was built: every block is    *)
(* signed and hashed under its link, and no two links are the same          *)
(* (DistinctLinks), because a link contains all links before it.  Of the    *)
(* chain that is stored: it may have been altered in any way, but a         *)
(* signature of the chain's key is the signature of a block that was built  *)
(* (NothingForged).  DistinctLinks says which block: the one with the same  *)
(* link.                                                                    *)
(***************************************************************************)
IsSeq(s) == s \in Seq({s[i] : i \in DOMAIN s})

\* The link of block i of the chain that was built.
builtLink(i) ==
    IF i = 1 THEN headerHash(built.header) ELSE built.blocks[i - 1].hash

IsContainer(b) == b = Container(b.hash, b.prevHash, b.nonce, b.data, b.signature)

Typed ==
    /\ header \in Headers /\ built.header \in Headers
    /\ IsSeq(blocks) /\ IsSeq(built.blocks)
    /\ \A i \in DOMAIN blocks : IsContainer(blocks[i])

BuiltWell ==
    /\ built.header.publicKey = createPublicKey(built.header.privateKey)
    /\ \A j \in DOMAIN built.blocks :
        LET b == built.blocks[j] IN
        /\ b.signature = getSignature(getHash(<<builtLink(j), b.nonce, b.data>>),
                                      built.header.privateKey)
        /\ b.hash = getHash(<<builtLink(j), b.nonce, b.data, b.signature>>)

DistinctLinks ==
    \A i, j \in 1..(Len(built.blocks) + 1) : builtLink(i) = builtLink(j) => i = j

NotYetAltered ==
    alterations = 0 => built = [header |-> header, blocks |-> blocks]

Forged(b) ==
    /\ b.signature.by = built.header.privateKey
    /\ \A j \in DOMAIN built.blocks : b.signature # built.blocks[j].signature

NothingForged == \A i \in DOMAIN blocks : ~Forged(blocks[i])

AlterationInv ==
    /\ Typed
    /\ alterations \in Nat
    /\ BuiltWell
    /\ DistinctLinks
    /\ NotYetAltered
    /\ NothingForged

-----------------------------------------------------------------------------

\* The elements of a sequence.
LEMMA SeqElements ==
    ASSUME NEW S, NEW s \in Seq(S)
    PROVE  /\ IsSeq(s) /\ Len(s) \in Nat /\ DOMAIN s = 1..Len(s)
           /\ \A i \in DOMAIN s : s[i] \in S
<1>1. Len(s) \in Nat /\ s \in [1..Len(s) -> S] /\ DOMAIN s = 1..Len(s)
  BY LenProperties
<1>2. s = [i \in 1..Len(s) |-> s[i]]
  BY <1>1
<1> DEFINE T == {s[i] : i \in DOMAIN s}
<1>3. s \in [1..Len(s) -> T]
  BY <1>1, <1>2
<1>4. s \in Seq(T)
  <2> HIDE DEF T
  <2> QED BY <1>1, <1>3
<1>5. IsSeq(s)
  BY <1>4 DEF IsSeq
<1> QED
  BY <1>1, <1>5

\* An alteration that forges no signature.
LEMMA AlterKeepsInv ==
    ASSUME AlterationInv, Alter, header' \in Headers, IsSeq(blocks'),
           \A i \in DOMAIN blocks' : IsContainer(blocks'[i]) /\ ~Forged(blocks'[i])
    PROVE  AlterationInv'
<1>1. UNCHANGED built /\ alterations' \in Nat /\ alterations' # 0
  BY DEF Alter, AlterationInv
<1>2. \A j : builtLink(j)' = builtLink(j)
  BY <1>1 DEF builtLink
<1>3. Typed'
  BY <1>1 DEF AlterationInv, Typed, IsSeq, IsContainer
<1>4. BuiltWell'
  BY <1>1, <1>2 DEF AlterationInv, BuiltWell
<1>5. DistinctLinks'
  BY <1>1, <1>2 DEF AlterationInv, DistinctLinks
<1>6. NothingForged'
  BY <1>1 DEF NothingForged, Forged
<1> QED
  BY <1>1, <1>3, <1>4, <1>5, <1>6 DEF AlterationInv, NotYetAltered

\* An alteration that moves blocks.
LEMMA MoveKeepsInv ==
    ASSUME AlterationInv, Alter, UNCHANGED header,
           blocks' \in Seq({blocks[i] : i \in DOMAIN blocks})
    PROVE  AlterationInv'
<1>1. IsSeq(blocks') /\ \A j \in DOMAIN blocks' : \E i \in DOMAIN blocks : blocks'[j] = blocks[i]
  BY SeqElements
<1>2. header' \in Headers
  BY DEF AlterationInv, Typed
<1>3. \A j \in DOMAIN blocks' : IsContainer(blocks'[j]) /\ ~Forged(blocks'[j])
  BY <1>1 DEF AlterationInv, Typed, NothingForged
<1> QED
  BY <1>1, <1>2, <1>3, AlterKeepsInv

\* Editing a block forges no signature: the key is missing.
LEMMA EditedOK ==
    ASSUME AlterationInv, NEW i \in DOMAIN blocks, NEW b \in Edited(i)
    PROVE  IsContainer(b) /\ ~Forged(b)
<1> DEFINE old == blocks[i]
<1>1. IsContainer(old) /\ ~Forged(old)
  BY DEF AlterationInv, Typed, NothingForged
<1>2. old = [hash |-> old.hash, prevHash |-> old.prevHash, nonce |-> old.nonce,
             data |-> old.data, signature |-> old.signature]
  BY <1>1 DEF IsContainer, Container
<1>3. ASSUME b.signature = old.signature PROVE ~Forged(b)
  BY <1>1, <1>3 DEF Forged
<1>4. CASE \E d : b = [old EXCEPT !.data = d]
  BY <1>2, <1>3, <1>4 DEF IsContainer, Container
<1>5. CASE \E n : b = [old EXCEPT !.nonce = n]
  BY <1>2, <1>3, <1>5 DEF IsContainer, Container
<1>6. CASE \E h : b = [old EXCEPT !.prevHash = h]
  BY <1>2, <1>3, <1>6 DEF IsContainer, Container
<1>7. CASE \E h : b = [old EXCEPT !.hash = h]
  BY <1>2, <1>3, <1>7 DEF IsContainer, Container
<1>8. ASSUME NEW s, b = [old EXCEPT !.signature = s] PROVE IsContainer(b) /\ b.signature = s
  BY <1>2, <1>8 DEF IsContainer, Container
<1>9. ASSUME NEW digest, NEW k \in PrivateKeys \ {built.header.privateKey},
             b = [old EXCEPT !.signature = getSignature(digest, k)]
      PROVE  IsContainer(b) /\ ~Forged(b)
  <2>1. getSignature(digest, k).by = k
    BY DEF getSignature
  <2> QED BY <1>8, <1>9, <2>1 DEF Forged
<1>10. ASSUME NEW j \in DOMAIN blocks, b = [old EXCEPT !.signature = blocks[j].signature]
       PROVE  IsContainer(b) /\ ~Forged(b)
  <2>1. ~Forged(blocks[j])
    BY DEF AlterationInv, NothingForged
  <2> QED BY <1>8, <1>10, <2>1 DEF Forged
<1> HIDE DEF old
<1>11. \/ \E d : b = [old EXCEPT !.data = d]
       \/ \E n : b = [old EXCEPT !.nonce = n]
       \/ \E h : b = [old EXCEPT !.prevHash = h]
       \/ \E h : b = [old EXCEPT !.hash = h]
       \/ \E digest : \E k \in PrivateKeys \ {built.header.privateKey} :
            b = [old EXCEPT !.signature = getSignature(digest, k)]
       \/ \E j \in DOMAIN blocks : b = [old EXCEPT !.signature = blocks[j].signature]
  BY DEF Edited, old
<1> QED
  BY <1>4, <1>5, <1>6, <1>7, <1>9, <1>10, <1>11

LEMMA EditBlockKeepsInv ==
    ASSUME AlterationInv, NEW i \in DOMAIN blocks, EditBlock(i)
    PROVE  AlterationInv'
<1>1. PICK b \in Edited(i) : blocks' = [blocks EXCEPT ![i] = b]
  BY DEF EditBlock
<1>2. Alter /\ header' \in Headers
  BY DEF EditBlock, AlterationInv, Typed
<1>3. IsContainer(b) /\ ~Forged(b)
  BY EditedOK
<1> DEFINE S == {blocks[j] : j \in DOMAIN blocks} \cup {b}
<1>4. blocks \in Seq({blocks[j] : j \in DOMAIN blocks})
  BY DEF AlterationInv, Typed, IsSeq
<1>5. blocks \in Seq(S)
  BY <1>4, SeqMonotonic
<1>6. DOMAIN blocks = 1..Len(blocks)
  BY <1>4, SeqElements
<1>7. blocks' \in Seq(S)
  <2>1. b \in S
    OBVIOUS
  <2> HIDE DEF S
  <2> QED BY <1>1, <1>5, <1>6, <2>1, ExceptSeq
<1>8. IsSeq(blocks') /\ \A j \in DOMAIN blocks' : blocks'[j] \in S
  <2> HIDE DEF S
  <2> QED BY <1>7, SeqElements
<1>9. \A x \in S : IsContainer(x) /\ ~Forged(x)
  BY <1>3 DEF AlterationInv, Typed, NothingForged
<1> QED
  BY <1>2, <1>8, <1>9, AlterKeepsInv

LEMMA MovesKeepInv ==
    ASSUME AlterationInv, NEW i \in DOMAIN blocks, NEW j \in DOMAIN blocks,
           DropBlock(i) \/ RepeatBlock(i) \/ SwapBlocks(i, j)
    PROVE  AlterationInv'
<1> DEFINE S == {blocks[k] : k \in DOMAIN blocks}
           n == Len(blocks)
<1>1. blocks \in Seq(S)
  BY DEF AlterationInv, Typed, IsSeq
<1>2. Alter /\ UNCHANGED header
  BY DEF DropBlock, RepeatBlock, SwapBlocks
<1>3. blocks[i] \in S /\ blocks[j] \in S
  OBVIOUS
<1>4. \A k \in DOMAIN blocks : blocks[k] \in S
  OBVIOUS
<1> SUFFICES blocks' \in Seq(S)
  BY <1>2, MoveKeepsInv
<1> HIDE DEF S
<1>5. n \in Nat /\ DOMAIN blocks = 1..n /\ i \in 1..n /\ j \in 1..n
  BY <1>1, SeqElements
<1> HIDE DEF n
<1>6. ASSUME NEW a \in Int, NEW b \in Int, 1 <= a, b <= n
      PROVE  SubSeq(blocks, a, b) \in Seq(S)
  <2>1. \A k \in a..b : k \in 1..n
    BY <1>5, <1>6
  <2> QED BY <1>4, <1>5, <2>1, SubSeqProperties
<1>7. CASE DropBlock(i)
  <2>1. SubSeq(blocks, 1, i - 1) \in Seq(S) /\ SubSeq(blocks, i + 1, n) \in Seq(S)
    <3>1. i - 1 \in Int /\ i - 1 <= n /\ i + 1 \in Int /\ 1 <= i + 1 /\ n \in Int /\ n <= n
      BY <1>5
    <3> QED BY <1>6, <3>1
  <2>2. blocks' = SubSeq(blocks, 1, i - 1) \o SubSeq(blocks, i + 1, n)
    BY <1>7 DEF DropBlock, n
  <2> QED BY <2>1, <2>2, ConcatProperties
<1>8. CASE RepeatBlock(i)
  <2>1. SubSeq(blocks, 1, i) \in Seq(S) /\ SubSeq(blocks, i, n) \in Seq(S)
    <3>1. i \in Int /\ i <= n /\ 1 <= i /\ n \in Int /\ n <= n
      BY <1>5
    <3> QED BY <1>6, <3>1
  <2>2. blocks' = SubSeq(blocks, 1, i) \o SubSeq(blocks, i, n)
    BY <1>8 DEF RepeatBlock, n
  <2> QED BY <2>1, <2>2, ConcatProperties
<1>9. CASE SwapBlocks(i, j)
  <2> DEFINE once == [blocks EXCEPT ![i] = blocks[j]]
  <2>1. once \in Seq(S) /\ Len(once) = n
    BY <1>1, <1>3, <1>5, ExceptSeq DEF n
  <2>2. blocks' = [once EXCEPT ![j] = blocks[i]]
    BY <1>9 DEF SwapBlocks
  <2> HIDE DEF once
  <2> QED BY <1>3, <1>5, <2>1, <2>2, ExceptSeq
<1> QED
  BY <1>7, <1>8, <1>9

LEMMA EditHeaderKeepsInv ==
    ASSUME AlterationInv, EditHeader
    PROVE  AlterationInv'
<1>1. Alter /\ UNCHANGED blocks
  BY DEF EditHeader
<1>2. header' \in Headers
  BY DEF EditHeader, Headers
<1>3. IsSeq(blocks') /\ \A i \in DOMAIN blocks' : IsContainer(blocks'[i]) /\ ~Forged(blocks'[i])
  BY <1>1 DEF AlterationInv, Typed, NothingForged
<1> QED
  BY <1>1, <1>2, <1>3, AlterKeepsInv

\* addBlock's block has a link of its own: it contains the link before it.
LEMMA AddBlockKeepsInv ==
    ASSUME AlterationInv, NEW nonce \in Nonces, NEW data \in Data, AddBlock(nonce, data)
    PROVE  AlterationInv'
<1>0. PICK n, last, block :
        /\ n = Len(blocks) /\ last = link(n + 1)
        /\ block = makeBlock(header, last, nonce, data)
  OBVIOUS
<1>1. /\ alterations = 0 /\ UNCHANGED <<header, alterations>>
      /\ blocks' = Append(blocks, block)
      /\ built' = [header |-> header, blocks |-> blocks']
  BY <1>0 DEF AddBlock
<1>2. built.header = header /\ built.blocks = blocks
  BY <1>1 DEF AlterationInv, NotYetAltered
<1>3. /\ blocks \in Seq({blocks[j] : j \in DOMAIN blocks})
      /\ n \in Nat /\ DOMAIN blocks = 1..n
  BY <1>0, SeqElements DEF AlterationInv, Typed, IsSeq
<1>4. last = builtLink(n + 1)
  BY <1>0, <1>2 DEF link, builtLink
<1>5. /\ block.nonce = nonce /\ block.data = data /\ block.prevHash = last
      /\ block.signature = getSignature(getHash(<<last, nonce, data>>), header.privateKey)
      /\ block.hash = getHash(<<last, nonce, data, block.signature>>)
      /\ IsContainer(block)
  BY <1>0 DEF makeBlock, Container, IsContainer
<1>6. /\ IsSeq(blocks') /\ Len(blocks') = n + 1 /\ DOMAIN blocks' = 1..(n + 1)
      /\ blocks'[n + 1] = block /\ \A j \in 1..n : blocks'[j] = blocks[j]
  <2> DEFINE S == {blocks[j] : j \in DOMAIN blocks} \cup {block}
  <2>1. blocks \in Seq(S) /\ block \in S
    BY <1>3, SeqMonotonic
  <2> HIDE DEF S
  <2>2. /\ blocks' \in Seq(S) /\ Len(blocks') = n + 1
        /\ blocks'[n + 1] = block /\ \A j \in 1..n : blocks'[j] = blocks[j]
    BY <1>0, <1>1, <1>3, <2>1, AppendProperties
  <2> QED BY <2>2, SeqElements
<1>7. built'.header = header /\ built'.blocks = blocks'
  BY <1>1
<1>8. /\ \A j \in 1..(n + 1) : builtLink(j)' = builtLink(j)
      /\ builtLink(n + 2)' = block.hash
  <2>1. \A j \in 1..(n + 1) : j # 1 => j - 1 \in 1..n
    BY <1>3
  <2>2. n + 2 # 1 /\ (n + 2) - 1 = n + 1
    BY <1>3
  <2>3. ASSUME NEW j \in 1..(n + 1) PROVE builtLink(j)' = builtLink(j)
    BY <1>2, <1>6, <1>7, <2>1 DEF builtLink
  <2>4. builtLink(n + 2)' = block.hash
    BY <1>6, <1>7, <2>2 DEF builtLink
  <2> QED BY <2>3, <2>4
<1>10. Typed'
  <2>1. header' \in Headers /\ built'.header \in Headers
    BY <1>1, <1>7 DEF AlterationInv, Typed
  <2>2. \A j \in 1..(n + 1) : IsContainer(blocks'[j])
    <3>1. \A j \in 1..n : IsContainer(blocks[j])
      BY <1>3 DEF AlterationInv, Typed
    <3>2. \A j \in 1..(n + 1) : j \in 1..n \/ j = n + 1
      BY <1>3
    <3> QED BY <1>5, <1>6, <3>1, <3>2
  <2> QED BY <1>6, <1>7, <2>1, <2>2 DEF Typed, IsSeq, IsContainer
<1>11. ASSUME NEW j \in 1..(n + 1), NEW b, b = blocks'[j]
       PROVE  /\ b.signature = getSignature(getHash(<<builtLink(j), b.nonce, b.data>>),
                                            header.privateKey)
              /\ b.hash = getHash(<<builtLink(j), b.nonce, b.data, b.signature>>)
  <2>1. CASE j \in 1..n
    BY <1>2, <1>3, <1>6, <1>11, <2>1 DEF AlterationInv, BuiltWell
  <2>2. CASE j = n + 1
    BY <1>4, <1>5, <1>6, <1>11, <2>2
  <2> QED BY <1>3, <2>1, <2>2
<1>12. BuiltWell'
  <2>1. header.publicKey = createPublicKey(header.privateKey)
    BY <1>2 DEF AlterationInv, BuiltWell
  <2> QED BY <1>6, <1>7, <1>8, <1>11, <2>1 DEF BuiltWell
<1>13. \A i, j \in 1..(n + 1) : builtLink(i) = builtLink(j) => i = j
  BY <1>0, <1>2 DEF AlterationInv, DistinctLinks
<1>14. ASSUME NEW i \in 1..(n + 1) PROVE builtLink(i) # block.hash
  <2>1. CASE i = 1
    BY <1>5, <2>1, HeaderHashIsNoBlockHash DEF builtLink
  <2>2. CASE i # 1
    <3> DEFINE b == blocks[i - 1]
    <3>1. i - 1 \in 1..n /\ i - 1 \in 1..(n + 1) /\ i - 1 # n + 1 /\ n + 1 \in 1..(n + 1)
      BY <1>3, <2>2
    <3>2. builtLink(i) = getHash(<<builtLink(i - 1), b.nonce, b.data, b.signature>>)
      BY <1>2, <1>3, <2>2, <3>1 DEF builtLink, AlterationInv, BuiltWell
    <3>3. ASSUME builtLink(i) = block.hash PROVE builtLink(i - 1) = builtLink(n + 1)
      <4> HIDE DEF b
      <4>1. <<builtLink(i - 1), b.nonce, b.data, b.signature>> =
            <<builtLink(n + 1), nonce, data, block.signature>>
        BY <1>4, <1>5, <3>2, <3>3, HashInjective
      <4> QED BY <4>1
    <3> QED BY <1>13, <3>1, <3>3
  <2> QED BY <2>1, <2>2
<1>15. DistinctLinks'
  <2>1. Len(built'.blocks) + 1 = n + 2
    BY <1>3, <1>6, <1>7
  <2>2. \A i \in 1..(n + 2) : i \in 1..(n + 1) \/ i = n + 2
    BY <1>3
  <2>3. ASSUME NEW i \in 1..(n + 2), NEW j \in 1..(n + 2), builtLink(i)' = builtLink(j)'
        PROVE  i = j
    <3>1. CASE i \in 1..(n + 1) /\ j \in 1..(n + 1)
      BY <1>8, <1>13, <2>3, <3>1
    <3>2. CASE i \in 1..(n + 1) /\ j = n + 2
      BY <1>8, <1>14, <2>3, <3>2
    <3>3. CASE i = n + 2 /\ j \in 1..(n + 1)
      BY <1>8, <1>14, <2>3, <3>3
    <3> QED BY <2>2, <3>1, <3>2, <3>3
  <2> QED BY <2>1, <2>3 DEF DistinctLinks
<1>16. NothingForged'
  BY <1>7 DEF NothingForged, Forged
<1> QED
  BY <1>1, <1>7, <1>10, <1>12, <1>15, <1>16 DEF AlterationInv, NotYetAltered

LEMMA AlterationInvHolds == Spec => []AlterationInv
<1>1. Init => AlterationInv
  <2> SUFFICES ASSUME Init PROVE AlterationInv
    OBVIOUS
  <2>1. /\ header \in Headers /\ header.publicKey = createPublicKey(header.privateKey)
        /\ blocks = <<>> /\ built.header = header /\ built.blocks = <<>>
        /\ alterations = 0 /\ built = [header |-> header, blocks |-> blocks]
    BY DEF Init
  <2>2. IsSeq(<<>>) /\ DOMAIN blocks = {} /\ Len(<<>>) = 0
    BY <2>1 DEF IsSeq
  <2>3. DistinctLinks
    BY <2>1, <2>2 DEF DistinctLinks
  <2> QED BY <2>1, <2>2, <2>3 DEF AlterationInv, Typed, BuiltWell, NotYetAltered, NothingForged
<1>2. AlterationInv /\ [Next]_vars => AlterationInv'
  <2>1. ASSUME AlterationInv, UNCHANGED vars PROVE AlterationInv'
    <3>1. UNCHANGED <<header, blocks, built, alterations>> /\ \A j : builtLink(j)' = builtLink(j)
      BY <2>1 DEF vars, builtLink
    <3>2. Typed'
      BY <2>1, <3>1 DEF AlterationInv, Typed, IsSeq, IsContainer
    <3>3. BuiltWell' /\ DistinctLinks'
      BY <2>1, <3>1 DEF AlterationInv, BuiltWell, DistinctLinks
    <3>4. NothingForged' /\ NotYetAltered'
      BY <2>1, <3>1 DEF AlterationInv, NothingForged, Forged, NotYetAltered
    <3> QED BY <2>1, <3>1, <3>2, <3>3, <3>4 DEF AlterationInv
  <2>2. AlterationInv /\ Next => AlterationInv'
    BY AddBlockKeepsInv, EditBlockKeepsInv, MovesKeepInv, EditHeaderKeepsInv DEF Next
  <2> QED BY <2>1, <2>2
<1> QED
  BY <1>1, <1>2, PTL DEF Spec

-----------------------------------------------------------------------------

\* Block i of the stored chain is block j of the chain that was built, under
\* the same link.
Is(i, j) ==
    /\ j \in DOMAIN built.blocks
    /\ link(i) = builtLink(j)
    /\ Content(blocks[i]) = Content(built.blocks[j])

\* A block verifyChain accepts was built, at its place or at another: its
\* signature was made for its link, nonce and data.
LEMMA AcceptedWasBuilt ==
    ASSUME AlterationInv, header.publicKey = built.header.publicKey,
           NEW i \in DOMAIN blocks, verifyBlock(header, link(i), blocks[i])
    PROVE  \E j : Is(i, j)
<1> DEFINE b == blocks[i]
           key == built.header.privateKey
<1>1. /\ b.signature.signed = getHash(<<link(i), b.nonce, b.data>>)
      /\ header.publicKey = createPublicKey(b.signature.by)
      /\ b.hash = getHash(<<link(i), b.nonce, b.data, b.signature>>)
  BY DEF verifyBlock, verifySignature
<1>2. b.signature.by = key
  BY <1>1 DEF AlterationInv, BuiltWell, createPublicKey
<1>3. PICK j \in DOMAIN built.blocks : b.signature = built.blocks[j].signature
  BY <1>2 DEF AlterationInv, NothingForged, Forged
<1> DEFINE o == built.blocks[j]
<1>4. /\ o.signature = getSignature(getHash(<<builtLink(j), o.nonce, o.data>>), key)
      /\ o.hash = getHash(<<builtLink(j), o.nonce, o.data, o.signature>>)
  BY DEF AlterationInv, BuiltWell
<1> HIDE DEF b, o, key
<1>5. o.signature.signed = getHash(<<builtLink(j), o.nonce, o.data>>)
  BY <1>4 DEF getSignature
<1>6. b.signature = o.signature
  BY <1>3 DEF o
<1>7. <<link(i), b.nonce, b.data>> = <<builtLink(j), o.nonce, o.data>>
  BY <1>1, <1>5, <1>6, HashInjective
<1>8. link(i) = builtLink(j) /\ b.nonce = o.nonce /\ b.data = o.data
  BY <1>7
<1>9. b.hash = o.hash
  BY <1>1, <1>4, <1>6, <1>8
<1>10. Is(i, j)
  BY <1>6, <1>8, <1>9 DEF Is, Content, b, o
<1> QED
  BY <1>10

\* The first block verifyChain accepts is the first that was built, and the
\* one behind it the next: an accepted chain is a beginning of the built one.
LEMMA AcceptedInPlace ==
    ASSUME AlterationInv, header.publicKey = built.header.publicKey,
           verifyBlocks(header, blocks), NEW i \in DOMAIN blocks
    PROVE  Is(i, i)
<1> DEFINE n == Len(built.blocks)
           bad == {k \in DOMAIN blocks : ~Is(k, k)}
<1>1. /\ Len(blocks) \in Nat /\ DOMAIN blocks = 1..Len(blocks)
      /\ n \in Nat /\ DOMAIN built.blocks = 1..n
  BY SeqElements DEF AlterationInv, Typed, IsSeq
<1> SUFFICES ASSUME bad # {} PROVE FALSE
  OBVIOUS
<1>2. bad \subseteq Nat
  BY <1>1
<1>3. PICK k \in bad : \A m \in bad : k <= m
  BY <1>2, Least
<1>4. k \in DOMAIN blocks /\ k \in Nat /\ ~Is(k, k)
  BY <1>2, <1>3
<1>5. verifyBlock(header, link(k), blocks[k])
  BY <1>4 DEF verifyBlocks, link
<1>6. PICK j : Is(k, j)
  BY <1>4, <1>5, AcceptedWasBuilt
<1>7. j \in 1..n /\ link(k) = builtLink(j)
  BY <1>1, <1>6 DEF Is
<1>8. CASE k = 1
  <2>1. link(k) = headerHash(header)
    BY <1>8 DEF link
  <2>2. CASE j # 1
    <3> DEFINE o == built.blocks[j - 1]
    <3>1. j - 1 \in DOMAIN built.blocks
      BY <1>1, <1>7, <2>2
    <3>2. builtLink(j) = getHash(<<builtLink(j - 1), o.nonce, o.data, o.signature>>)
      BY <2>2, <3>1 DEF builtLink, AlterationInv, BuiltWell
    <3> QED BY <1>7, <2>1, <3>2, HeaderHashIsNoBlockHash
  <2> QED BY <1>4, <1>6, <1>8, <2>2
<1>9. CASE k # 1
  <2>1. k - 1 \in DOMAIN blocks /\ k - 1 \in Nat /\ ~(k <= k - 1)
    BY <1>1, <1>4, <1>9
  <2>2. Is(k - 1, k - 1)
    BY <1>3, <2>1
  <2>3. k - 1 \in 1..n /\ blocks[k - 1].hash = built.blocks[k - 1].hash
    BY <1>1, <2>2 DEF Is, Content
  <2>4. link(k) = builtLink(k)
    BY <1>9, <2>3 DEF link, builtLink
  <2>5. k \in 1..(n + 1) /\ j \in 1..(n + 1)
    BY <1>1, <1>4, <1>7, <2>3
  <2>6. k = j
    BY <1>7, <2>4, <2>5 DEF AlterationInv, DistinctLinks
  <2> QED BY <1>4, <1>6, <2>6
<1> QED
  BY <1>8, <1>9

\* verifyChain accepts a chain under its own public key exactly when it is a
\* beginning of what addBlock built: for every chain and every sequence of
\* alterations that does not use the private key.
THEOREM VerifyNoticesAlterations == Spec => []NoticesAlterations
<1>1. AlterationInv => NoticesAlterations
  <2> SUFFICES ASSUME AlterationInv, header.publicKey = built.header.publicKey
               PROVE  verifyBlocks(header, blocks) <=> blocks = <<>> \/ AsBuilt
    BY DEF NoticesAlterations
  <2>1. /\ Len(blocks) \in Nat /\ DOMAIN blocks = 1..Len(blocks)
        /\ Len(built.blocks) \in Nat /\ DOMAIN built.blocks = 1..Len(built.blocks)
    BY SeqElements DEF AlterationInv, Typed, IsSeq
  <2>2. ASSUME verifyBlocks(header, blocks), blocks # <<>> PROVE AsBuilt
    <3>1. \A i \in DOMAIN blocks : Is(i, i)
      BY <2>2, AcceptedInPlace
    <3>2. Len(blocks) # 0
      <4>1. blocks \in Seq({blocks[i] : i \in DOMAIN blocks})
        BY DEF AlterationInv, Typed, IsSeq
      <4> QED BY <2>2, <4>1, EmptySeq
    <3>3. 1 \in DOMAIN blocks /\ Len(blocks) \in DOMAIN blocks
      BY <2>1, <3>2
    <3>4. link(1) = builtLink(1)
      BY <3>1, <3>3 DEF Is
    <3>5. headerHash(header) = headerHash(built.header)
      BY <3>4 DEF link, builtLink
    <3>6. header = built.header
      BY <3>5, HeaderHashInjective DEF AlterationInv, Typed
    <3>7. Len(blocks) <= Len(built.blocks)
      BY <2>1, <3>1, <3>3 DEF Is
    <3> QED BY <3>1, <3>6, <3>7 DEF AsBuilt, Is
  <2>3. ASSUME blocks = <<>> PROVE verifyBlocks(header, blocks)
    BY <2>3 DEF verifyBlocks
  <2>4. ASSUME AsBuilt PROVE verifyBlocks(header, blocks)
    <3> SUFFICES ASSUME NEW i \in DOMAIN blocks
                 PROVE  verifyBlock(header, link(i), blocks[i])
      BY DEF verifyBlocks, link
    <3>1. \A j \in DOMAIN blocks :
            /\ j \in DOMAIN built.blocks
            /\ blocks[j].hash = built.blocks[j].hash
            /\ blocks[j].nonce = built.blocks[j].nonce
            /\ blocks[j].data = built.blocks[j].data
            /\ blocks[j].signature = built.blocks[j].signature
      <4>1. \A j \in DOMAIN blocks : j \in DOMAIN built.blocks
        BY <2>1, <2>4 DEF AsBuilt
      <4>2. \A j \in DOMAIN blocks : Content(blocks[j]) = Content(built.blocks[j])
        BY <2>4 DEF AsBuilt
      <4>3. \A a, b : Content(a) = Content(b) =>
                /\ a.hash = b.hash /\ a.nonce = b.nonce
                /\ a.data = b.data /\ a.signature = b.signature
        BY DEF Content
      <4> QED BY <4>1, <4>2, <4>3
    <3>2. i # 1 => i - 1 \in DOMAIN blocks
      BY <2>1
    <3>3. header = built.header
      BY <2>4 DEF AsBuilt
    <3>4. link(i) = builtLink(i)
      BY <3>1, <3>2, <3>3 DEF link, builtLink
    <3>5. LET b == built.blocks[i] IN
          /\ b.signature = getSignature(getHash(<<builtLink(i), b.nonce, b.data>>),
                                        built.header.privateKey)
          /\ b.hash = getHash(<<builtLink(i), b.nonce, b.data, b.signature>>)
          /\ built.header.publicKey = createPublicKey(built.header.privateKey)
      BY <3>1 DEF AlterationInv, BuiltWell
    <3> QED BY <3>1, <3>3, <3>4, <3>5 DEF verifyBlock, verifySignature, getSignature
  <2> QED BY <2>2, <2>3, <2>4
<1> QED
  BY <1>1, AlterationInvHolds, PTL

=============================================================================
