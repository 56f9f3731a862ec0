---------------------------- MODULE Verification ----------------------------
(***************************************************************************)
(* The computations of Manager::addBlock and Manager::verifyChain           *)
(* (src/Storage/Manager.cpp): how a block is hashed, linked and signed, and *)
(* what is recomputed when a chain is verified.                             *)
(***************************************************************************)
EXTENDS Naturals, Crypto

\* What the first block links to.
headerHash(header) ==
    getHashN(<<header.data, header.privateKey, header.publicKey>>)

\* Block::Container
Container(hash, prevHash, nonce, data, signature) ==
    [hash |-> hash, prevHash |-> prevHash, nonce |-> nonce, data |-> data,
     signature |-> signature]

makeBlock(header, prevHash, nonce, data) ==
    LET bodyHash == getHash(<<prevHash, nonce, data>>)
        signature == getSignature(bodyHash, header.privateKey)
        hash == getHash(<<prevHash, nonce, data, signature>>)
    IN  Container(hash, prevHash, nonce, data, signature)

\* Taking the link from the block itself.
verifyBlock_StoredLink(header, prevHash, block) ==
    /\ verifySignature(getHash(<<block.prevHash, block.nonce, block.data>>),
                       header.publicKey, block.signature)
    /\ block.hash =
        getHash(<<block.prevHash, block.nonce, block.data, block.signature>>)

\* One turn of verifyChain's loop.  The prevHash it uses is recomputed from
\* the header or taken from the preceding block; the one stored in the block
\* is not looked at.
verifyBlock(header, prevHash, block) ==
    /\ verifySignature(getHash(<<prevHash, block.nonce, block.data>>),
                       header.publicKey, block.signature)
    /\ block.hash = getHash(<<prevHash, block.nonce, block.data, block.signature>>)

\* The loop of verifyChain; an empty chain is accepted.
verifyBlocks(header, blocks) ==
    \A i \in DOMAIN blocks :
        verifyBlock(header,
                    IF i = 1 THEN headerHash(header) ELSE blocks[i - 1].hash,
                    blocks[i])

=============================================================================
