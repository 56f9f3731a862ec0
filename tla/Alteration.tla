----------------------------- MODULE Alteration -----------------------------
(***************************************************************************)
(* What Manager::verifyChain (src/Storage/Manager.cpp) tells about a stored *)
(* chain that was changed after addBlock had built it: a chain grows as     *)
(* addBlock makes it grow, and then its stored header and blocks are        *)
(* altered, one piece at a time, without the private key of the chain.      *)
(***************************************************************************)
EXTENDS Verification, Sequences

CONSTANTS
    Data, Nonces, PrivateKeys,
    MaxBlocks,      \* bound: the blocks of the chain
    MaxAlterations  \* bound: how often it is altered

ASSUME AlterationAssumption == MaxBlocks \in Nat /\ MaxAlterations \in Nat

VARIABLES
    header,         \* what is stored
    blocks,
    built,          \* the chain as addBlock left it
    alterations     \* how often it was altered since

vars == <<header, blocks, built, alterations>>

Headers == [data : Data, privateKey : PrivateKeys,
            publicKey : {createPublicKey(k) : k \in PrivateKeys}]

\* The link of block i, as verifyChain computes it.
link(i) == IF i = 1 THEN headerHash(header) ELSE blocks[i - 1].hash

Init ==
    /\ header \in {h \in Headers : h.publicKey = createPublicKey(h.privateKey)}
    /\ blocks = <<>>
    /\ built = [header |-> header, blocks |-> blocks]
    /\ alterations = 0

\* addBlock
AddBlock(nonce, data) ==
    /\ alterations = 0
    /\ Len(blocks) < MaxBlocks
    /\ blocks' = Append(blocks, makeBlock(header, link(Len(blocks) + 1), nonce, data))
    /\ built' = [header |-> header, blocks |-> blocks']
    /\ UNCHANGED <<header, alterations>>

-----------------------------------------------------------------------------
\* The alterations.

\* Block i with another nonce or data, with its link, hash or signature taken
\* from elsewhere in the chain, with its hash computed anew, or signed anew
\* with a key that is not the chain's.
Edited(i) ==
    LET b == blocks[i]
        body == getHash(<<link(i), b.nonce, b.data>>)
        whole == getHash(<<link(i), b.nonce, b.data, b.signature>>)
        others == DOMAIN blocks \ {i}
    IN  {[b EXCEPT !.data = d] : d \in Data}
        \cup {[b EXCEPT !.nonce = n] : n \in Nonces}
        \cup {[b EXCEPT !.prevHash = h] :
                h \in {headerHash(header)} \cup {blocks[j].hash : j \in others}}
        \cup {[b EXCEPT !.hash = h] :
                h \in {whole, headerHash(header)} \cup {blocks[j].hash : j \in others}}
        \cup {[b EXCEPT !.signature = s] :
                s \in {getSignature(body, k) :
                            k \in PrivateKeys \ {built.header.privateKey}}
                      \cup {blocks[j].signature : j \in others}}

Alter ==
    /\ alterations < MaxAlterations
    /\ alterations' = alterations + 1
    /\ UNCHANGED built

EditBlock(i) ==
    /\ Alter
    /\ \E b \in Edited(i) \ {blocks[i]} : blocks' = [blocks EXCEPT ![i] = b]
    /\ UNCHANGED header

DropBlock(i) ==
    /\ Alter
    /\ blocks' = SubSeq(blocks, 1, i - 1) \o SubSeq(blocks, i + 1, Len(blocks))
    /\ UNCHANGED header

RepeatBlock(i) ==
    /\ Alter
    /\ Len(blocks) < MaxBlocks
    /\ blocks' = SubSeq(blocks, 1, i) \o SubSeq(blocks, i, Len(blocks))
    /\ UNCHANGED header

SwapBlocks(i, j) ==
    /\ Alter
    /\ i < j
    /\ blocks' = [blocks EXCEPT ![i] = blocks[j], ![j] = blocks[i]]
    /\ UNCHANGED header

EditHeader ==
    /\ Alter
    /\ \E d \in Data, k, l \in PrivateKeys :
        /\ header' = [data |-> d, privateKey |-> k, publicKey |-> createPublicKey(l)]
        /\ header' # header
    /\ UNCHANGED blocks

Next ==
    \/ \E n \in Nonces, d \in Data : AddBlock(n, d)
    \/ \E i \in DOMAIN blocks :
        \/ EditBlock(i) \/ DropBlock(i) \/ RepeatBlock(i)
        \/ \E j \in DOMAIN blocks : SwapBlocks(i, j)
    \/ EditHeader

Spec == Init /\ [][Next]_vars

-----------------------------------------------------------------------------

\* The block without the link it stores.
Content(b) == [hash |-> b.hash, nonce |-> b.nonce, data |-> b.data,
               signature |-> b.signature]

\* A beginning of the chain that was built, under its header.
AsBuilt ==
    /\ header = built.header
    /\ Len(blocks) <= Len(built.blocks)
    /\ \A i \in DOMAIN blocks : Content(blocks[i]) = Content(built.blocks[i])

\* verifyChain accepts a stored chain exactly when it is as addBlock built it,
\* whatever was altered and altered back, as long as the header keeps the
\* public key.  What it does not notice: blocks missing at the end, and another
\* prev_hash stored in a block, which it never reads; and a chain without
\* blocks is accepted under any header.
NoticesAlterations ==
    header.publicKey = built.header.publicKey =>
        (verifyBlocks(header, blocks) <=> blocks = <<>> \/ AsBuilt)

=============================================================================
