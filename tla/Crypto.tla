------------------------------- MODULE Crypto -------------------------------
(***************************************************************************)
(* The cryptographic primitives ChainDB calls (src/Crypto), modelled        *)
(* symbolically: a hash is the term built from what was hashed, a           *)
(* signature the term built from the digest and the private key.  Two       *)
(* hashes are equal exactly when their inputs are (no collisions), and a    *)
(* signature verifies exactly under the public key of the key that signed.  *)
(*                                                                         *)
(* SHA256::getHash feeds its input strings to one SHA256 context one after  *)
(* the other.  Every caller concatenates at most one string of variable     *)
(* length with strings of fixed length, so the concatenation determines the *)
(* parts and the term keeps them as a tuple.                                *)
(***************************************************************************)

\* SHA256::getHash: the digest of the concatenated parts.
getHash(parts) == [sha256 |-> parts]

\* SHA256::getHashN with n = 2, its default and the only value the code
\* passes: the digest of the digest.
getHashN(parts) == getHash(<<getHash(parts)>>)

\* Secp256k1::createPublicKey
createPublicKey(privateKey) == [of |-> privateKey]

\* Secp256k1::getSignature (deterministic nonce, RFC 6979: a function).
getSignature(hash, privateKey) == [signed |-> hash, by |-> privateKey]

\* Secp256k1::verifySignature
verifySignature(hash, publicKey, signature) ==
    /\ signature.signed = hash
    /\ publicKey = createPublicKey(signature.by)

=============================================================================
