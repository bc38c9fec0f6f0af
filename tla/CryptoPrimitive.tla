-------------------------- MODULE CryptoPrimitive --------------------------
(***************************************************************************)
(* CryptoPrimitive: sequences of EVP calls on a context of the caller.     *)
(* The object itself has only the types and the initialization vector,     *)
(* which nothing changes, and all sessions share it.                       *)
(*                                                                         *)
(* OpenSSL is external.  A byte of ciphertext is the byte of plaintext and *)
(* what it was combined with: cipher, key, vector and position.  A digest  *)
(* is what the constant Hash gives for the bytes that were fed.            *)
(***************************************************************************)
EXTENDS Integers, Sequences

CONSTANTS
    Hash, \* the digest of what may be hashed: a function on byte sequences
    Keys  \* bound: encryption keys

Byte == 0 .. 255

CRYPTO_BLOCK_SIZE == 16
CHUNK_HASH_SIZE == Len(Hash[CHOOSE x \in DOMAIN Hash : TRUE])

ENCRYPT_SET == {"AES_256_GCM", "AES_128_GCM", "AES_256_CFB", "AES_128_CFB"}
Gcm(type) == type \in {"AES_256_GCM", "AES_128_GCM"}

\* What is hashed and the digests are strings of bytes; the digests are different and of
\* one size.
ASSUME HashAssumption ==
    /\ DOMAIN Hash # {} /\ \A x \in DOMAIN Hash : x \in Seq(Byte) /\ Hash[x] \in Seq(Byte)
    /\ \A x, y \in DOMAIN Hash : Len(Hash[x]) = CHUNK_HASH_SIZE /\ (Hash[x] = Hash[y] => x = y)
    /\ \A x \in DOMAIN Hash : \E i \in DOMAIN Hash[x] : Hash[x][i] # 0

-----------------------------------------------------------------------------
(* EVP_MD_CTX                                                              *)

\* EVP_MD_CTX_new and EVP_MD_CTX_reset.
NewMdCtx == [init |-> FALSE, fed |-> << >>]

DigestInit(ctx) == [init |-> TRUE, fed |-> << >>]
DigestUpdate(ctx, bytes) == [ctx EXCEPT !.fed = @ \o bytes]

\* Bytes that are nothing Hash is given for have some other digest.
DigestFinal(ctx) ==
    IF ctx.init /\ ctx.fed \in DOMAIN Hash THEN Hash[ctx.fed] ELSE [i \in 1 .. CHUNK_HASH_SIZE |-> 0]

-----------------------------------------------------------------------------
(* EVP_CIPHER_CTX                                                          *)

\* EVP_CIPHER_CTX_new and EVP_CIPHER_CTX_reset.
NewCipherCtx == [type |-> "none", ivLen |-> 0, key |-> "none", pos |-> 0]

\* GCM starts with vectors of 12 bytes, CFB always has a block.
SetType(ctx, type) == [ctx EXCEPT !.type = type, !.ivLen = IF Gcm(type) THEN 12 ELSE CRYPTO_BLOCK_SIZE]
SetIvLen(ctx, n) == [ctx EXCEPT !.ivLen = n]
SetKey(ctx, key) == [ctx EXCEPT !.key = key, !.pos = 0]

\* Byte i of an update, and what has to be the same for the byte to come back.
Stream(ctx, i) == [type |-> ctx.type, ivLen |-> ctx.ivLen, key |-> ctx.key, pos |-> ctx.pos + i]
Encrypted(ctx, bytes) == [i \in DOMAIN bytes |-> [with |-> Stream(ctx, i), byte |-> bytes[i]]]
Decrypted(ctx, cipher) ==
    [i \in DOMAIN cipher |-> IF cipher[i].with = Stream(ctx, i) THEN cipher[i].byte ELSE -1]

\* What EVP_DecryptFinal_ex leaves in a len that was not set before.  GCM has no tag to
\* compare and fails: some versions set len to 0 all the same, others do not write it.
FinalLen(ctx) == IF Gcm(ctx.type) THEN {0, 1} ELSE {0}

-----------------------------------------------------------------------------
(* CryptoPrimitive                                                         *)

\* The switch of EncryptWithKey.  The data that is only authenticated is fed, too, and
\* takes no position; the length it leaves in cipherLen is overwritten.
InitEncrypt(type, key) ==
    IF Gcm(type) THEN SetKey(SetIvLen(SetType(NewCipherCtx, type), CRYPTO_BLOCK_SIZE), key)
                 ELSE SetKey(SetType(NewCipherCtx, type), key)

\* The switch of DecryptWithKey.
InitDecrypt(type, key) ==
    IF Gcm(type) THEN SetKey(SetIvLen(SetType(NewCipherCtx, type), CRYPTO_BLOCK_SIZE), key)
                 ELSE SetKey(SetType(NewCipherCtx, type), key)

\* How a call ends: with what it returns, or not, when the process exits.
Returned(bytes) == <<bytes>>
Exited == << >>

\* The update, the final call and the test of the length; how it ends.
EncryptWithKey(type, bytes, key) ==
    LET cipher == Encrypted(InitEncrypt(type, key), bytes) IN
    IF Len(cipher) = Len(bytes) THEN Returned(cipher) ELSE Exited

DecryptWithKey(type, cipher, key) ==
    LET ctx == InitDecrypt(type, key)
        plain == Decrypted(ctx, cipher)
    IN  {IF Len(plain) + len = Len(cipher) THEN Returned(plain) ELSE Exited : len \in FinalLen(ctx)}

\* The same for the messages of a session, always with one cipher.
SessionKeyEnc(bytes, sessionKey) == EncryptWithKey("AES_128_GCM", bytes, sessionKey)
SessionKeyDec(cipher, sessionKey) == DecryptWithKey("AES_128_GCM", cipher, sessionKey)

\* What is encrypted, decryption gives back under the same key.  With CFB it always
\* returns; with GCM, where nothing is set to compare the tag with, it may end the process
\* instead, and never returns anything else.
RoundTrip(text) ==
    \A key \in Keys :
        /\ \A type \in ENCRYPT_SET :
              LET cipher == EncryptWithKey(type, text, key)
                  ends == DecryptWithKey(type, cipher[1], key)
              IN  /\ cipher # Exited /\ Returned(text) \in ends
                  /\ ends \subseteq {Returned(text)} \union (IF Gcm(type) THEN {Exited} ELSE {})
        /\ Returned(text) \in SessionKeyDec(SessionKeyEnc(text, key)[1], key)
=============================================================================
