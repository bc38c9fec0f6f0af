-------------------------- MODULE IndexStoreProofs --------------------------
(***************************************************************************)
(* What the index database keeps across saves, crashes and loads, and what *)
(* the sessions hash, for any chunks and any number of sessions, crashes   *)
(* and lives of the process.                                               *)
(*                                                                         *)
(* The argument is about the byte stream.  dbFile is always a beginning of *)
(* the records in the history variable written, so that OpenDB stands at   *)
(* the start of a record until it comes to the one that was cut; since a   *)
(* length takes one byte and three zeros, a length that was cut is read as *)
(* itself or as what its variable held.                                    *)
(*                                                                         *)
(* The counters of AbsIndex are followed from memory to their file and     *)
(* back, together with the entries they count.                             *)
(***************************************************************************)
EXTENDS IndexStore, FiniteSetTheorems, WellFoundedInduction, TLAPS

\* Fingerprints, and what the names of containers become.
Id == {x \in Seq(Byte) : Len(x) = CHUNK_HASH_SIZE}
Text == {x \in Seq(Byte) : Len(x) < 256}

\* Where record i of the last save ends.
Ends(i) == IF i = 0 THEN 0 ELSE written[i].end

\* As far as file f goes, it has str behind position p.
Holds(f, p, str) == \A j \in 1 .. Len(str) : p + j <= Len(f) => f[p + j] = str[j]

\* What OpenDB reads behind position p is record w.
RecordAt(f, p, w) ==
    /\ Holds(f, p, IntBytes(CHUNK_HASH_SIZE)) /\ Holds(f, p + 4, w.key)
    /\ Holds(f, p + 4 + CHUNK_HASH_SIZE, IntBytes(Len(w.value)))
    /\ Holds(f, p + 8 + CHUNK_HASH_SIZE, w.value)

\* The keys of the first n records.
Saved(n) == {written[i].key : i \in 1 .. n}

\* The entries f has under the keys of the first n records are those of the records.
Agrees(f, n) == \A i \in 1 .. n : f[written[i].key] = written[i].value

Types ==
    /\ backend \in CreateDatabase /\ torn \in BOOLEAN /\ exact \in BOOLEAN
    /\ phase \in {"down", "load", "loadstat", "up", "savestat", "stat", "savedb", "records"}
    /\ stat \in [DOMAIN ZeroStat -> Nat] /\ due \in [DOMAIN ZeroStat -> Nat]
    /\ statFile \in Seq(Nat) /\ Len(statFile) <= Len(Counter)
    /\ pc \in [Session -> {"idle", "size", "between", "num", "batch", "update", "final", "hashed", "ended"}]
    /\ reg \in [Session -> Nat]
    /\ crashes \in 0 .. MaxCrashes /\ lives \in 0 .. MaxLives

\* The statistics are written to an empty file, in a process that is ending.
StatInv == phase = "stat" => statFile = << >>

\* A session's context has been fed the chunk at hand and nothing else, whatever the
\* other sessions are at.
HashInv ==
    /\ chunk \in [Session -> Chunk \union {<< >>}]
    /\ mdCtx \in [Session -> [init : BOOLEAN, fed : Seq(Byte)]]
    /\ hash \in [Session -> Seq(Byte)]
    /\ \A s \in Session :
        /\ pc[s] \in {"update", "final", "hashed"} => chunk[s] \in Chunk
        /\ pc[s] = "update" => mdCtx[s] = [init |-> TRUE, fed |-> << >>]
        /\ pc[s] = "final" => mdCtx[s] = [init |-> TRUE, fed |-> chunk[s]]
        /\ pc[s] = "hashed" => hash[s] = Hash[chunk[s]]

\* Entries, and when there are any.
EntryInv ==
    /\ \A k \in DOMAIN indexObj : k \in Id /\ indexObj[k] \in Text
    /\ backend = "LEVEL_DB" => phase \notin {"load", "records"}
    /\ backend = "IN_MEMORY" /\ phase = "down" => DOMAIN indexObj = {}
    /\ reader.pos \in Nat /\ reader.key \in Seq(Byte) /\ reader.value \in Seq(Byte)
    /\ unsaved \subseteq DOMAIN indexObj

\* The file is a beginning of the records.
FileInv ==
    /\ dbFile \in Seq(Byte) /\ Len(dbFile) <= Ends(Len(written))
    /\ written \in Seq([key : Id, value : Text, end : Nat])
    /\ \A i \in 1 .. Len(written) :
        /\ written[i].end = Ends(i - 1) + 8 + CHUNK_HASH_SIZE + Len(written[i].value)
        /\ RecordAt(dbFile, Ends(i - 1), written[i])
    /\ \A i, j \in 1 .. Len(written) :
        i < j => written[i].end < written[j].end /\ written[i].key # written[j].key

\* ... and all of them, while it is being written, and after that if no crash came between.
WholeInv ==
    /\ phase = "records" =>
        /\ Len(dbFile) = Ends(Len(written))
        /\ Saved(Len(written)) = DOMAIN indexObj \ unsaved /\ Agrees(indexObj, Len(written))
    /\ phase # "records" /\ backend = "IN_MEMORY" /\ DOMAIN durable # {} =>
        /\ Len(dbFile) = Ends(Len(written))
        /\ Saved(Len(written)) = DOMAIN durable /\ Agrees(durable, Len(written))

\* OpenDB has loaded n records.
AtRecord(n) ==
    /\ reader.pos = Ends(n) /\ Ends(n) <= Len(dbFile)
    /\ reader.key = (IF n = 0 THEN << >> ELSE written[n].key)
    /\ reader.value = (IF n = 0 THEN << >> ELSE written[n].value)
    /\ DOMAIN indexObj = Saved(n) /\ Agrees(indexObj, n)

\* ... and these are all that are complete.
AllLoaded(n) ==
    LET extra == DOMAIN indexObj \ Saved(n) IN
    /\ Ends(n) <= Len(dbFile) /\ (n < Len(written) => Len(dbFile) < written[n + 1].end)
    /\ Saved(n) \subseteq DOMAIN indexObj /\ Agrees(indexObj, n)
    /\ \A x, y \in extra : x = y
    /\ Len(dbFile) = Ends(n) => extra = {}
    /\ {written[i].key : i \in {n, n + 1} \intersect DOMAIN written} \subseteq Key =>
          \A x \in extra \intersect Key : x = written[n + 1].key

LoadInv ==
    backend = "IN_MEMORY" =>
        /\ phase = "load" => \E n \in 0 .. Len(written) : AtRecord(n)
        /\ phase = "loadstat" => \E n \in 0 .. Len(written) : AllLoaded(n)

\* The entries that no crash may take are there.
KeptInv ==
    backend = "LEVEL_DB" \/ phase \in {"loadstat", "up", "savestat", "stat", "savedb"} =>
        \A k \in DOMAIN durable : k \in DOMAIN indexObj /\ indexObj[k] = durable[k]

DatabaseInv == EntryInv /\ FileInv /\ WholeInv /\ LoadInv /\ KeptInv
IndexInv == Types /\ StatInv /\ HashInv /\ DatabaseInv

-----------------------------------------------------------------------------
(* Bytes.                                                                  *)

\* A length takes one byte.
LEMMA ShortInt ==
    ASSUME NEW n \in 0 .. 255
    PROVE  IntBytes(n) = <<n, 0, 0, 0>> /\ IntOf(IntBytes(n)) = n
<1>1. n \in Nat /\ n < 256 OBVIOUS
<1>2. n % 256 = n /\ n \div 256 = 0 /\ n \div 65536 = 0 /\ n \div 16777216 = 0 BY <1>1
<1>3. 0 % 256 = 0 OBVIOUS
<1>4. IntBytes(n) = <<n, 0, 0, 0>> BY <1>2, <1>3 DEF IntBytes
<1> QED BY <1>1, <1>4 DEF IntOf

\* What a length is written as.
LEMMA IntTypes ==
    ASSUME NEW n \in 0 .. 255
    PROVE  IntBytes(n) \in Seq(Byte) /\ Len(IntBytes(n)) = 4
<1>1. IntBytes(n) = <<n, 0, 0, 0>> BY ShortInt
<1>2. n \in Byte /\ 0 \in Byte BY DEF Byte
<1> QED BY <1>1, <1>2

\* Fingerprints have one length between 1 and 255.
LEMMA HashSize ==
    /\ CHUNK_HASH_SIZE \in 1 .. 255
    /\ \A x \in Chunk : x \in Seq(Byte) /\ Hash[x] \in Id
    /\ \A s \in Session : Name[s] \in Text
<1>1. \A x \in Chunk : x \in Seq(Byte) /\ Hash[x] \in Seq(Byte) /\ Len(Hash[x]) = CHUNK_HASH_SIZE
  BY HashAssumption DEF Chunk
<1>2. PICK x \in DOMAIN Hash : TRUE BY HashAssumption
<1>3. \E i \in DOMAIN Hash[x] : TRUE BY <1>2, HashAssumption
<1>4. Len(Hash[x]) \in Nat /\ DOMAIN Hash[x] = 1 .. Len(Hash[x]) BY <1>1, <1>2 DEF Chunk
<1>5. Len(Hash[x]) >= 1 BY <1>3, <1>4
<1>6. CHUNK_HASH_SIZE \in 1 .. 255
  <2>1. CHUNK_HASH_SIZE < 256 BY StoreAssumption
  <2>2. CHUNK_HASH_SIZE = Len(Hash[x]) BY <1>1, <1>2 DEF Chunk
  <2> DEFINE n == Len(Hash[x])
  <2>3. n \in Nat /\ n >= 1 /\ n < 256 BY <1>4, <1>5, <2>1, <2>2
  <2> HIDE DEF n
  <2>4. n \in 1 .. 255 BY <2>3
  <2> QED BY <2>2, <2>4 DEF n
<1>7. \A s \in Session : Name[s] \in Text
  <2> TAKE s \in Session
  <2>1. Name[s] \in Seq(Byte) /\ Len(Name[s]) < CHUNK_HASH_SIZE BY StoreAssumption
  <2>2. Len(Name[s]) \in Nat BY <2>1
  <2> QED BY <1>6, <2>1, <2>2 DEF Text
<1> QED BY <1>1, <1>6, <1>7 DEF Id

\* A counter has one place in the file.
LEMMA CounterNames ==
    /\ Len(Counter) = 5 /\ DOMAIN Counter = 1 .. 5
    /\ \A i \in 1 .. 5 : Counter[i] \in DOMAIN ZeroStat
    /\ \A c \in DOMAIN ZeroStat : \E i \in 1 .. 5 : Counter[i] = c
    /\ {"logicalDataSize", "logicalChunkNum", "uniqueDataSize", "uniqueChunkNum"} \subseteq DOMAIN ZeroStat
<1>1. Len(Counter) = 5 /\ DOMAIN Counter = 1 .. 5 BY DEF Counter
<1>2. DOMAIN ZeroStat = {Counter[i] : i \in 1 .. 5} BY <1>1 DEF ZeroStat
<1>3. Counter[1] = "logicalDataSize" /\ Counter[2] = "logicalChunkNum" /\ Counter[3] = "uniqueDataSize"
      /\ Counter[4] = "uniqueChunkNum" BY DEF Counter
<1> HIDE DEF Counter
<1> QED BY <1>1, <1>2, <1>3

-----------------------------------------------------------------------------
(* Types, and the sessions' fingerprints.                                  *)

\* What feeding a context that was only initialised leaves.
LEMMA FedContext ==
    \A i, y, c : c = [init |-> i, fed |-> << >>] => [c EXCEPT !.fed = y] = [init |-> i, fed |-> y]
<1> SUFFICES ASSUME NEW i, NEW y, NEW c, c = [init |-> i, fed |-> << >>]
             PROVE  [c EXCEPT !.fed = y] = [init |-> i, fed |-> y] OBVIOUS
<1> QED BY SMT

\* The first state is well typed.
LEMMA TypesInitially == Init => Types /\ StatInv /\ HashInv
<1> SUFFICES ASSUME Init PROVE Types /\ StatInv /\ HashInv OBVIOUS
<1>1. ZeroStat \in [DOMAIN ZeroStat -> Nat] BY DEF ZeroStat
<1>2. Types
  <2>1. statFile \in Seq(Nat) /\ Len(statFile) <= Len(Counter) BY CounterNames DEF Init
  <2>2. 0 \in 0 .. MaxCrashes /\ 0 \in 0 .. MaxLives BY CountAssumption
  <2>3. pc \in [Session -> {"idle"}] /\ reg \in [Session -> Nat] BY DEF Init
  <2> QED BY <1>1, <2>1, <2>2, <2>3 DEF Init, Types, CreateDatabase
<1>3. StatInv BY DEF Init, StatInv
<1>4. HashInv BY DEF Init, HashInv, NewMdCtx
<1> QED BY <1>2, <1>3, <1>4

\* The steps of a session keep its context to itself.
LEMMA HashStep ==
    ASSUME Types, HashInv, [Next]_vars
    PROVE  HashInv'
<1> USE DEF Context, hashVars, sessionVars
<1>1. ASSUME NEW s \in Session, NEW x \in Chunk, HashInit(s, x) PROVE HashInv'
  <2>1. chunk' \in [Session -> Chunk \union {<< >>}] BY <1>1 DEF HashInit, HashInv
  <2>2. mdCtx' = [mdCtx EXCEPT ![s] = [init |-> TRUE, fed |-> << >>]]
    BY <1>1 DEF HashInit, HashInv, DigestInit
  <2>3. mdCtx' \in [Session -> [init : BOOLEAN, fed : Seq(Byte)]] BY <2>2 DEF HashInv
  <2> QED BY <1>1, <2>1, <2>2, <2>3 DEF HashInit, HashInv, Types, Move
<1>2. ASSUME NEW s \in Session, HashUpdate(s) PROVE HashInv'
  <2>1. chunk[s] \in Chunk /\ chunk[s] \in Seq(Byte) BY <1>2, HashSize DEF HashUpdate, HashInv
  <2>2. mdCtx[s] = [init |-> TRUE, fed |-> << >>] BY <1>2 DEF HashUpdate, HashInv
  <2>3. DigestUpdate(mdCtx[s], chunk[s]) = [init |-> TRUE, fed |-> << >> \o chunk[s]]
    <3>1. DigestUpdate(mdCtx[s], chunk[s]) = [mdCtx[s] EXCEPT !.fed = mdCtx[s].fed \o chunk[s]]
      BY Zenon DEF DigestUpdate
    <3>2. mdCtx[s].fed = << >> BY <2>2
    <3> DEFINE on == TRUE
               y == << >> \o chunk[s]
    <3>3. mdCtx[s] = [init |-> on, fed |-> << >>] BY <2>2
    <3>4. DigestUpdate(mdCtx[s], chunk[s]) = [mdCtx[s] EXCEPT !.fed = y] BY <3>1, <3>2
    <3> HIDE DEF on, y
    <3>5. [mdCtx[s] EXCEPT !.fed = y] = [init |-> on, fed |-> y] BY <3>3, FedContext, Zenon
    <3>6. DigestUpdate(mdCtx[s], chunk[s]) = [init |-> on, fed |-> y] BY <3>4, <3>5, Zenon
    <3> QED BY <3>6, Zenon DEF on, y
  <2>4. << >> \o chunk[s] = chunk[s] BY <2>1
  <2>5. mdCtx' = [mdCtx EXCEPT ![s] = [init |-> TRUE, fed |-> chunk[s]]]
    BY <1>2, <2>3, <2>4 DEF HashUpdate, HashInv
  <2>6. mdCtx' \in [Session -> [init : BOOLEAN, fed : Seq(Byte)]] BY <2>1, <2>5 DEF HashInv
  <2> QED BY <1>2, <2>1, <2>5, <2>6 DEF HashUpdate, HashInv, Types, Move
<1>3. ASSUME NEW s \in Session, HashFinal(s) PROVE HashInv'
  <2>1. chunk[s] \in Chunk /\ Hash[chunk[s]] \in Seq(Byte) BY <1>3, HashSize DEF HashFinal, HashInv, Id
  <2>2. DigestFinal(mdCtx[s]) = Hash[chunk[s]]
    BY <1>3, <2>1 DEF HashFinal, HashInv, DigestFinal, Chunk
  <2>3. hash' = [hash EXCEPT ![s] = Hash[chunk[s]]] BY <1>3, <2>2 DEF HashFinal
  <2>4. mdCtx' \in [Session -> [init : BOOLEAN, fed : Seq(Byte)]] BY <1>3 DEF HashFinal, HashInv, NewMdCtx
  <2>5. hash' \in [Session -> Seq(Byte)] BY <2>1, <2>3 DEF HashInv
  <2>6. UNCHANGED chunk /\ pc' = [pc EXCEPT ![s] = "hashed"] BY <1>3 DEF HashFinal, Move
  <2>7. \A t \in Session \ {s} : mdCtx'[t] = mdCtx[t] /\ hash'[t] = hash[t] /\ pc'[t] = pc[t]
    BY <1>3, <2>3, <2>6 DEF HashFinal, HashInv, Types
  <2>8. pc'[s] = "hashed" /\ hash'[s] = Hash[chunk[s]] BY <2>3, <2>6 DEF HashInv, Types
  <2>9. ASSUME NEW t \in Session
        PROVE /\ pc'[t] \in {"update", "final", "hashed"} => chunk'[t] \in Chunk
              /\ pc'[t] = "update" => mdCtx'[t] = [init |-> TRUE, fed |-> << >>]
              /\ pc'[t] = "final" => mdCtx'[t] = [init |-> TRUE, fed |-> chunk'[t]]
              /\ pc'[t] = "hashed" => hash'[t] = Hash[chunk'[t]]
    <3>1. CASE t = s BY <2>1, <2>6, <2>8, <3>1
    <3>2. CASE t # s BY <2>6, <2>7, <3>2 DEF HashInv
    <3> QED BY <3>1, <3>2
  <2>10. chunk' \in [Session -> Chunk \union {<< >>}] BY <2>6 DEF HashInv
  <2> QED BY <2>4, <2>5, <2>9, <2>10, Zenon DEF HashInv
<1>4. ASSUME NEW s \in Session, NewChunk(s) \/ KnownChunk(s) PROVE HashInv'
  <2>1. /\ pc' = [pc EXCEPT ![s] = "batch"] /\ chunk' = [chunk EXCEPT ![s] = << >>]
        /\ hash' = [hash EXCEPT ![s] = << >>] /\ mdCtx' = mdCtx
    BY <1>4 DEF NewChunk, KnownChunk, NextEntry, Move
  <2>2. /\ chunk' \in [Session -> Chunk \union {<< >>}] /\ hash' \in [Session -> Seq(Byte)]
        /\ mdCtx' \in [Session -> [init : BOOLEAN, fed : Seq(Byte)]]
    BY <2>1 DEF HashInv
  <2>3. \A t \in Session \ {s} : chunk'[t] = chunk[t] /\ hash'[t] = hash[t] /\ pc'[t] = pc[t]
    BY <2>1 DEF HashInv, Types
  <2>4. pc'[s] = "batch" BY <2>1 DEF Types
  <2> QED BY <2>1, <2>2, <2>3, <2>4 DEF HashInv
<1>5. ASSUME NEW s \in Session, AddLogicalSize(s) \/ AddLogicalNum(s) \/ EndSession(s) PROVE HashInv'
  BY <1>5, ZenonT(60) DEF AddLogicalSize, AddLogicalNum, AddLoad, AddStore, EndSession, HashInv, Types, Move
<1>6. ASSUME Crash PROVE HashInv' BY <1>6 DEF Crash, HashInv, NewMdCtx, Types
<1>7. ASSUME OpenDB \/ LoadRecord \/ LoadEnd \/ LoadStat \/ Close \/ TruncStat \/ WriteStat \/ TruncDB
             \/ CloseDB \/ (\E k \in DOMAIN indexObj : SaveRecord(k)) \/ UNCHANGED vars PROVE HashInv'
  <2>1. UNCHANGED <<pc, chunk, mdCtx, hash>>
    BY <1>7 DEF OpenDB, LoadRecord, LoadEnd, LoadStat, Close, TruncStat, WriteStat, TruncDB, CloseDB,
                SaveRecord, vars
  <2> QED BY <2>1 DEF HashInv
<1> QED
  BY <1>1, <1>2, <1>3, <1>4, <1>5, <1>6, <1>7 DEF Next, Receiver, GenerateHash

-----------------------------------------------------------------------------
(* Encryption.                                                             *)

\* Decrypting with the context that encrypted gives the bytes back, one by one.
LEMMA StreamInverse ==
    ASSUME NEW text \in Seq(Byte), NEW ctx
    PROVE  /\ Decrypted(ctx, Encrypted(ctx, text)) = text
           /\ Len(Encrypted(ctx, text)) = Len(text)
<1> DEFINE cipher == Encrypted(ctx, text)
<1>1. cipher = [i \in 1 .. Len(text) |-> [with |-> Stream(ctx, i), byte |-> text[i]]]
  BY DEF Encrypted
<1>2. Len(text) \in Nat OBVIOUS
<1> HIDE DEF cipher
<1>3. DOMAIN cipher = 1 .. Len(text) BY <1>1
<1>4. \A i \in 1 .. Len(text) : cipher[i].with = Stream(ctx, i) /\ cipher[i].byte = text[i]
  BY <1>1
<1>5. Len(cipher) = Len(text) BY <1>2, <1>3
<1>6. Decrypted(ctx, cipher) = [i \in 1 .. Len(text) |-> text[i]]
  BY <1>3, <1>4, Zenon DEF Decrypted
<1>7. [i \in 1 .. Len(text) |-> text[i]] = text OBVIOUS
<1> QED BY <1>5, <1>6, <1>7 DEF cipher

\* CryptoPrimitive: both directions set the context up alike.
LEMMA KeyInverse ==
    ASSUME NEW text \in Seq(Byte), NEW type, NEW key
    PROVE  LET cipher == EncryptWithKey(type, text, key)
               ends == DecryptWithKey(type, cipher[1], key)
           IN  /\ cipher # Exited /\ Returned(text) \in ends
               /\ ends \subseteq {Returned(text)} \union (IF Gcm(type) THEN {Exited} ELSE {})
<1> DEFINE ctx == InitEncrypt(type, key)
           bytes == Encrypted(ctx, text)
<1>1. InitDecrypt(type, key) = ctx BY DEF InitEncrypt, InitDecrypt
<1>2. Decrypted(ctx, bytes) = text /\ Len(bytes) = Len(text) BY StreamInverse
<1>3. EncryptWithKey(type, text, key) = Returned(bytes) BY <1>2 DEF EncryptWithKey
<1>4. Returned(bytes) # Exited /\ Returned(bytes)[1] = bytes BY DEF Returned, Exited
<1>5. ctx.type = type BY DEF InitEncrypt, SetKey, SetIvLen, SetType, NewCipherCtx
<1> HIDE DEF ctx, bytes
<1>6. DecryptWithKey(type, bytes, key) =
        {IF Len(text) + len = Len(text) THEN Returned(text) ELSE Exited : len \in FinalLen(ctx)}
  BY <1>1, <1>2 DEF DecryptWithKey
<1>7. /\ 0 \in FinalLen(ctx) /\ FinalLen(ctx) \subseteq {0, 1}
      /\ ~ Gcm(type) => FinalLen(ctx) = {0} BY <1>5 DEF FinalLen
<1>8. Len(text) + 0 = Len(text) /\ Len(text) + 1 # Len(text) OBVIOUS
<1>9. Returned(text) \in DecryptWithKey(type, bytes, key) BY <1>6, <1>7, <1>8
<1>10. DecryptWithKey(type, bytes, key) \subseteq
         {Returned(text)} \union (IF Gcm(type) THEN {Exited} ELSE {}) BY <1>6, <1>7, <1>8
<1> QED BY <1>3, <1>4, <1>9, <1>10

\* The same for the messages of a session, which have one cipher.
LEMMA AllRecovered == ASSUME NEW text \in Seq(Byte) PROVE RoundTrip(text)
<1>1. \A type, key :
        LET cipher == EncryptWithKey(type, text, key)
            ends == DecryptWithKey(type, cipher[1], key)
        IN  /\ cipher # Exited /\ Returned(text) \in ends
            /\ ends \subseteq {Returned(text)} \union (IF Gcm(type) THEN {Exited} ELSE {})
  BY KeyInverse
<1> QED BY <1>1, Zenon DEF RoundTrip, SessionKeyEnc, SessionKeyDec

-----------------------------------------------------------------------------
(* Types.                                                                  *)

\* Steps of the process keep the types of what they touch, and so do those of a session.
LEMMA TypesStep ==
    ASSUME Types, StatInv, HashInv, [Next]_vars
    PROVE  Types' /\ StatInv'
<1> USE DEF processVars, storeVars, statVars, sessionVars, hashVars
<1> DEFINE Loc == {"idle", "size", "between", "num", "batch", "update", "final", "hashed", "ended"}
           Phase == {"down", "load", "loadstat", "up", "savestat", "stat", "savedb", "records"}
           Counts == [DOMAIN ZeroStat -> Nat]
<1>0. ZeroStat \in Counts /\ (\A i \in 1 .. 5 : stat[Counter[i]] \in Nat)
  BY CounterNames DEF ZeroStat, Types
<1>1. ASSUME OpenDB PROVE Types' /\ StatInv'
  <2>1. lives' \in 0 .. MaxLives BY <1>1, CountAssumption DEF OpenDB, Types
  <2>2. phase' \in {"load", "loadstat"} BY <1>1 DEF OpenDB
  <2> QED BY <1>1, <2>1, <2>2 DEF OpenDB, Types, StatInv
<1>2. ASSUME LoadRecord \/ LoadEnd \/ Close \/ TruncDB \/ (\E k \in DOMAIN indexObj : SaveRecord(k))
      PROVE Types' /\ StatInv'
  <2>1. /\ phase' \in {"load", "loadstat", "savestat", "records"}
        /\ UNCHANGED <<backend, crashes, lives, stat, statFile, due, exact, pc, reg, torn>>
    BY <1>2 DEF LoadRecord, LoadEnd, Close, TruncDB, SaveRecord
  <2> QED BY <2>1 DEF Types, StatInv
<1>3. ASSUME LoadStat PROVE Types' /\ StatInv'
  <2>1. stat' \in Counts
    <3>1. ASSUME NEW i \in 1 .. 5 PROVE Loaded(i) \in Nat
      <4>1. Len(statFile) \in Nat /\ statFile \in Seq(Nat) BY DEF Types
      <4>2. i <= Len(statFile) => statFile[i] \in Nat BY <4>1
      <4> QED BY <4>2 DEF Loaded
    <3>2. \A c \in DOMAIN ZeroStat : Loaded(CHOOSE i \in DOMAIN Counter : Counter[i] = c) \in Nat
      BY <3>1, CounterNames
    <3>3. DOMAIN stat = DOMAIN ZeroStat BY DEF Types
    <3> QED BY <1>3, <3>2, <3>3 DEF LoadStat
  <2> QED BY <1>3, <2>1 DEF LoadStat, Types, StatInv
<1>4. ASSUME TruncStat PROVE Types' /\ StatInv'
  <2>1. statFile' \in Seq(Nat) /\ Len(statFile') <= Len(Counter) BY <1>4, CounterNames DEF TruncStat
  <2> QED BY <1>4, <2>1 DEF TruncStat, Types, StatInv
<1>5. ASSUME WriteStat PROVE Types' /\ StatInv'
  <2> DEFINE line == [i \in DOMAIN Counter |-> stat[Counter[i]]]
  <2>1. line \in Seq(Nat) /\ Len(line) = 5 BY <1>0, CounterNames
  <2>2. statFile' = << >> \o line BY <1>5 DEF WriteStat, StatInv
  <2> HIDE DEF line
  <2>3. statFile' \in Seq(Nat) /\ Len(statFile') = 5 BY <2>1, <2>2
  <2>4. Len(statFile') <= Len(Counter) BY <2>3, CounterNames
  <2> QED BY <1>5, <2>3, <2>4 DEF WriteStat, Types, StatInv
<1>6. ASSUME CloseDB PROVE Types' /\ StatInv'
  <2>1. /\ stat' \in Counts /\ phase' = "down"
        /\ UNCHANGED <<backend, crashes, lives, statFile, due, exact, pc, reg, torn>>
    BY <1>0, <1>6 DEF CloseDB
  <2> QED BY <2>1 DEF Types, StatInv
<1>7. ASSUME Crash PROVE Types' /\ StatInv'
  <2>1. crashes' \in 0 .. MaxCrashes BY <1>7, CountAssumption DEF Crash, Types
  <2>2. statFile' \in Seq(Nat) /\ Len(statFile') <= Len(Counter)
    <3>1. CASE phase # "stat" BY <1>7, <3>1 DEF Crash, Types
    <3>2. CASE phase = "stat"
      <4>1. PICK n \in 0 .. Len(Counter) : statFile' = [i \in 1 .. n |-> stat[Counter[i]]]
        BY <1>7, <3>2 DEF Crash
      <4>2. n \in 0 .. 5 BY <4>1, CounterNames
      <4>3. \A i \in 1 .. n : i \in 1 .. 5 BY <4>2
      <4>5. \A i \in 1 .. n : stat[Counter[i]] \in Nat BY <1>0, <4>3
      <4>4. statFile' \in Seq(Nat) /\ Len(statFile') = n BY <4>1, <4>2, <4>5
      <4> QED BY <4>2, <4>4, CounterNames
    <3> QED BY <3>1, <3>2
  <2>3. pc' \in [Session -> Loc] BY <1>7 DEF Crash
  <2>4. torn' \in BOOLEAN BY <1>7 DEF Crash
  <2>5. exact' \in BOOLEAN BY <1>7 DEF Crash
  <2>6. reg' \in [Session -> Nat] BY <1>7 DEF Crash
  <2>7. stat' \in Counts /\ phase' = "down" /\ UNCHANGED <<backend, lives, due>> BY <1>0, <1>7 DEF Crash
  <2> QED BY <2>1, <2>2, <2>3, <2>4, <2>5, <2>6, <2>7 DEF Types, StatInv
<1>8. ASSUME NEW s \in Session, NEW from \in Loc, NEW to \in Loc, NEW c \in DOMAIN ZeroStat,
             AddLoad(s, from, to, c)
      PROVE  Types' /\ StatInv'
  <2>1. reg' \in [Session -> Nat] /\ pc' \in [Session -> Loc] BY <1>8 DEF AddLoad, Move, Types
  <2>2. exact' \in BOOLEAN BY <1>8 DEF AddLoad
  <2> QED BY <1>8, <2>1, <2>2 DEF AddLoad, Types, StatInv
<1>9. ASSUME NEW s \in Session, NEW from \in Loc, NEW to \in Loc, NEW c \in DOMAIN ZeroStat, NEW n \in Nat,
             AddStore(s, from, to, c, n)
      PROVE  Types' /\ StatInv'
  <2>1. reg' \in [Session -> Nat] /\ pc' \in [Session -> Loc] BY <1>9 DEF AddStore, Move, Types
  <2>2. reg[s] + n \in Nat /\ due[c] + n \in Nat BY DEF Types
  <2>3. stat' \in Counts /\ due' \in Counts BY <1>9, <2>2 DEF AddStore, Types
  <2> QED BY <1>9, <2>1, <2>3 DEF AddStore, Types, StatInv
<1>10. ASSUME NEW s \in Session, AddLogicalSize(s) \/ AddLogicalNum(s) PROVE Types' /\ StatInv'
  <2>1. FileSize[s] \in Nat /\ ChunkNum[s] \in Nat BY CountAssumption
  <2>2. {"idle", "size", "between", "num", "batch"} \subseteq Loc OBVIOUS
  <2>3. "logicalDataSize" \in DOMAIN ZeroStat /\ "logicalChunkNum" \in DOMAIN ZeroStat BY CounterNames
  <2>4. CASE AddLoad(s, "idle", "size", "logicalDataSize") BY <1>8, <2>2, <2>3, <2>4
  <2>5. CASE AddStore(s, "size", "between", "logicalDataSize", FileSize[s]) BY <1>9, <2>1, <2>2, <2>3, <2>5
  <2>6. CASE AddLoad(s, "between", "num", "logicalChunkNum") BY <1>8, <2>2, <2>3, <2>6
  <2>7. CASE AddStore(s, "num", "batch", "logicalChunkNum", ChunkNum[s]) BY <1>9, <2>1, <2>2, <2>3, <2>7
  <2> QED BY <1>10, <2>4, <2>5, <2>6, <2>7 DEF AddLogicalSize, AddLogicalNum
<1>11. ASSUME NEW s \in Session, EndSession(s) \/ GenerateHash(s) \/ KnownChunk(s) PROVE Types' /\ StatInv'
  <2>1. pc' \in [Session -> Loc]
    BY <1>11 DEF EndSession, GenerateHash, HashInit, HashUpdate, HashFinal, KnownChunk, NextEntry, Move, Types
  <2>2. UNCHANGED <<backend, phase, crashes, lives, stat, statFile, due, exact, reg, torn>>
    BY <1>11 DEF EndSession, GenerateHash, HashInit, HashUpdate, HashFinal, KnownChunk
  <2> QED BY <2>1, <2>2 DEF Types, StatInv
<1>12. ASSUME NEW s \in Session, NewChunk(s) PROVE Types' /\ StatInv'
  <2>1. pc' \in [Session -> Loc] BY <1>12 DEF NewChunk, NextEntry, Move, Types
  <2>2. Len(chunk[s]) \in Nat
    <3>1. chunk[s] \in Chunk BY <1>12 DEF NewChunk, HashInv
    <3> QED BY <3>1, HashSize
  <2>6. stat["uniqueChunkNum"] \in Nat /\ stat["uniqueDataSize"] \in Nat
    <3>1. "uniqueChunkNum" \in DOMAIN ZeroStat /\ "uniqueDataSize" \in DOMAIN ZeroStat BY CounterNames
    <3> QED BY <3>1 DEF Types
  <2>3. stat["uniqueChunkNum"] + 1 \in Nat /\ stat["uniqueDataSize"] + Len(chunk[s]) \in Nat
    BY <2>2, <2>6
  <2>4. stat' \in Counts BY <1>12, <2>3 DEF NewChunk, Types
  <2>5. UNCHANGED <<backend, phase, crashes, lives, statFile, due, exact, reg, torn>> BY <1>12 DEF NewChunk
  <2> QED BY <2>1, <2>4, <2>5 DEF Types, StatInv
<1>13. ASSUME UNCHANGED vars PROVE Types' /\ StatInv' BY <1>13 DEF vars, Types, StatInv
<1> QED
  BY <1>1, <1>2, <1>3, <1>4, <1>5, <1>6, <1>7, <1>10, <1>11, <1>12, <1>13 DEF Next, Receiver

-----------------------------------------------------------------------------
(* Reading.                                                                *)

\* string::resize leaves a string of bytes of the length asked for.
LEMMA ResizeTypes ==
    ASSUME NEW str \in Seq(Byte), NEW n \in Nat
    PROVE  /\ Resize(str, n) \in Seq(Byte) /\ Len(Resize(str, n)) = n
           /\ Len(str) = n => Resize(str, n) = str
<1>0. 0 \in Byte BY DEF Byte
<1>1. \A i \in 1 .. n : (IF i <= Len(str) THEN str[i] ELSE 0) \in Byte BY <1>0
<1>2. Resize(str, n) \in Seq(Byte) /\ Len(Resize(str, n)) = n BY <1>1 DEF Resize
<1>3. ASSUME Len(str) = n PROVE Resize(str, n) = str
  <2>1. Resize(str, n) = [i \in 1 .. n |-> str[i]] BY <1>3 DEF Resize
  <2> QED BY <1>3, <2>1
<1> QED BY <1>2, <1>3

\* istream::read leaves a string of bytes of the same length: where the file goes on, what
\* it has.
LEMMA ReadTypes ==
    ASSUME dbFile \in Seq(Byte), NEW buf \in Seq(Byte), NEW p \in Nat
    PROVE  /\ ReadInto(buf, p) \in Seq(Byte) /\ Len(ReadInto(buf, p)) = Len(buf)
           /\ \A i \in 1 .. Len(buf) :
                ReadInto(buf, p)[i] = IF p + i <= Len(dbFile) THEN dbFile[p + i] ELSE buf[i]
<1>1. \A i \in 1 .. Len(buf) : (IF p + i <= Len(dbFile) THEN dbFile[p + i] ELSE buf[i]) \in Byte OBVIOUS
<1>2. Len(buf) \in Nat /\ DOMAIN buf = 1 .. Len(buf) OBVIOUS
<1> QED BY <1>1, <1>2 DEF ReadInto

\* Two strings of bytes are equal if their bytes are.
LEMMA SameBytes ==
    ASSUME NEW a \in Seq(Byte), NEW b \in Seq(Byte), Len(a) = Len(b),
           \A i \in 1 .. Len(a) : a[i] = b[i]
    PROVE  a = b
<1>1. a = [i \in 1 .. Len(a) |-> a[i]] /\ b = [i \in 1 .. Len(b) |-> b[i]] OBVIOUS
<1> QED BY <1>1

\* What is in the file as a whole is read as it is, whatever was in the buffer.
LEMMA ReadWhole ==
    ASSUME dbFile \in Seq(Byte), NEW buf \in Seq(Byte), NEW p \in Nat, NEW str \in Seq(Byte),
           Len(buf) = Len(str), Holds(dbFile, p, str), p + Len(str) <= Len(dbFile)
    PROVE  ReadInto(buf, p) = str
<1>1. /\ ReadInto(buf, p) \in Seq(Byte) /\ Len(ReadInto(buf, p)) = Len(str)
      /\ \A i \in 1 .. Len(str) :
            ReadInto(buf, p)[i] = IF p + i <= Len(dbFile) THEN dbFile[p + i] ELSE buf[i]
  BY ReadTypes
<1>2. Len(str) \in Nat /\ Len(dbFile) \in Nat OBVIOUS
<1>3. \A i \in 1 .. Len(str) : p + i <= Len(dbFile) BY <1>2
<1>4. \A i \in 1 .. Len(str) : ReadInto(buf, p)[i] = str[i] BY <1>1, <1>3 DEF Holds
<1> QED BY <1>1, <1>4, SameBytes

\* A length that is read over m is itself as soon as one of its bytes is in the file.
LEMMA ReadSize ==
    ASSUME dbFile \in Seq(Byte), NEW m \in 0 .. 255, NEW n \in 0 .. 255, NEW p \in Nat,
           p < Len(dbFile) => Holds(dbFile, p, IntBytes(n))
    PROVE  IntOf(ReadInto(IntBytes(m), p)) = IF p < Len(dbFile) THEN n ELSE m
<1> DEFINE buf == <<m, 0, 0, 0>>
           str == <<n, 0, 0, 0>>
           got == ReadInto(buf, p)
<1>1. IntBytes(m) = buf /\ IntBytes(n) = str BY ShortInt
<1>2. buf \in Seq(Byte) /\ Len(buf) = 4 BY DEF Byte
<1>3. Len(dbFile) \in Nat OBVIOUS
<1>4. got \in Seq(Byte) /\ Len(got) = 4 /\
      \A i \in 1 .. 4 : got[i] = IF p + i <= Len(dbFile) THEN dbFile[p + i] ELSE buf[i]
  BY <1>2, ReadTypes
<1>5. p < Len(dbFile) => \A i \in 1 .. 4 : p + i <= Len(dbFile) => dbFile[p + i] = str[i]
  BY <1>1 DEF Holds
<1>6. buf[1] = m /\ buf[2] = 0 /\ buf[3] = 0 /\ buf[4] = 0 OBVIOUS
<1>7. str[1] = n /\ str[2] = 0 /\ str[3] = 0 /\ str[4] = 0 OBVIOUS
<1> HIDE DEF buf, str, got
<1>8. got[1] = (IF p < Len(dbFile) THEN n ELSE m) BY <1>3, <1>4, <1>5, <1>6, <1>7
<1>9. got[2] = 0 /\ got[3] = 0 /\ got[4] = 0
  <2>1. ASSUME NEW i \in 2 .. 4 PROVE got[i] = 0
    <3>1. buf[i] = 0 /\ str[i] = 0 BY <1>6, <1>7
    <3>2. CASE p + i <= Len(dbFile)
      <4>1. p < Len(dbFile) /\ i \in 1 .. 4 BY <1>3, <3>2
      <4> QED BY <1>4, <1>5, <3>1, <3>2, <4>1
    <3>3. CASE ~ (p + i <= Len(dbFile))
      <4>1. i \in 1 .. 4 OBVIOUS
      <4> QED BY <1>4, <3>1, <3>3, <4>1
    <3> QED BY <3>2, <3>3
  <2> QED BY <2>1
<1>10. IntOf(got) = got[1] BY <1>8, <1>9 DEF IntOf
<1> QED BY <1>1, <1>8, <1>10 DEF got

-----------------------------------------------------------------------------
(* OpenDB.                                                                 *)

\* What a round of the loop puts into key, itemSize and value, and where it ends.
NextKey == ReadInto(Resize(reader.key, ItemSize), reader.pos + INT_SIZE)
NextSize == IntOf(ReadInto(IntBytes(ItemSize), reader.pos + INT_SIZE + ItemSize))
NextValue == ReadInto(Resize(reader.value, NextSize), reader.pos + INT_SIZE + ItemSize + INT_SIZE)
NextEnd == reader.pos + INT_SIZE + ItemSize + INT_SIZE + NextSize

\* Every record has a fingerprint, a text and an end.
LEMMA Records ==
    ASSUME FileInv
    PROVE  \A i \in 1 .. Len(written) :
              written[i].key \in Id /\ written[i].value \in Text /\ written[i].end \in Nat
<1> DEFINE R == [key : Id, value : Text, end : Nat]
<1>1. written \in Seq(R) BY DEF FileInv
<1> HIDE DEF R
<1>2. \A i \in 1 .. Len(written) : written[i] \in R BY <1>1
<1> QED BY <1>2 DEF R

\* The records have types, and each begins where the one before it ends.
LEMMA RecordTypes ==
    ASSUME FileInv, NEW n \in 0 .. Len(written)
    PROVE  /\ Ends(n) \in Nat /\ Len(dbFile) \in Nat /\ Len(written) \in Nat
           /\ n > 0 => written[n].key \in Id /\ written[n].value \in Text
           /\ n < Len(written) =>
                /\ n + 1 \in 1 .. Len(written)
                /\ written[n + 1].key \in Id /\ written[n + 1].value \in Text
                /\ written[n + 1].end = Ends(n) + 8 + CHUNK_HASH_SIZE + Len(written[n + 1].value)
                /\ RecordAt(dbFile, Ends(n), written[n + 1])
<1>1. Len(dbFile) \in Nat /\ Len(written) \in Nat BY DEF FileInv
<1>2. \A i \in 1 .. Len(written) :
        written[i].key \in Id /\ written[i].value \in Text /\ written[i].end \in Nat
  BY Records
<1>3. Ends(n) \in Nat /\ (n > 0 => written[n].key \in Id /\ written[n].value \in Text)
  BY <1>1, <1>2 DEF Ends
<1>4. ASSUME n < Len(written)
      PROVE  /\ n + 1 \in 1 .. Len(written)
             /\ written[n + 1].key \in Id /\ written[n + 1].value \in Text
             /\ written[n + 1].end = Ends(n) + 8 + CHUNK_HASH_SIZE + Len(written[n + 1].value)
             /\ RecordAt(dbFile, Ends(n), written[n + 1])
  <2>1. n + 1 \in 1 .. Len(written) /\ (n + 1) - 1 = n BY <1>1, <1>4
  <2>2. /\ written[n + 1].end = Ends((n + 1) - 1) + 8 + CHUNK_HASH_SIZE + Len(written[n + 1].value)
        /\ RecordAt(dbFile, Ends((n + 1) - 1), written[n + 1])
    BY <2>1 DEF FileInv
  <2> QED BY <1>2, <2>1, <2>2
<1> QED BY <1>1, <1>3, <1>4

\* The length that OpenDB reads at the start of a record is there or 0.
LEMMA NextItemSize ==
    ASSUME FileInv, NEW n \in 0 .. Len(written), AtRecord(n)
    PROVE  /\ ItemSize = IF Ends(n) < Len(dbFile) THEN CHUNK_HASH_SIZE ELSE 0
           /\ Ends(n) < Len(dbFile) => n < Len(written)
<1> USE RecordTypes
<1>1. Ends(n) < Len(dbFile) => n < Len(written)
  <2>1. n = Len(written) => Len(dbFile) <= Ends(n) BY DEF FileInv
  <2> QED BY <2>1
<1>2. Ends(n) < Len(dbFile) => Holds(dbFile, Ends(n), IntBytes(CHUNK_HASH_SIZE)) BY <1>1 DEF RecordAt
<1>3. CHUNK_HASH_SIZE \in 0 .. 255 /\ dbFile \in Seq(Byte) /\ 0 \in 0 .. 255 BY HashSize DEF FileInv
<1>4. Ends(n) \in Nat OBVIOUS
<1>5. IntOf(ReadInto(IntBytes(0), Ends(n))) = IF Ends(n) < Len(dbFile) THEN CHUNK_HASH_SIZE ELSE 0
  BY <1>2, <1>3, <1>4, ReadSize
<1> QED BY <1>1, <1>5 DEF ItemSize, AtRecord

\* A round of OpenDB at a record that is in the file, whole or in part: a key and a value of
\* the right lengths, and those of the record if it is whole.
LEMMA NextRecord ==
    ASSUME FileInv, NEW n \in 0 .. Len(written), AtRecord(n), Ends(n) < Len(dbFile)
    PROVE  /\ ItemSize = CHUNK_HASH_SIZE /\ NextKey \in Id /\ NextValue \in Text /\ NextEnd \in Nat
           /\ written[n + 1].end <= Len(dbFile) =>
                NextKey = written[n + 1].key /\ NextValue = written[n + 1].value
                /\ NextEnd = written[n + 1].end
           /\ Len(dbFile) < written[n + 1].end => Len(dbFile) < NextEnd
<1> DEFINE H == CHUNK_HASH_SIZE
           p == Ends(n)
           w == written[n + 1]
           F == Len(dbFile)
           V == Len(w.value)
<1>1. H \in 1 .. 255 /\ F \in Nat /\ p \in Nat /\ p < F BY HashSize, RecordTypes
<1>2. ItemSize = H /\ n < Len(written) /\ reader.pos = p BY NextItemSize DEF AtRecord
<1>3. /\ w.key \in Seq(Byte) /\ Len(w.key) = H /\ w.value \in Seq(Byte) /\ V \in Nat /\ V < 256
      /\ w.end = p + 8 + H + V
  BY <1>2, RecordTypes DEF Id, Text
<1>4. /\ Holds(dbFile, p + 4, w.key) /\ Holds(dbFile, p + 4 + H, IntBytes(V)) /\ Holds(dbFile, p + 8 + H, w.value)
  BY <1>2, RecordTypes DEF RecordAt
<1>5. reader.key \in Seq(Byte) /\ reader.value \in Seq(Byte)
  BY RecordTypes DEF AtRecord, Id, Text
<1>6. dbFile \in Seq(Byte) BY DEF FileInv
<1> HIDE DEF H, p, w, F, V
<1>7. NextSize = (IF p + 4 + H < F THEN V ELSE H)
  <2>1. p + 4 + H \in Nat /\ V \in 0 .. 255 /\ H \in 0 .. 255 BY <1>1, <1>3
  <2>2. IntOf(ReadInto(IntBytes(H), p + 4 + H)) = IF p + 4 + H < Len(dbFile) THEN V ELSE H
    BY <1>4, <1>6, <2>1, ReadSize, ZenonT(60)
  <2> QED BY <1>2, <2>2 DEF NextSize, INT_SIZE, F
<1>8. NextSize \in Nat /\ NextSize < 256 BY <1>1, <1>3, <1>7
<1>9. Resize(reader.key, H) \in Seq(Byte) /\ Len(Resize(reader.key, H)) = H
  <2>1. H \in Nat BY <1>1
  <2> QED BY <1>5, <2>1, ResizeTypes
<1>10. Resize(reader.value, NextSize) \in Seq(Byte) /\ Len(Resize(reader.value, NextSize)) = NextSize
  BY <1>5, <1>8, ResizeTypes
<1>11. NextKey = ReadInto(Resize(reader.key, H), p + 4) BY <1>2 DEF NextKey, INT_SIZE
<1>12. NextValue = ReadInto(Resize(reader.value, NextSize), p + 8 + H)
  <2>1. p + 4 + H + 4 = p + 8 + H BY <1>1
  <2> QED BY <1>2, <2>1 DEF NextValue, INT_SIZE
<1>13. NextEnd = p + 8 + H + NextSize BY <1>1, <1>2, <1>8 DEF NextEnd, INT_SIZE
<1>14. p + 4 \in Nat /\ p + 8 + H \in Nat BY <1>1
<1>15. NextKey \in Seq(Byte) /\ Len(NextKey) = H BY <1>6, <1>9, <1>11, <1>14, ReadTypes
<1>16. NextValue \in Seq(Byte) /\ Len(NextValue) = NextSize BY <1>6, <1>10, <1>12, <1>14, ReadTypes
<1>17. ASSUME w.end <= F PROVE NextKey = w.key /\ NextValue = w.value /\ NextEnd = w.end
  <2>1. NextSize = V /\ p + 4 + H <= F /\ p + 8 + H + V <= F BY <1>1, <1>3, <1>7, <1>17
  <2>2. NextKey = w.key BY <1>3, <1>4, <1>6, <1>9, <1>11, <1>14, <2>1, ReadWhole DEF F
  <2>3. NextValue = w.value BY <1>3, <1>4, <1>6, <1>10, <1>12, <1>14, <2>1, ReadWhole DEF F, V
  <2> QED BY <1>3, <1>13, <2>1, <2>2, <2>3
<1>18. ASSUME F < w.end PROVE F < NextEnd BY <1>1, <1>3, <1>7, <1>13, <1>18
<1>19. NextKey \in Id /\ NextValue \in Text BY <1>8, <1>15, <1>16 DEF Id, Text, H
<1>20. NextEnd \in Nat BY <1>1, <1>8, <1>13
<1> QED BY <1>2, <1>17, <1>18, <1>19, <1>20 DEF H, w, F

\* No fingerprint is all zeros.
LEMMA ZerosNoKey == Zeros \notin Key
<1> SUFFICES ASSUME NEW x \in Chunk, Hash[x] = Zeros PROVE FALSE BY DEF Key
<1>1. PICK i \in DOMAIN Hash[x] : Hash[x][i] # 0 BY HashAssumption DEF Chunk
<1> QED BY <1>1 DEF Zeros

\* A key that was made up from a record that was cut, between records of chunks, is that of
\* the record or of the one before it, or of no chunk.
LEMMA MadeUpKey ==
    ASSUME FileInv, NEW n \in 0 .. Len(written), AtRecord(n), Ends(n) < Len(dbFile),
           {written[i].key : i \in {n, n + 1} \intersect DOMAIN written} \subseteq Key,
           NextKey \in Key
    PROVE  NextKey = written[n + 1].key \/ (n > 0 /\ NextKey = written[n].key)
<1> DEFINE H == CHUNK_HASH_SIZE
           p == Ends(n)
           k == written[n + 1].key
           F == Len(dbFile)
           old == Resize(reader.key, H)
           m == F - (p + 4)
<1>1. H \in 1 .. 255 /\ H \in Nat /\ F \in Nat /\ p \in Nat /\ p < F BY HashSize, RecordTypes
<1>2. ItemSize = H /\ n < Len(written) /\ reader.pos = p BY NextItemSize DEF AtRecord
<1>3. k \in Seq(Byte) /\ Len(k) = H /\ Holds(dbFile, p + 4, k) BY <1>2, RecordTypes DEF Id, RecordAt
<1>4. dbFile \in Seq(Byte) /\ reader.key \in Seq(Byte) BY RecordTypes DEF FileInv, AtRecord, Id
<1>5. old \in Seq(Byte) /\ Len(old) = H /\ (Len(reader.key) = H => old = reader.key)
  BY <1>1, <1>4, ResizeTypes
<1>6. NextKey = ReadInto(old, p + 4) BY <1>2 DEF NextKey, INT_SIZE
<1>7. k \in Key
  <2>1. DOMAIN written = 1 .. Len(written) BY DEF FileInv
  <2>2. n + 1 \in DOMAIN written BY <1>2, <2>1, RecordTypes
  <2> QED BY <2>2
<1>8. IF n = 0 THEN old = Zeros ELSE old = written[n].key /\ old \in Key
  <2>1. CASE n = 0
    <3>1. reader.key = << >> BY <2>1 DEF AtRecord
    <3>2. old = [i \in 1 .. H |-> 0] BY <1>1, <3>1 DEF Resize
    <3> QED BY <2>1, <3>2 DEF Zeros
  <2>2. CASE n # 0
    <3>1. n \in DOMAIN written /\ n > 0
      <4>1. DOMAIN written = 1 .. Len(written) BY DEF FileInv
      <4> QED BY <2>2, <4>1
    <3>2. reader.key = written[n].key /\ written[n].key \in Key BY <2>2, <3>1 DEF AtRecord
    <3>3. Len(reader.key) = H BY <3>1, <3>2, RecordTypes DEF Id
    <3> QED BY <1>5, <2>2, <3>2, <3>3
  <2> QED BY <2>1, <2>2
<1> HIDE DEF H, p, k, F, old, m
<1>9. p + 4 \in Nat BY <1>1
<1>10. /\ NextKey \in Seq(Byte) /\ Len(NextKey) = H
       /\ \A i \in 1 .. H : NextKey[i] = IF p + 4 + i <= F THEN dbFile[p + 4 + i] ELSE old[i]
  BY <1>4, <1>5, <1>6, <1>9, ReadTypes DEF F
<1>11. \A i \in 1 .. H : NextKey[i] = IF i <= m THEN k[i] ELSE old[i]
  <2> TAKE i \in 1 .. H
  <2>1. p + 4 + i <= F <=> i <= m BY <1>1 DEF m
  <2>2. p + 4 + i <= F => dbFile[p + 4 + i] = k[i] BY <1>3 DEF Holds, F
  <2> QED BY <1>10, <2>1, <2>2
<1>12. m \in Int BY <1>1 DEF m
<1>13. CASE m <= 0
  <2>1. \A i \in 1 .. H : NextKey[i] = old[i] BY <1>1, <1>11, <1>12, <1>13
  <2>2. NextKey = old BY <1>5, <1>10, <2>1, SameBytes
  <2>3. n # 0 BY <1>8, <2>2, ZerosNoKey
  <2> QED BY <1>8, <2>2, <2>3
<1>14. CASE m >= H
  <2>1. \A i \in 1 .. H : NextKey[i] = k[i] BY <1>1, <1>11, <1>12, <1>14
  <2>2. NextKey = k BY <1>3, <1>10, <2>1, SameBytes
  <2> QED BY <2>2 DEF k
<1>15. CASE m > 0 /\ m < H
  <2> DEFINE blend == [i \in 1 .. CHUNK_HASH_SIZE |-> IF i <= m THEN k[i] ELSE old[i]]
  <2>1. NextKey = [i \in 1 .. H |-> NextKey[i]] BY <1>10
  <2>2. NextKey = blend BY <1>11, <2>1 DEF H
  <2>3. m \in 1 .. CHUNK_HASH_SIZE - 1 BY <1>1, <1>12, <1>15 DEF H
  <2>4. old \in Key \union {Zeros} BY <1>8
  <2>5. blend \in Key => blend \in {k, old} BY <1>7, <2>3, <2>4, StoreAssumption, Zenon
  <2> HIDE DEF blend
  <2>6. NextKey = k \/ NextKey = old BY <2>2, <2>5
  <2>7. NextKey = old => n # 0 BY <1>8, ZerosNoKey
  <2> QED BY <1>8, <2>6, <2>7 DEF k
<1> QED BY <1>1, <1>12, <1>13, <1>14, <1>15

\* A step that touches neither the file nor the history keeps them in step.
LEMMA SameFile == ASSUME FileInv, UNCHANGED <<dbFile, written>> PROVE FileInv'
<1>1. \A i : Ends(i)' = Ends(i) BY DEF Ends
<1> QED BY <1>1 DEF FileInv

\* A file that was wholly written stays so.
LEMMA SameWhole ==
    ASSUME WholeInv, phase # "records", phase' # "records", UNCHANGED <<backend, dbFile, written, durable>>
    PROVE  WholeInv'
<1>1. \A i : Ends(i)' = Ends(i) BY DEF Ends
<1>2. \A n : Saved(n)' = Saved(n) BY DEF Saved
<1>3. \A n : Agrees(durable, n)' = Agrees(durable, n) BY DEF Agrees
<1> QED BY <1>1, <1>2, <1>3 DEF WholeInv

\* Steps between the end of loading and the start of saving that leave the database alone.
LEMMA QuietDatabase ==
    ASSUME DatabaseInv, UNCHANGED <<backend, storeVars>>, phase \in {"up", "savestat", "stat"},
           phase' \in {"up", "savestat", "stat", "savedb"}
    PROVE  DatabaseInv'
<1> USE DEF storeVars
<1>1. EntryInv' BY DEF DatabaseInv, EntryInv
<1>2. FileInv' BY SameFile DEF DatabaseInv
<1>3. WholeInv' BY SameWhole DEF DatabaseInv
<1>4. LoadInv' BY DEF LoadInv
<1>5. KeptInv' BY DEF DatabaseInv, KeptInv
<1> QED BY <1>1, <1>2, <1>3, <1>4, <1>5 DEF DatabaseInv

\* OpenDB starts at the first record with no entries.
LEMMA OpenStep == ASSUME Types, DatabaseInv, OpenDB PROVE DatabaseInv'
<1>1. /\ UNCHANGED <<backend, indexObj, dbFile, unsaved, written, durable>> /\ phase = "down"
      /\ phase' = (IF backend = "IN_MEMORY" THEN "load" ELSE "loadstat")
      /\ reader' = [pos |-> 0, key |-> << >>, value |-> << >>]
  BY DEF OpenDB, NewReader
<1>2. reader'.pos = 0 /\ reader'.key = << >> /\ reader'.value = << >> BY <1>1
<1>3. EntryInv'
  <2>1. reader'.pos \in Nat /\ reader'.key \in Seq(Byte) /\ reader'.value \in Seq(Byte) BY <1>2
  <2>2. backend' = "LEVEL_DB" => phase' \notin {"load", "records"} BY <1>1
  <2>3. phase' # "down" BY <1>1
  <2> QED BY <1>1, <2>1, <2>2, <2>3 DEF DatabaseInv, EntryInv
<1>4. FileInv' BY <1>1, SameFile DEF DatabaseInv
<1>5. WholeInv'
  <2>1. phase # "records" /\ phase' # "records" BY <1>1
  <2> QED BY <1>1, <2>1, SameWhole DEF DatabaseInv
<1>6. LoadInv'
  <2>1. ASSUME backend = "IN_MEMORY" PROVE AtRecord(0)'
    <3>1. DOMAIN indexObj' = {} BY <1>1, <2>1 DEF DatabaseInv, EntryInv
    <3>2. Saved(0)' = {} BY DEF Saved
    <3>3. Agrees(indexObj, 0)' BY DEF Agrees
    <3>4. Ends(0)' = 0 /\ 0 <= Len(dbFile)' BY <1>4 DEF Ends, FileInv
    <3> QED BY <1>2, <3>1, <3>2, <3>3, <3>4 DEF AtRecord
  <2>2. 0 \in 0 .. Len(written)' BY <1>4 DEF FileInv
  <2>3. backend = "IN_MEMORY" => phase' = "load" BY <1>1
  <2> QED BY <1>1, <2>1, <2>2, <2>3 DEF LoadInv
<1>7. KeptInv'
  <2>1. backend \in {"IN_MEMORY", "LEVEL_DB"} BY DEF Types, CreateDatabase
  <2>2. CASE backend = "IN_MEMORY" BY <1>1, <2>2 DEF KeptInv
  <2>3. CASE backend = "LEVEL_DB" BY <1>1, <2>3 DEF KeptInv, DatabaseInv
  <2> QED BY <2>1, <2>2, <2>3
<1> QED BY <1>3, <1>4, <1>5, <1>6, <1>7 DEF DatabaseInv

\* Once all complete records are loaded from a whole file, what was durable is there.
LEMMA DurableLoaded ==
    ASSUME FileInv, WholeInv, backend = "IN_MEMORY", phase # "records", NEW n \in 0 .. Len(written), AllLoaded(n),
           NEW k \in DOMAIN durable
    PROVE  k \in DOMAIN indexObj /\ indexObj[k] = durable[k]
<1>1. /\ Len(dbFile) = Ends(Len(written))
      /\ Saved(Len(written)) = DOMAIN durable /\ Agrees(durable, Len(written))
  BY DEF WholeInv
<1>2. Len(written) \in Nat /\ Ends(Len(written)) \in Nat BY RecordTypes DEF FileInv
<1>3. n = Len(written)
  <2> SUFFICES ASSUME n < Len(written) PROVE FALSE BY <1>2
  <2>1. n + 1 \in 1 .. Len(written) /\ Len(dbFile) < written[n + 1].end BY <1>2 DEF AllLoaded
  <2>2. written[n + 1].end <= written[Len(written)].end
    <3>1. written[n + 1].end \in Nat /\ Len(written) \in 1 .. Len(written) BY <1>2, <2>1, Records
    <3>2. n + 1 < Len(written) => written[n + 1].end < written[Len(written)].end
      BY <2>1, <3>1 DEF FileInv
    <3>3. n + 1 = Len(written) \/ n + 1 < Len(written) BY <1>2, <2>1
    <3>4. Ends(Len(written)) = written[Len(written)].end BY <1>2, <2>1 DEF Ends
    <3> QED BY <1>2, <3>1, <3>2, <3>3, <3>4
  <2>3. Ends(Len(written)) = written[Len(written)].end BY <1>2, <2>1 DEF Ends
  <2>4. written[n + 1].end \in Nat BY <2>1, Records
  <2> QED BY <1>1, <1>2, <2>1, <2>2, <2>3, <2>4
<1>4. PICK i \in 1 .. Len(written) : k = written[i].key BY <1>1 DEF Saved
<1> QED BY <1>1, <1>3, <1>4 DEF AllLoaded, Agrees, Saved

\* A round of OpenDB: a whole record is loaded, or one that was cut ends the loop.
LEMMA LoadStep == ASSUME Types, DatabaseInv, LoadRecord PROVE DatabaseInv'
<1>0. FileInv /\ EntryInv /\ WholeInv BY DEF DatabaseInv
<1>1. backend = "IN_MEMORY" /\ phase = "load" BY DEF LoadRecord, Types, CreateDatabase, DatabaseInv, EntryInv
<1>2. PICK n \in 0 .. Len(written) : AtRecord(n) BY <1>1 DEF DatabaseInv, LoadInv
<1>3. /\ indexObj' = Emplace(indexObj, NextKey, NextValue)
      /\ reader' = [pos |-> NextEnd, key |-> NextKey, value |-> NextValue]
      /\ phase' = (IF NextEnd > Len(dbFile) THEN "loadstat" ELSE "load")
      /\ ItemSize # 0 /\ UNCHANGED <<backend, dbFile, unsaved, written, durable>>
  BY DEF LoadRecord, NextKey, NextSize, NextValue, NextEnd
<1>4. Ends(n) < Len(dbFile) /\ n < Len(written) BY <1>0, <1>2, <1>3, NextItemSize
<1>5. /\ NextKey \in Id /\ NextValue \in Text /\ NextEnd \in Nat
      /\ written[n + 1].end <= Len(dbFile) =>
            NextKey = written[n + 1].key /\ NextValue = written[n + 1].value /\ NextEnd = written[n + 1].end
      /\ Len(dbFile) < written[n + 1].end => Len(dbFile) < NextEnd
  BY <1>0, <1>2, <1>4, NextRecord
<1>6. /\ n + 1 \in 1 .. Len(written) /\ Len(written) \in Nat /\ Len(dbFile) \in Nat /\ Ends(n) \in Nat
      /\ written[n + 1].end \in Nat
  BY <1>0, <1>4, RecordTypes, Records
<1>7. /\ DOMAIN indexObj' = DOMAIN indexObj \union {NextKey}
      /\ \A x \in DOMAIN indexObj : indexObj'[x] = indexObj[x]
      /\ NextKey \notin DOMAIN indexObj => indexObj'[NextKey] = NextValue
  <2>1. indexObj' = Emplace(indexObj, NextKey, NextValue) BY <1>3
  <2> QED BY <2>1 DEF Emplace
<1>8. reader'.pos = NextEnd /\ reader'.key = NextKey /\ reader'.value = NextValue BY <1>3
<1>9. EntryInv'
  <2>1. \A k \in DOMAIN indexObj' : k \in Id /\ indexObj'[k] \in Text
    BY <1>0, <1>5, <1>7 DEF EntryInv
  <2>2. phase' # "down" /\ backend' # "LEVEL_DB" BY <1>1, <1>3
  <2>3. reader'.pos \in Nat /\ reader'.key \in Seq(Byte) /\ reader'.value \in Seq(Byte)
    BY <1>5, <1>8 DEF Id, Text
  <2>4. unsaved' \subseteq DOMAIN indexObj' BY <1>0, <1>3, <1>7 DEF EntryInv
  <2> QED BY <2>1, <2>2, <2>3, <2>4 DEF EntryInv
<1>10. FileInv' BY <1>0, <1>3, SameFile
<1>11. WholeInv'
  <2>1. phase # "records" /\ phase' # "records" BY <1>1, <1>3
  <2> QED BY <1>0, <1>3, <2>1, SameWhole
<1>12. DOMAIN indexObj = Saved(n) /\ Agrees(indexObj, n) BY <1>2 DEF AtRecord
<1>13. /\ \A i : Ends(i)' = Ends(i)
       /\ \A i : Saved(i)' = Saved(i)
  BY <1>3 DEF Ends, Saved
<1>14. Saved(n) \subseteq DOMAIN indexObj' /\ Agrees(indexObj, n)'
  <2>1. \A i \in 1 .. n : written[i].key \in DOMAIN indexObj BY <1>12 DEF Saved
  <2> QED BY <1>3, <1>7, <1>12, <2>1 DEF Agrees
<1>15. CASE written[n + 1].end <= Len(dbFile)
  <2>1. NextKey = written[n + 1].key /\ NextValue = written[n + 1].value /\ NextEnd = written[n + 1].end
    BY <1>5, <1>15
  <2>2. phase' = "load" BY <1>3, <1>5, <1>6, <1>15, <2>1
  <2>3. NextKey \notin DOMAIN indexObj
    <3>1. \A i \in 1 .. n : i \in 1 .. Len(written) /\ i < n + 1 BY <1>6
    <3>2. \A i \in 1 .. n : written[i].key # written[n + 1].key BY <1>0, <1>6, <3>1 DEF FileInv
    <3> QED BY <1>12, <2>1, <3>2 DEF Saved
  <2>4. DOMAIN indexObj' = Saved(n + 1)
    <3>1. 1 .. (n + 1) = (1 .. n) \union {n + 1} BY <1>6
    <3> QED BY <1>7, <1>12, <2>1, <3>1 DEF Saved
  <2>5. Agrees(indexObj, n + 1)'
    <3>1. \A i \in 1 .. (n + 1) : i \in 1 .. n \/ i = n + 1 BY <1>6
    <3> QED BY <1>3, <1>7, <1>14, <2>1, <2>3, <3>1 DEF Agrees
  <2>6. Ends(n + 1) = written[n + 1].end /\ n + 1 # 0 BY <1>6 DEF Ends
  <2>7. AtRecord(n + 1)'
    BY <1>3, <1>8, <1>13, <1>15, <2>1, <2>4, <2>5, <2>6 DEF AtRecord
  <2>8. n + 1 \in 0 .. Len(written') BY <1>3, <1>6
  <2>9. LoadInv' BY <2>2, <2>7, <2>8 DEF LoadInv
  <2>10. KeptInv' BY <1>1, <1>3, <2>2 DEF KeptInv
  <2> QED BY <1>9, <1>10, <1>11, <2>9, <2>10 DEF DatabaseInv
<1>16. CASE Len(dbFile) < written[n + 1].end
  <2>1. phase' = "loadstat" BY <1>3, <1>5, <1>16
  <2>2. DOMAIN indexObj' \ Saved(n) \subseteq {NextKey} BY <1>7, <1>12
  <2>3. ASSUME {written[i].key : i \in {n, n + 1} \intersect DOMAIN written} \subseteq Key,
               NextKey \in Key, NextKey \notin Saved(n)
        PROVE  NextKey = written[n + 1].key
    <3>1. NextKey = written[n + 1].key \/ (n > 0 /\ NextKey = written[n].key)
      BY <1>0, <1>2, <1>4, <2>3, MadeUpKey
    <3>2. n > 0 => written[n].key \in Saved(n)
      <4>1. n > 0 => n \in 1 .. n OBVIOUS
      <4> QED BY <4>1 DEF Saved
    <3> QED BY <2>3, <3>1, <3>2
  <2>4. Len(dbFile) # Ends(n) /\ Ends(n) <= Len(dbFile) BY <1>4, <1>6
  <2>5. AllLoaded(n)'
    BY <1>3, <1>13, <1>14, <1>16, <2>2, <2>3, <2>4 DEF AllLoaded
  <2>6. LoadInv' BY <1>3, <2>1, <2>5 DEF LoadInv
  <2>7. KeptInv'
    <3>1. ASSUME NEW k \in DOMAIN durable PROVE k \in DOMAIN indexObj' /\ indexObj'[k] = durable[k]
      <4>1. Len(dbFile) = Ends(Len(written)) BY <1>0, <1>1 DEF WholeInv
      <4>2. written[n + 1].end <= Ends(Len(written))
        <5>1. Ends(Len(written)) = written[Len(written)].end /\ Len(written) \in 1 .. Len(written)
          BY <1>6 DEF Ends
        <5>2. n + 1 < Len(written) => written[n + 1].end < written[Len(written)].end
          BY <1>0, <1>6, <5>1 DEF FileInv
        <5>3. n + 1 = Len(written) \/ n + 1 < Len(written) BY <1>6
        <5>4. written[Len(written)].end \in Nat BY <1>0, <5>1, Records
        <5> QED BY <1>6, <5>1, <5>2, <5>3, <5>4
      <4>3. Ends(Len(written)) \in Nat BY <1>6, <4>1
      <4> QED BY <1>6, <1>16, <4>1, <4>2, <4>3
    <3> QED BY <1>3, <3>1 DEF KeptInv
  <2> QED BY <1>9, <1>10, <1>11, <2>6, <2>7 DEF DatabaseInv
<1> QED BY <1>6, <1>15, <1>16

\* The loop ends where the file ends, at the start of a record.
LEMMA LoadEndStep == ASSUME Types, DatabaseInv, LoadEnd PROVE DatabaseInv'
<1>0. FileInv /\ EntryInv /\ WholeInv BY DEF DatabaseInv
<1>1. backend = "IN_MEMORY" /\ phase = "load" BY DEF LoadEnd, Types, CreateDatabase, DatabaseInv, EntryInv
<1>2. PICK n \in 0 .. Len(written) : AtRecord(n) BY <1>1 DEF DatabaseInv, LoadInv
<1>3. phase' = "loadstat" /\ ItemSize = 0 /\ UNCHANGED <<backend, storeVars>> BY DEF LoadEnd
<1>4. Len(dbFile) = Ends(n)
  <2>1. CHUNK_HASH_SIZE # 0 BY HashSize
  <2>2. ~ (Ends(n) < Len(dbFile)) BY <1>0, <1>2, <1>3, <2>1, NextItemSize
  <2>3. Ends(n) <= Len(dbFile) /\ Ends(n) \in Nat /\ Len(dbFile) \in Nat BY <1>0, <1>2, RecordTypes DEF AtRecord
  <2> QED BY <2>2, <2>3
<1>5. AllLoaded(n)
  <2>1. DOMAIN indexObj = Saved(n) /\ Agrees(indexObj, n) BY <1>2 DEF AtRecord
  <2>2. n < Len(written) => Len(dbFile) < written[n + 1].end
    <3> HAVE n < Len(written)
    <3>1. /\ written[n + 1].end = Ends(n) + 8 + CHUNK_HASH_SIZE + Len(written[n + 1].value)
          /\ written[n + 1].value \in Text /\ Ends(n) \in Nat
      BY <1>0, RecordTypes
    <3>2. Len(written[n + 1].value) \in Nat /\ CHUNK_HASH_SIZE \in Nat BY <3>1, HashSize DEF Text
    <3> QED BY <1>4, <3>1, <3>2
  <2>3. Ends(n) <= Len(dbFile) BY <1>2 DEF AtRecord
  <2> QED BY <1>4, <2>1, <2>2, <2>3 DEF AllLoaded
<1>6. AllLoaded(n)' BY <1>3, <1>5 DEF AllLoaded, Ends, Saved, Agrees, storeVars
<1>7. EntryInv' BY <1>0, <1>1, <1>3 DEF EntryInv, storeVars
<1>8. FileInv' BY <1>0, <1>3, SameFile DEF storeVars
<1>9. WholeInv'
  <2>1. phase # "records" /\ phase' # "records" BY <1>1, <1>3
  <2> QED BY <1>0, <1>3, <2>1, SameWhole DEF storeVars
<1>10. LoadInv' BY <1>2, <1>3, <1>6 DEF LoadInv, storeVars
<1>11. KeptInv'
  <2>1. phase # "records" BY <1>1
  <2>2. \A k \in DOMAIN durable : k \in DOMAIN indexObj /\ indexObj[k] = durable[k]
    BY <1>0, <1>1, <1>2, <1>5, <2>1, DurableLoaded
  <2> QED BY <1>3, <2>2 DEF KeptInv, storeVars
<1> QED BY <1>7, <1>8, <1>9, <1>10, <1>11 DEF DatabaseInv

-----------------------------------------------------------------------------
(* The process is up.                                                      *)

\* The constructor of AbsIndex leaves the database alone.
LEMMA LoadStatStep == ASSUME Types, DatabaseInv, LoadStat PROVE DatabaseInv'
<1>1. /\ phase = "loadstat" /\ phase' = "up" /\ reader' = [pos |-> 0, key |-> << >>, value |-> << >>]
      /\ UNCHANGED <<backend, indexObj, dbFile, unsaved, written, durable>>
  BY DEF LoadStat, NewReader
<1>2. EntryInv'
  <2>1. reader'.pos \in Nat /\ reader'.key \in Seq(Byte) /\ reader'.value \in Seq(Byte) BY <1>1
  <2> QED BY <1>1, <2>1 DEF DatabaseInv, EntryInv
<1>3. FileInv' BY <1>1, SameFile DEF DatabaseInv
<1>4. WholeInv' BY <1>1, SameWhole DEF DatabaseInv
<1>5. LoadInv' BY <1>1 DEF LoadInv
<1>6. KeptInv' BY <1>1 DEF DatabaseInv, KeptInv
<1> QED BY <1>2, <1>3, <1>4, <1>5, <1>6 DEF DatabaseInv

\* A chunk is stored under its fingerprint, and only if nothing is there.
LEMMA NewChunkStep ==
    ASSUME Types, HashInv, DatabaseInv, NEW s \in Session, NewChunk(s)
    PROVE  DatabaseInv'
<1>1. /\ phase = "up" /\ pc[s] = "hashed" /\ UNCHANGED <<backend, phase, dbFile, reader, unsaved, written>>
  BY DEF NewChunk, processVars
<1>2. backend \in {"IN_MEMORY", "LEVEL_DB"} BY DEF Types, CreateDatabase
<1>3. hash[s] \in Id /\ Name[s] \in Text
  <2>1. chunk[s] \in Chunk /\ hash[s] = Hash[chunk[s]] BY <1>1 DEF HashInv
  <2> QED BY <2>1, HashSize
<1>4. hash[s] \notin DOMAIN indexObj BY <1>2 DEF NewChunk, ReadIndexStore, Get, Find
<1>5. /\ indexObj' = Store(indexObj, hash[s], Name[s])
      /\ IF backend = "LEVEL_DB" THEN durable' = indexObj' ELSE durable' = durable
  BY DEF NewChunk, UpdateIndexStore, Put, Assign
<1>6. /\ DOMAIN indexObj' = DOMAIN indexObj \union {hash[s]}
      /\ \A x \in DOMAIN indexObj : x # hash[s] => indexObj'[x] = indexObj[x]
      /\ indexObj'[hash[s]] = Name[s]
  <2>1. indexObj' = Store(indexObj, hash[s], Name[s]) BY <1>5
  <2> QED BY <2>1 DEF Store
<1>7. EntryInv' BY <1>1, <1>3, <1>6 DEF DatabaseInv, EntryInv
<1>8. FileInv' BY <1>1, SameFile DEF DatabaseInv
<1>9. WholeInv'
  <2>1. CASE backend = "LEVEL_DB" BY <1>1, <2>1 DEF WholeInv
  <2>2. CASE backend = "IN_MEMORY" BY <1>1, <1>5, <2>2, SameWhole DEF DatabaseInv
  <2> QED BY <1>2, <2>1, <2>2
<1>10. LoadInv' BY <1>1 DEF LoadInv
<1>11. KeptInv'
  <2>1. CASE backend = "LEVEL_DB" BY <1>5, <2>1 DEF KeptInv
  <2>2. CASE backend = "IN_MEMORY" BY <1>1, <1>4, <1>5, <1>6, <2>2 DEF KeptInv, DatabaseInv
  <2> QED BY <1>2, <2>1, <2>2
<1> QED BY <1>7, <1>8, <1>9, <1>10, <1>11 DEF DatabaseInv

-----------------------------------------------------------------------------
(* Saving.                                                                 *)

\* An empty file has all of no records.
LEMMA TruncStep == ASSUME Types, DatabaseInv, TruncDB PROVE DatabaseInv'
<1>1. /\ phase = "savedb" /\ phase' = "records" /\ backend = "IN_MEMORY"
      /\ dbFile' = << >> /\ written' = << >> /\ unsaved' = DOMAIN indexObj
      /\ UNCHANGED <<backend, indexObj, reader, durable>>
  BY DEF TruncDB
<1>2. EntryInv' BY <1>1 DEF DatabaseInv, EntryInv
<1>3. Len(written') = 0 /\ Len(dbFile') = 0 /\ Ends(0)' = 0 BY <1>1 DEF Ends
<1>4. FileInv'
  <2>1. dbFile' \in Seq(Byte) /\ written' \in Seq([key : Id, value : Text, end : Nat]) BY <1>1
  <2>2. Len(dbFile') <= Ends(Len(written))' BY <1>3
  <2>3. 1 .. Len(written') = {} BY <1>3
  <2> QED BY <2>1, <2>2, <2>3 DEF FileInv
<1>5. WholeInv'
  <2>1. Len(dbFile') = Ends(Len(written))' BY <1>3
  <2>2. Saved(Len(written))' = {} /\ Agrees(indexObj, Len(written))' BY <1>3 DEF Saved, Agrees
  <2> QED BY <1>1, <2>1, <2>2 DEF WholeInv
<1>6. LoadInv' BY <1>1 DEF LoadInv
<1>7. KeptInv' BY <1>1 DEF KeptInv
<1> QED BY <1>2, <1>4, <1>5, <1>6, <1>7 DEF DatabaseInv

\* g is f and the four parts of a record behind it.
Appended(f, a, b, c, d, g) ==
    /\ g \in Seq(Byte) /\ Len(g) = Len(f) + Len(a) + Len(b) + Len(c) + Len(d)
    /\ \A i \in 1 .. Len(f) : g[i] = f[i]
    /\ \A i \in 1 .. Len(a) : g[Len(f) + i] = a[i]
    /\ \A i \in 1 .. Len(b) : g[Len(f) + Len(a) + i] = b[i]
    /\ \A i \in 1 .. Len(c) : g[Len(f) + Len(a) + Len(b) + i] = c[i]
    /\ \A i \in 1 .. Len(d) : g[Len(f) + Len(a) + Len(b) + Len(c) + i] = d[i]

\* What ~InMemoryDatabase writes for one entry is found part by part.
LEMMA AppendedBytes ==
    ASSUME NEW f \in Seq(Byte), NEW a \in Seq(Byte), NEW b \in Seq(Byte), NEW c \in Seq(Byte),
           NEW d \in Seq(Byte), NEW g, g = f \o (a \o b \o c \o d)
    PROVE  Appended(f, a, b, c, d, g)
<1>1. \A u, v \in Seq(Byte) :
        /\ u \o v \in Seq(Byte) /\ Len(u \o v) = Len(u) + Len(v)
        /\ \A i \in 1 .. Len(u) : (u \o v)[i] = u[i]
        /\ \A i \in 1 .. Len(v) : (u \o v)[Len(u) + i] = v[i]
  OBVIOUS
<1> DEFINE ab == a \o b
           abc == ab \o c
           r == abc \o d
<1>2. ab \in Seq(Byte) /\ Len(ab) = Len(a) + Len(b) BY <1>1
<1> HIDE DEF ab
<1>3. abc \in Seq(Byte) /\ Len(abc) = Len(ab) + Len(c) BY <1>1, <1>2
<1> HIDE DEF abc
<1>4. r \in Seq(Byte) /\ Len(r) = Len(abc) + Len(d) BY <1>1, <1>3
<1> HIDE DEF r
<1>5. g = f \o r BY DEF ab, abc, r
<1>6. Len(a) \in Nat /\ Len(b) \in Nat /\ Len(c) \in Nat /\ Len(d) \in Nat /\ Len(f) \in Nat
      /\ Len(ab) \in Nat /\ Len(abc) \in Nat /\ Len(r) \in Nat
  BY <1>2, <1>3, <1>4
<1>7. /\ g \in Seq(Byte) /\ Len(g) = Len(f) + Len(r)
      /\ \A i \in 1 .. Len(f) : g[i] = f[i]
      /\ \A i \in 1 .. Len(r) : g[Len(f) + i] = r[i]
  BY <1>1, <1>4, <1>5
<1>8. \A i \in 1 .. Len(abc) : r[i] = abc[i] BY <1>1, <1>3 DEF r
<1>9. \A i \in 1 .. Len(d) : r[Len(abc) + i] = d[i] BY <1>1, <1>3 DEF r
<1>10. \A i \in 1 .. Len(ab) : abc[i] = ab[i] BY <1>1, <1>2 DEF abc
<1>11. \A i \in 1 .. Len(c) : abc[Len(ab) + i] = c[i] BY <1>1, <1>2 DEF abc
<1>12. \A i \in 1 .. Len(a) : ab[i] = a[i] BY <1>1 DEF ab
<1>13. \A i \in 1 .. Len(b) : ab[Len(a) + i] = b[i] BY <1>1 DEF ab
<1>14. \A i \in 1 .. Len(a) : g[Len(f) + i] = a[i]
  <2> TAKE i \in 1 .. Len(a)
  <2>1. i \in 1 .. Len(ab) /\ i \in 1 .. Len(abc) /\ i \in 1 .. Len(r) BY <1>2, <1>3, <1>4, <1>6
  <2> QED BY <1>7, <1>8, <1>10, <1>12, <2>1
<1>15. \A i \in 1 .. Len(b) : g[Len(f) + Len(a) + i] = b[i]
  <2> TAKE i \in 1 .. Len(b)
  <2> DEFINE j == Len(a) + i
  <2>1. j \in 1 .. Len(ab) /\ j \in 1 .. Len(abc) /\ j \in 1 .. Len(r) /\ Len(f) + Len(a) + i = Len(f) + j
    BY <1>2, <1>3, <1>4, <1>6
  <2>2. ab[j] = b[i] BY <1>13
  <2> HIDE DEF j
  <2> QED BY <1>7, <1>8, <1>10, <2>1, <2>2
<1>16. \A i \in 1 .. Len(c) : g[Len(f) + Len(a) + Len(b) + i] = c[i]
  <2> TAKE i \in 1 .. Len(c)
  <2> DEFINE j == Len(ab) + i
  <2>1. j \in 1 .. Len(abc) /\ j \in 1 .. Len(r) /\ Len(f) + Len(a) + Len(b) + i = Len(f) + j
    BY <1>2, <1>3, <1>4, <1>6
  <2>2. abc[j] = c[i] BY <1>11
  <2> HIDE DEF j
  <2> QED BY <1>7, <1>8, <2>1, <2>2
<1>17. \A i \in 1 .. Len(d) : g[Len(f) + Len(a) + Len(b) + Len(c) + i] = d[i]
  <2> TAKE i \in 1 .. Len(d)
  <2> DEFINE j == Len(abc) + i
  <2>1. j \in 1 .. Len(r) /\ Len(f) + Len(a) + Len(b) + Len(c) + i = Len(f) + j
    BY <1>2, <1>3, <1>4, <1>6
  <2>2. r[j] = d[i] BY <1>9
  <2> HIDE DEF j
  <2> QED BY <1>7, <2>1, <2>2
<1>18. Len(g) = Len(f) + Len(a) + Len(b) + Len(c) + Len(d) BY <1>2, <1>3, <1>4, <1>6, <1>7
<1> QED BY <1>7, <1>14, <1>15, <1>16, <1>17, <1>18 DEF Appended

\* A file that only grows keeps what is in it.
LEMMA HoldsGrown ==
    ASSUME NEW f \in Seq(Byte), NEW g \in Seq(Byte), \A i \in 1 .. Len(f) : g[i] = f[i],
           NEW p \in Nat, NEW str \in Seq(Byte), p + Len(str) <= Len(f), Holds(f, p, str)
    PROVE  Holds(g, p, str)
<1> SUFFICES ASSUME NEW j \in 1 .. Len(str) PROVE g[p + j] = str[j] BY DEF Holds
<1>1. Len(str) \in Nat /\ Len(f) \in Nat OBVIOUS
<1>2. p + j \in 1 .. Len(f) BY <1>1
<1>3. p + j <= Len(f) BY <1>1
<1> QED BY <1>2, <1>3 DEF Holds

\* ... and so is a whole record.
LEMMA RecordGrown ==
    ASSUME NEW f \in Seq(Byte), NEW g \in Seq(Byte), \A i \in 1 .. Len(f) : g[i] = f[i],
           NEW p \in Nat, NEW w, w.key \in Id, w.value \in Text,
           p + 8 + CHUNK_HASH_SIZE + Len(w.value) <= Len(f), RecordAt(f, p, w)
    PROVE  RecordAt(g, p, w)
<1> DEFINE H == CHUNK_HASH_SIZE
           V == Len(w.value)
<1>1. H \in 0 .. 255 /\ V \in 0 .. 255 /\ w.value \in Seq(Byte) /\ w.key \in Seq(Byte) /\ Len(w.key) = H
  <2>1. w.value \in Seq(Byte) /\ V \in Nat /\ V < 256 /\ w.key \in Seq(Byte) /\ Len(w.key) = H
    BY DEF Id, Text
  <2>2. H \in 1 .. 255 BY HashSize
  <2> HIDE DEF H, V
  <2>3. H \in 0 .. 255 /\ V \in 0 .. 255 BY <2>1, <2>2
  <2> QED BY <2>1, <2>3
<1>2. IntBytes(H) \in Seq(Byte) /\ Len(IntBytes(H)) = 4 BY <1>1, IntTypes
<1>3. IntBytes(V) \in Seq(Byte) /\ Len(IntBytes(V)) = 4 BY <1>1, IntTypes
<1>4. /\ Holds(f, p, IntBytes(H)) /\ Holds(f, p + 4, w.key) /\ Holds(f, p + 4 + H, IntBytes(V))
      /\ Holds(f, p + 8 + H, w.value) BY DEF RecordAt
<1>5. p + 8 + H + V <= Len(f) /\ V = Len(w.value) OBVIOUS
<1> HIDE DEF H, V
<1>6. /\ p + 4 \in Nat /\ p + 4 + H \in Nat /\ p + 8 + H \in Nat /\ Len(f) \in Nat
      /\ p + 4 <= Len(f) /\ p + 4 + H <= Len(f) /\ p + 4 + H + 4 <= Len(f)
  <2> DEFINE n == Len(f)
  <2>1. n \in Nat /\ H \in Nat /\ V \in Nat BY <1>1
  <2>2. p + 8 + H + V <= n BY <1>5
  <2> HIDE DEF n
  <2>3. p + 4 \in Nat /\ p + 4 + H \in Nat /\ p + 8 + H \in Nat BY <2>1
  <2>4. p + 4 <= n /\ p + 4 + H <= n /\ p + 4 + H + 4 <= n BY <2>1, <2>2
  <2> QED BY <2>1, <2>3, <2>4 DEF n
<1>7. Holds(g, p, IntBytes(H)) BY <1>2, <1>4, <1>6, HoldsGrown
<1>8. Holds(g, p + 4, w.key) BY <1>1, <1>4, <1>6, HoldsGrown
<1>9. Holds(g, p + 4 + H, IntBytes(V)) BY <1>3, <1>4, <1>6, HoldsGrown
<1>10. Holds(g, p + 8 + H, w.value) BY <1>1, <1>4, <1>5, <1>6, HoldsGrown
<1> QED BY <1>7, <1>8, <1>9, <1>10 DEF RecordAt, H, V

\* One more record: the file has it behind the others.
LEMMA SaveStep ==
    ASSUME Types, DatabaseInv, NEW k \in DOMAIN indexObj, SaveRecord(k)
    PROVE  DatabaseInv'
<1>0. FileInv /\ EntryInv /\ WholeInv BY DEF DatabaseInv
<1>a. PICK N \in Nat : N = Len(written) BY <1>0 DEF FileInv
<1>b. PICK F \in Nat : F = Len(dbFile) BY <1>0 DEF FileInv
<1>c. PICK v \in Text : v = indexObj[k] BY <1>0 DEF EntryInv
<1> DEFINE H == CHUNK_HASH_SIZE
           V == Len(v)
           w == [key |-> k, value |-> v, end |-> Len(dbFile')]
           R == [key : Id, value : Text, end : Nat]
<1>1. /\ phase = "records" /\ phase' = "records" /\ k \in unsaved /\ unsaved' = unsaved \ {k}
      /\ dbFile' = dbFile \o Record(k) /\ written' = Append(written, w)
      /\ UNCHANGED <<backend, indexObj, reader, durable>>
  BY <1>c DEF SaveRecord, processVars
<1>2. /\ k \in Seq(Byte) /\ Len(k) = H /\ k \in Id /\ v \in Seq(Byte) /\ V \in Nat /\ V < 256
  BY <1>0 DEF EntryInv, Id, Text
<1>3. H \in 1 .. 255 /\ dbFile \in Seq(Byte) /\ written \in Seq(R)
  BY <1>0, HashSize DEF FileInv
<1>4. F = Ends(N) /\ Saved(N) = DOMAIN indexObj \ unsaved /\ Agrees(indexObj, N)
  BY <1>0, <1>1, <1>a, <1>b DEF WholeInv
<1>5. /\ IntBytes(H) \in Seq(Byte) /\ Len(IntBytes(H)) = 4
      /\ IntBytes(V) \in Seq(Byte) /\ Len(IntBytes(V)) = 4
  <2>1. V \in Nat /\ V < 256 /\ H \in 1 .. 255 BY <1>2, <1>3
  <2> HIDE DEF H, V
  <2>2. H \in 0 .. 255 /\ V \in 0 .. 255 BY <2>1
  <2> QED BY <2>2, IntTypes
<1>6. dbFile' = dbFile \o (IntBytes(H) \o k \o IntBytes(V) \o v) BY <1>1, <1>2, <1>c DEF Record
<1> HIDE DEF H, V, R
<1>7. /\ dbFile' \in Seq(Byte) /\ Len(dbFile') = F + 4 + H + 4 + V
      /\ \A i \in 1 .. F : dbFile'[i] = dbFile[i]
      /\ \A i \in 1 .. 4 : dbFile'[F + i] = IntBytes(H)[i]
      /\ \A i \in 1 .. H : dbFile'[F + 4 + i] = k[i]
      /\ \A i \in 1 .. 4 : dbFile'[F + 4 + H + i] = IntBytes(V)[i]
      /\ \A i \in 1 .. V : dbFile'[F + 4 + H + 4 + i] = v[i]
  <2> DEFINE x == IntBytes(H)
             y == IntBytes(V)
             new == dbFile'
  <2>1. new = dbFile \o (x \o k \o y \o v) BY <1>6
  <2>2. x \in Seq(Byte) /\ Len(x) = 4 /\ y \in Seq(Byte) /\ Len(y) = 4 BY <1>5
  <2> HIDE DEF x, y, new
  <2>3. Appended(dbFile, x, k, y, v, new) BY <1>2, <1>3, <2>1, <2>2, AppendedBytes
  <2> QED BY <1>2, <1>b, <2>2, <2>3 DEF Appended, x, y, new, V
<1>8. Len(dbFile') = F + 8 + H + V /\ Len(dbFile') \in Nat /\ F < Len(dbFile') BY <1>2, <1>3, <1>7
<1>9. w \in R BY <1>2, <1>8 DEF R
<1>10. w.key = k /\ w.value = v /\ w.end = Len(dbFile') OBVIOUS
<1> HIDE DEF w
<1>11. /\ written' \in Seq(R) /\ Len(written') = N + 1 /\ written'[N + 1] = w
       /\ \A i \in 1 .. N : written'[i] = written[i]
  BY <1>1, <1>3, <1>9, <1>a
<1>12. \A i \in 0 .. N : Ends(i)' = Ends(i)
  <2> TAKE i \in 0 .. N
  <2>1. CASE i = 0 BY <2>1 DEF Ends
  <2>2. CASE i # 0
    <3>1. i \in 1 .. N BY <2>2
    <3> QED BY <1>11, <2>2, <3>1 DEF Ends
  <2> QED BY <2>1, <2>2
<1>13. Ends(N + 1)' = Len(dbFile')
  <2>1. N + 1 # 0 OBVIOUS
  <2> QED BY <1>10, <1>11, <2>1 DEF Ends
<1>14. RecordAt(dbFile', F, w)
  <2>1. Len(IntBytes(H)) = 4 /\ Len(IntBytes(V)) = 4 BY <1>5
  <2>2. Holds(dbFile', F, IntBytes(H)) BY <1>7, <2>1 DEF Holds
  <2>3. Holds(dbFile', F + 4, k) BY <1>2, <1>7 DEF Holds
  <2>4. Holds(dbFile', F + 4 + H, IntBytes(V)) BY <1>7, <2>1 DEF Holds
  <2>5. Holds(dbFile', F + 8 + H, v)
    <3>1. \A i \in 1 .. V : F + 4 + H + 4 + i = F + 8 + H + i BY <1>2, <1>3
    <3> QED BY <1>7, <3>1 DEF Holds, V
  <2> QED BY <1>10, <2>2, <2>3, <2>4, <2>5 DEF RecordAt, H, V
<1>15. \A i \in 1 .. N :
         /\ written[i].key \in Id /\ written[i].value \in Text /\ written[i].end \in Nat
         /\ i - 1 \in 0 .. N /\ Ends(i - 1) \in Nat
         /\ written[i].end = Ends(i - 1) + 8 + H + Len(written[i].value)
         /\ RecordAt(dbFile, Ends(i - 1), written[i])
  <2> TAKE i \in 1 .. N
  <2>1. i \in 1 .. Len(written) /\ i - 1 \in 0 .. Len(written) BY <1>a
  <2>2. Ends(i - 1) \in Nat BY <1>0, <2>1, RecordTypes
  <2> QED BY <1>0, <1>a, <2>1, <2>2, Records DEF FileInv, H
<1>16. \A i \in 1 .. N : written[i].end <= F
  <2> TAKE i \in 1 .. N
  <2>1. N \in 1 .. N /\ Ends(N) = written[N].end BY DEF Ends
  <2>2. i < N => written[i].end < written[N].end BY <1>0, <1>a, <2>1 DEF FileInv
  <2>3. i = N \/ i < N OBVIOUS
  <2>4. written[i].end \in Nat BY <1>15
  <2> QED BY <1>4, <2>1, <2>2, <2>3, <2>4
<1>17. \A i \in 1 .. (N + 1) :
         /\ written'[i].end = Ends(i - 1)' + 8 + H + Len(written'[i].value)
         /\ RecordAt(dbFile', Ends(i - 1)', written'[i])
  <2> TAKE i \in 1 .. (N + 1)
  <2>1. CASE i = N + 1
    <3>1. i - 1 = N /\ N \in 0 .. N BY <2>1
    <3>2. Ends(i - 1)' = F
      <4>1. Ends(N)' = F BY <1>4, <1>12, <3>1
      <4> QED BY <3>1, <4>1
    <3>3. written'[i] = w BY <1>11, <2>1
    <3> QED BY <1>8, <1>10, <1>14, <3>2, <3>3 DEF V
  <2>2. CASE i # N + 1
    <3>1. i \in 1 .. N BY <2>2
    <3>2. written'[i] = written[i] /\ Ends(i - 1)' = Ends(i - 1) BY <1>11, <1>12, <1>15, <3>1
    <3>3. RecordAt(dbFile', Ends(i - 1), written[i])
      <4>1. Ends(i - 1) + 8 + CHUNK_HASH_SIZE + Len(written[i].value) <= Len(dbFile)
        BY <1>15, <1>16, <1>b, <3>1 DEF H
      <4> QED BY <1>3, <1>7, <1>15, <1>b, <3>1, <4>1, RecordGrown
    <3> QED BY <1>15, <3>1, <3>2, <3>3
  <2> QED BY <2>1, <2>2
<1>18. \A i, j \in 1 .. (N + 1) :
         i < j => written'[i].end < written'[j].end /\ written'[i].key # written'[j].key
  <2> SUFFICES ASSUME NEW i \in 1 .. (N + 1), NEW j \in 1 .. (N + 1), i < j
               PROVE  written'[i].end < written'[j].end /\ written'[i].key # written'[j].key
    OBVIOUS
  <2>1. i \in 1 .. N /\ written'[i] = written[i] BY <1>11
  <2>2. CASE j = N + 1
    <3>1. written'[j] = w BY <1>11, <2>2
    <3>2. written[i].end < Len(dbFile') BY <1>8, <1>15, <1>16, <2>1, SMTT(30)
    <3>3. written[i].key # k
      <4>1. written[i].key \in Saved(N) BY <2>1 DEF Saved
      <4> QED BY <1>1, <1>4, <4>1
    <3> QED BY <1>10, <2>1, <3>1, <3>2, <3>3
  <2>3. CASE j # N + 1
    <3>1. j \in 1 .. N /\ written'[j] = written[j] BY <1>11, <2>3
    <3> QED BY <1>0, <1>a, <2>1, <3>1 DEF FileInv
  <2> QED BY <2>2, <2>3
<1>19. Ends(Len(written))' = Len(dbFile') BY <1>11, <1>13
<1>20. FileInv'
  <2>1. Len(dbFile') <= Ends(Len(written))' BY <1>8, <1>19
  <2> QED BY <1>7, <1>11, <1>17, <1>18, <2>1 DEF FileInv, H, R
<1>21. WholeInv'
  <2>1. 1 .. (N + 1) = (1 .. N) \union {N + 1} OBVIOUS
  <2>2. Saved(N + 1)' = Saved(N) \union {k}
    <3>1. {written'[i].key : i \in 1 .. (N + 1)} =
            {written'[i].key : i \in 1 .. N} \union {written'[N + 1].key}
      BY <2>1
    <3>2. {written'[i].key : i \in 1 .. N} = {written[i].key : i \in 1 .. N} BY <1>11
    <3> QED BY <1>10, <1>11, <3>1, <3>2 DEF Saved
  <2>3. Saved(N + 1)' = DOMAIN indexObj' \ unsaved' BY <1>0, <1>1, <1>4, <2>2 DEF EntryInv
  <2>4. Agrees(indexObj, N + 1)'
    <3>1. \A i \in 1 .. (N + 1) : i \in 1 .. N \/ i = N + 1 OBVIOUS
    <3> QED BY <1>1, <1>4, <1>10, <1>11, <1>c, <3>1 DEF Agrees
  <2> QED BY <1>1, <1>11, <1>19, <2>3, <2>4 DEF WholeInv
<1>22. EntryInv' BY <1>0, <1>1 DEF EntryInv
<1>23. LoadInv' BY <1>1 DEF LoadInv
<1>24. KeptInv'
  <2>1. backend # "LEVEL_DB" BY <1>0, <1>1 DEF EntryInv
  <2> QED BY <1>1, <2>1 DEF KeptInv
<1> QED BY <1>20, <1>21, <1>22, <1>23, <1>24 DEF DatabaseInv

\* The save is complete, or LevelDB has nothing to save.
LEMMA CloseStep == ASSUME Types, DatabaseInv, CloseDB PROVE DatabaseInv'
<1>0. FileInv /\ EntryInv /\ WholeInv BY DEF DatabaseInv
<1>1. phase' = "down" /\ UNCHANGED <<backend, dbFile, reader, unsaved, written>> BY DEF CloseDB
<1>2. FileInv' BY <1>0, <1>1, SameFile
<1>3. LoadInv' BY <1>1 DEF LoadInv
<1>4. CASE phase = "records" /\ unsaved = {} /\ indexObj' = None /\ durable' = indexObj
  <2>1. backend \in {"IN_MEMORY", "LEVEL_DB"} BY DEF Types, CreateDatabase
  <2>2. backend = "IN_MEMORY" BY <1>0, <1>4, <2>1 DEF EntryInv
  <2>3. DOMAIN indexObj' = {} BY <1>4 DEF None
  <2>4. EntryInv' BY <1>0, <1>1, <1>4, <2>2, <2>3 DEF EntryInv
  <2>5. WholeInv'
    <3>1. /\ Len(dbFile) = Ends(Len(written))
          /\ Saved(Len(written)) = DOMAIN indexObj /\ Agrees(indexObj, Len(written))
      BY <1>0, <1>4 DEF WholeInv
    <3>2. /\ Ends(Len(written))' = Ends(Len(written)) /\ Saved(Len(written))' = Saved(Len(written))
      BY <1>1 DEF Ends, Saved
    <3>3. Agrees(durable, Len(written))' BY <1>1, <1>4, <3>1 DEF Agrees
    <3> QED BY <1>1, <1>4, <3>1, <3>2, <3>3 DEF WholeInv
  <2>6. KeptInv' BY <1>1, <2>2 DEF KeptInv
  <2> QED BY <1>2, <1>3, <2>4, <2>5, <2>6 DEF DatabaseInv
<1>5. CASE phase = "savedb" /\ backend = "LEVEL_DB" /\ UNCHANGED <<indexObj, durable>>
  <2>1. EntryInv' BY <1>0, <1>1, <1>5 DEF EntryInv
  <2>2. WholeInv' BY <1>1, <1>5 DEF WholeInv
  <2>3. KeptInv' BY <1>1, <1>5 DEF KeptInv, DatabaseInv
  <2> QED BY <1>2, <1>3, <2>1, <2>2, <2>3 DEF DatabaseInv
<1> QED BY <1>4, <1>5 DEF CloseDB

\* A crash leaves a beginning of the records in the file, and nothing that has to survive
\* if it cut a save short.
LEMMA CrashStep == ASSUME Types, DatabaseInv, Crash PROVE DatabaseInv'
<1>0. FileInv /\ EntryInv /\ WholeInv BY DEF DatabaseInv
<1>1. /\ phase' = "down" /\ UNCHANGED <<backend, written>> /\ unsaved' = {}
      /\ indexObj' = (IF backend = "LEVEL_DB" THEN indexObj ELSE None)
      /\ durable' = (IF phase = "records" THEN None ELSE durable)
      /\ reader' = [pos |-> 0, key |-> << >>, value |-> << >>]
  BY DEF Crash, NewReader
<1>2. backend \in {"IN_MEMORY", "LEVEL_DB"} BY DEF Types, CreateDatabase
<1>3. DOMAIN None = {} BY DEF None
<1>4. EntryInv'
  <2>1. reader'.pos \in Nat /\ reader'.key \in Seq(Byte) /\ reader'.value \in Seq(Byte) BY <1>1
  <2>2. CASE backend = "LEVEL_DB" BY <1>0, <1>1, <2>1, <2>2 DEF EntryInv
  <2>3. CASE backend = "IN_MEMORY"
    <3>1. DOMAIN indexObj' = {} BY <1>1, <1>3, <2>3
    <3> QED BY <1>1, <2>1, <2>3, <3>1 DEF EntryInv
  <2> QED BY <1>2, <2>2, <2>3
<1>5. LoadInv' BY <1>1 DEF LoadInv
<1>6. KeptInv'
  <2>1. CASE backend = "LEVEL_DB"
    <3>1. phase # "records" BY <1>0, <2>1 DEF EntryInv
    <3> QED BY <1>1, <2>1, <3>1 DEF KeptInv, DatabaseInv
  <2>2. CASE backend = "IN_MEMORY" BY <1>1, <2>2 DEF KeptInv
  <2> QED BY <1>2, <2>1, <2>2
<1>7. CASE phase # "records"
  <2>1. UNCHANGED <<dbFile, durable>> BY <1>1, <1>7 DEF Crash
  <2>2. FileInv' BY <1>0, <1>1, <2>1, SameFile
  <2>3. WholeInv' BY <1>0, <1>1, <1>7, <2>1, SameWhole
  <2> QED BY <1>4, <1>5, <1>6, <2>2, <2>3 DEF DatabaseInv
<1>8. CASE phase = "records"
  <2>1. PICK n \in 0 .. Len(dbFile) : dbFile' = SubSeq(dbFile, 1, n) BY <1>8 DEF Crash
  <2>2. dbFile \in Seq(Byte) /\ Len(dbFile) \in Nat BY <1>0 DEF FileInv
  <2>3. /\ dbFile' \in Seq(Byte) /\ Len(dbFile') = n /\ n <= Len(dbFile) /\ n \in Nat
        /\ \A i \in 1 .. n : dbFile'[i] = dbFile[i]
    BY <2>1, <2>2
  <2>4. ASSUME NEW p \in Nat, NEW str, Len(str) \in Nat, Holds(dbFile, p, str) PROVE Holds(dbFile', p, str)
    <3> SUFFICES ASSUME NEW j \in 1 .. Len(str), p + j <= n PROVE dbFile'[p + j] = str[j]
      BY <2>3 DEF Holds
    <3>1. p + j \in 1 .. n /\ p + j <= Len(dbFile) BY <2>2, <2>3, <2>4
    <3> QED BY <2>3, <2>4, <3>1 DEF Holds
  <2>5. \A i : Ends(i)' = Ends(i) BY <1>1 DEF Ends
  <2>6. ASSUME NEW i \in 1 .. Len(written) PROVE RecordAt(dbFile', Ends(i - 1), written[i])
    <3> DEFINE p == Ends(i - 1)
               H == CHUNK_HASH_SIZE
               w == written[i]
    <3>1. RecordAt(dbFile, p, w) BY <1>0, <2>6 DEF FileInv
    <3>2. p \in Nat
      <4>1. i - 1 \in 0 .. Len(written)
        <5>1. Len(written) \in Nat BY <1>0 DEF FileInv
        <5> QED BY <5>1
      <4> QED BY <1>0, <4>1, RecordTypes
    <3>3. w.key \in Id /\ w.value \in Text BY <1>0, Records
    <3>4. H \in 1 .. 255 BY HashSize
    <3>5. Len(w.key) \in Nat /\ Len(w.value) \in Nat /\ Len(w.value) < 256 BY <3>3 DEF Id, Text
    <3> HIDE DEF p, H, w
    <3>6. Len(IntBytes(H)) \in Nat /\ Len(IntBytes(Len(w.value))) \in Nat
      <4> DEFINE V == Len(w.value)
      <4>1. V \in Nat /\ V < 256 BY <3>5
      <4> HIDE DEF V
      <4>2. H \in 0 .. 255 /\ V \in 0 .. 255 BY <3>4, <4>1
      <4>3. \A v \in 0 .. 255 : Len(IntBytes(v)) \in Nat BY IntTypes, SMTT(30)
      <4> QED BY <4>2, <4>3 DEF V
    <3>7. p + 4 \in Nat /\ p + 4 + H \in Nat /\ p + 8 + H \in Nat BY <3>2, <3>4
    <3> QED BY <2>4, <3>1, <3>2, <3>5, <3>6, <3>7 DEF RecordAt, p, H, w
  <2>7. Len(dbFile') <= Ends(Len(written))'
    <3>1. Len(dbFile) <= Ends(Len(written)) /\ Ends(Len(written)) \in Nat
      <4>1. Len(written) \in 0 .. Len(written) BY <1>0 DEF FileInv
      <4> QED BY <1>0, <4>1, RecordTypes DEF FileInv
    <3>2. Ends(Len(written))' = Ends(Len(written)) BY <1>1 DEF Ends
    <3> QED BY <2>2, <2>3, <3>1, <3>2
  <2>8. FileInv' BY <1>0, <1>1, <2>3, <2>5, <2>6, <2>7 DEF FileInv
  <2>9. WholeInv' BY <1>1, <1>3, <1>8 DEF WholeInv
  <2> QED BY <1>4, <1>5, <1>6, <2>8, <2>9 DEF DatabaseInv
<1> QED BY <1>7, <1>8

-----------------------------------------------------------------------------
(* The invariant and what follows.                                         *)

\* Before the first start there is nothing.
LEMMA IndexInitially == Init => IndexInv
<1> SUFFICES ASSUME Init PROVE IndexInv OBVIOUS
<1>1. /\ phase = "down" /\ indexObj = None /\ dbFile = << >> /\ unsaved = {} /\ written = << >> /\ durable = None
      /\ reader = [pos |-> 0, key |-> << >>, value |-> << >>]
  BY DEF Init, NewReader
<1>2. DOMAIN None = {} BY DEF None
<1>3. Len(written) = 0 /\ Len(dbFile) = 0 /\ Ends(Len(written)) = 0 /\ 1 .. Len(written) = {} BY <1>1 DEF Ends
<1>4. EntryInv
  <2>1. reader.pos \in Nat /\ reader.key \in Seq(Byte) /\ reader.value \in Seq(Byte) BY <1>1
  <2> QED BY <1>1, <1>2, <2>1 DEF EntryInv
<1>5. FileInv
  <2>1. dbFile \in Seq(Byte) /\ written \in Seq([key : Id, value : Text, end : Nat]) BY <1>1
  <2>2. Len(dbFile) <= Ends(Len(written)) BY <1>3
  <2> QED BY <1>3, <2>1, <2>2 DEF FileInv
<1>6. WholeInv BY <1>1, <1>2 DEF WholeInv
<1>7. LoadInv BY <1>1 DEF LoadInv
<1>8. KeptInv BY <1>1, <1>2 DEF KeptInv
<1> QED BY <1>4, <1>5, <1>6, <1>7, <1>8, TypesInitially DEF IndexInv, DatabaseInv

\* Every step keeps the invariant.
LEMMA IndexStep == IndexInv /\ [Next]_vars => IndexInv'
<1> SUFFICES ASSUME IndexInv, [Next]_vars PROVE IndexInv' OBVIOUS
<1>1. Types /\ StatInv /\ HashInv /\ DatabaseInv BY DEF IndexInv
<1>2. Types' /\ StatInv' BY <1>1, TypesStep
<1>3. HashInv' BY <1>1, HashStep
<1>4. DatabaseInv'
  <2>1. ASSUME NEW s \in Session, Receiver(s) PROVE DatabaseInv'
    <3>1. CASE NewChunk(s) BY <1>1, <3>1, NewChunkStep
    <3>2. CASE ~ NewChunk(s)
      <4>1. phase = "up" /\ phase' = "up" /\ UNCHANGED <<backend, storeVars>>
        BY <2>1, <3>2 DEF Receiver, AddLogicalSize, AddLogicalNum, AddLoad, AddStore, EndSession, GenerateHash,
           HashInit, HashUpdate, HashFinal, KnownChunk, processVars
      <4> QED BY <1>1, <4>1, QuietDatabase
    <3> QED BY <3>1, <3>2
  <2>2. ASSUME Close \/ TruncStat \/ WriteStat PROVE DatabaseInv'
    <3>1. /\ phase \in {"up", "savestat", "stat"} /\ phase' \in {"up", "savestat", "stat", "savedb"}
          /\ UNCHANGED <<backend, storeVars>>
      BY <2>2 DEF Close, TruncStat, WriteStat
    <3> QED BY <1>1, <3>1, QuietDatabase
  <2>3. ASSUME UNCHANGED vars PROVE DatabaseInv'
    <3>1. UNCHANGED <<backend, phase, indexObj, dbFile, reader, unsaved, written, durable>>
      BY <2>3 DEF vars, processVars, storeVars
    <3>2. EntryInv' BY <1>1, <3>1 DEF EntryInv, DatabaseInv
    <3>3. FileInv' BY <1>1, <3>1, SameFile DEF DatabaseInv
    <3>4. WholeInv' BY <1>1, <3>1 DEF WholeInv, DatabaseInv, Ends, Saved, Agrees
    <3>5. LoadInv'
      <4>1. \A n : Ends(n)' = Ends(n) /\ Saved(n)' = Saved(n) /\ (Agrees(indexObj, n)' <=> Agrees(indexObj, n))
        BY <3>1 DEF Ends, Saved, Agrees
      <4>2. \A n : AtRecord(n)' <=> AtRecord(n) BY <3>1, <4>1 DEF AtRecord
      <4>3. \A n : AllLoaded(n)' <=> AllLoaded(n) BY <3>1, <4>1 DEF AllLoaded
      <4> QED BY <1>1, <3>1, <4>2, <4>3 DEF LoadInv, DatabaseInv
    <3>6. KeptInv' BY <1>1, <3>1 DEF KeptInv, DatabaseInv
    <3> QED BY <3>2, <3>3, <3>4, <3>5, <3>6 DEF DatabaseInv
  <2> QED BY <1>1, <2>1, <2>2, <2>3, OpenStep, LoadStep, LoadEndStep, LoadStatStep, TruncStep, SaveStep,
             CloseStep, CrashStep DEF Next
<1> QED BY <1>2, <1>3, <1>4 DEF IndexInv

\* The file, the entries and the contexts stay in order, whatever the sessions hash and
\* wherever the process ends.
THEOREM IndexInvariant == Spec => []IndexInv
  BY IndexInitially, IndexStep, PTL DEF Spec

\* CryptoFaithful for any chunks and any number of sessions: GenerateHash of one session
\* never sees the bytes of another, and EncryptWithKey and DecryptWithKey are inverse.
THEOREM FingerprintsFaithful == Spec => []CryptoFaithful
<1>1. HashInv => CryptoFaithful
  <2> SUFFICES ASSUME HashInv, NEW s \in Session
               PROVE  (pc[s] = "hashed" => hash[s] = Hash[chunk[s]]) /\ chunk[s] \in Recovered
    BY DEF CryptoFaithful
  <2>1. chunk[s] \in Chunk \union {<< >>} BY DEF HashInv
  <2>2. chunk[s] \in Seq(Byte)
    <3>1. CASE chunk[s] \in Chunk BY <3>1, HashSize
    <3>2. CASE chunk[s] = << >> BY <3>2
    <3> QED BY <2>1, <3>1, <3>2
  <2>3. chunk[s] \in Recovered BY <2>1, <2>2, AllRecovered DEF Recovered
  <2> QED BY <2>3 DEF HashInv
<1> QED BY <1>1, IndexInvariant, PTL DEF IndexInv

\* SavedSurvives for any number of crashes and restarts: whatever ~InMemoryDatabase wrote
\* completely, or LevelDB was given, the next processes find.
THEOREM SavedEntriesSurvive == Spec => []SavedSurvives
<1>1. IndexInv => SavedSurvives
  <2> SUFFICES ASSUME IndexInv, phase = "up", NEW k \in DOMAIN durable
               PROVE  ReadIndexStore(k) /\ indexObj[k] = durable[k]
    BY DEF SavedSurvives
  <2>1. k \in DOMAIN indexObj /\ indexObj[k] = durable[k] BY DEF IndexInv, DatabaseInv, KeptInv
  <2>2. backend \in {"IN_MEMORY", "LEVEL_DB"} BY DEF IndexInv, Types, CreateDatabase
  <2> QED BY <2>1, <2>2 DEF ReadIndexStore, Get, Find
<1> QED BY <1>1, IndexInvariant, PTL

\* The state stays well typed; what OpenDB makes up of a file that was cut is a string of
\* bytes, too.
THEOREM IndexTypes == Spec => []TypeOK
<1>1. IndexInv => TypeOK
  <2> SUFFICES ASSUME IndexInv PROVE TypeOK OBVIOUS
  <2>1. \A k \in DOMAIN indexObj : k \in Seq(Byte) /\ indexObj[k] \in Seq(Byte)
    BY DEF IndexInv, DatabaseInv, EntryInv, Id, Text
  <2>2. unsaved \subseteq Seq(Byte) BY <2>1 DEF IndexInv, DatabaseInv, EntryInv
  <2>3. dbFile \in Seq(Byte) BY DEF IndexInv, DatabaseInv, FileInv
  <2>4. \A s \in Session : hash[s] \in Seq(Byte) /\ mdCtx[s].fed \in Seq(Byte) BY DEF IndexInv, HashInv
  <2>5. reader.pos \in Nat /\ reader.key \in Seq(Byte) /\ reader.value \in Seq(Byte)
    BY DEF IndexInv, DatabaseInv, EntryInv
  <2>6. chunk \in [Session -> Chunk \union {<< >>}] BY DEF IndexInv, HashInv
  <2> QED BY <2>1, <2>2, <2>3, <2>4, <2>5, <2>6 DEF TypeOK, IndexInv, Types
<1> QED BY <1>1, IndexInvariant, PTL

\* The complete records of the file are the first n.
LEMMA CompleteRecords ==
    ASSUME FileInv, NEW n \in 0 .. Len(written), Ends(n) <= Len(dbFile),
           n < Len(written) => Len(dbFile) < written[n + 1].end
    PROVE  Cardinality({i \in DOMAIN written : written[i].end <= Len(dbFile)}) = n
<1> DEFINE done == {i \in DOMAIN written : written[i].end <= Len(dbFile)}
<1>1. Len(written) \in Nat /\ DOMAIN written = 1 .. Len(written) /\ Len(dbFile) \in Nat BY DEF FileInv
<1>2. \A i \in 1 .. Len(written) : written[i].end \in Nat BY Records
<1>3. ASSUME NEW i \in 1 .. n PROVE i \in done
  <2>1. i \in 1 .. Len(written) /\ n \in 1 .. Len(written) BY <1>1
  <2>2. Ends(n) = written[n].end BY <2>1 DEF Ends
  <2>3. i = n \/ i < n OBVIOUS
  <2>4. i < n => written[i].end < written[n].end BY <2>1 DEF FileInv
  <2>5. written[i].end <= Len(dbFile) BY <1>1, <1>2, <2>1, <2>2, <2>3, <2>4
  <2> QED BY <1>1, <2>1, <2>5
<1>4. ASSUME NEW i \in done PROVE i \in 1 .. n
  <2> SUFFICES ASSUME n < i PROVE FALSE BY <1>1
  <2>1. i \in 1 .. Len(written) /\ n + 1 \in 1 .. Len(written) /\ n < Len(written) BY <1>1
  <2>2. i = n + 1 \/ n + 1 < i BY <2>1
  <2>3. n + 1 < i => written[n + 1].end < written[i].end BY <2>1 DEF FileInv
  <2>4. Len(dbFile) < written[n + 1].end /\ written[i].end <= Len(dbFile) BY <2>1
  <2> QED BY <1>1, <1>2, <2>1, <2>2, <2>3, <2>4
<1>5. done = 1 .. n BY <1>3, <1>4
<1>6. Cardinality(1 .. n) = n
  <2>1. 1 \in Int /\ n \in Int BY <1>1
  <2>2. Cardinality(1 .. n) = IF 1 > n THEN 0 ELSE n - 1 + 1 BY <2>1, FS_Interval
  <2> QED BY <2>1, <2>2
<1> QED BY <1>5, <1>6

\* LoadFaithful wherever a save was cut, with any number of crashes before it: OpenDB loads
\* the complete records and at most one entry more, which no other chunk is found under.
THEOREM LoadsFaithful == Spec => []LoadFaithful
<1>1. IndexInv /\ TypeOK => LoadFaithful
  <2> SUFFICES ASSUME IndexInv, TypeOK, phase = "loadstat", backend = "IN_MEMORY"
               PROVE  LoadFaithful
    BY DEF LoadFaithful
  <2>1. FileInv BY DEF IndexInv, DatabaseInv
  <2>2. PICK n \in 0 .. Len(written) : AllLoaded(n) BY DEF IndexInv, DatabaseInv, LoadInv
  <2> DEFINE extra == DOMAIN indexObj \ Saved(n)
             cut == IF n = 0 THEN dbFile # << >> ELSE Len(dbFile) > written[n].end
  <2>3. Cardinality({i \in DOMAIN written : written[i].end <= Len(dbFile)}) = n
    BY <2>1, <2>2, CompleteRecords DEF AllLoaded
  <2>4. \A i \in 1 .. n : ReadIndexStore(written[i].key) /\ indexObj[written[i].key] = written[i].value
    <3>1. \A i \in 1 .. n : written[i].key \in DOMAIN indexObj BY <2>2 DEF AllLoaded, Saved
    <3> QED BY <2>2, <3>1 DEF AllLoaded, Agrees, ReadIndexStore, Find
  <2>5. ~ cut => extra = {}
    <3> SUFFICES ASSUME ~ cut PROVE extra = {} OBVIOUS
    <3>1. Len(dbFile) = Ends(n)
      <4>1. Ends(n) <= Len(dbFile) /\ Ends(n) \in Nat /\ Len(dbFile) \in Nat BY <2>1, <2>2, RecordTypes DEF AllLoaded
      <4>2. CASE n = 0 BY <4>2 DEF Ends
      <4>3. CASE n # 0 BY <4>1, <4>3 DEF Ends
      <4> QED BY <4>2, <4>3
    <3> QED BY <2>2, <3>1 DEF AllLoaded
  <2>6. Cardinality(extra) <= (IF cut THEN 1 ELSE 0)
    <3>1. CASE extra = {}
      <4>1. Cardinality(extra) = 0 BY <3>1, FS_EmptySet
      <4> QED BY <4>1
    <3>2. CASE extra # {}
      <4>1. PICK x \in extra : TRUE BY <3>2
      <4>2. extra = {x} BY <2>2, <4>1 DEF AllLoaded
      <4>3. Cardinality({x}) = 1 BY FS_Singleton
      <4>4. Cardinality(extra) = 1 BY <4>2, <4>3
      <4> QED BY <2>5, <3>2, <4>4
    <3> QED BY <3>1, <3>2
  <2>7. {written[i].key : i \in {n, n + 1} \intersect DOMAIN written} \subseteq Key =>
           extra \intersect Key \subseteq (IF cut THEN {written[n + 1].key} ELSE {})
    BY <2>2, <2>5 DEF AllLoaded
  <2> QED BY <2>3, <2>4, <2>6, <2>7 DEF LoadFaithful, Saved
<1> QED BY <1>1, IndexInvariant, IndexTypes, PTL
-----------------------------------------------------------------------------
(* Sums over sets of fingerprints.                                         *)

\* A set of numbers that is not empty has a least one.
LEMMA LeastNat ==
    ASSUME NEW T \in SUBSET Nat, T # {}
    PROVE  \E x \in T : \A y \in T : x <= y
<1>1. IsWellFoundedOn(OpToRel(<, Nat), Nat) BY NatLessThanWellFounded
<1>2. PICK x \in T : \A y \in T : ~ (<<y, x>> \in OpToRel(<, Nat)) BY <1>1, WFMin, Zenon
<1>3. ASSUME NEW y \in T PROVE x <= y
  <2>1. ~ (<<y, x>> \in OpToRel(<, Nat)) BY <1>2
  <2>2. x \in Nat /\ y \in Nat OBVIOUS
  <2>3. ~ (y < x) BY <2>1, <2>2, Zenon DEF OpToRel
  <2> QED BY <2>2, <2>3
<1> QED BY <1>3

\* The same, with what is below it.
LEMMA LeastOf ==
    ASSUME NEW T \in SUBSET Nat, T # {}
    PROVE  \E n \in T : n \in Nat /\ \A m \in Nat : m < n => m \notin T
<1>1. PICK n \in T : \A m \in T : n <= m BY LeastNat
<1>2. n \in Nat OBVIOUS
<1>3. ASSUME NEW m \in Nat, m < n PROVE m \notin T
  <2>1. ~ (n <= m) BY <1>2, <1>3
  <2> QED BY <1>1, <2>1
<1> QED BY <1>2, <1>3

\* What one fingerprint adds, and the one a fold takes out of a set first.
Weight(k) == Len(Preimage(k))
Picked(s) == CHOOSE x \in s : TRUE

\* What a fold makes of the set s, from its values f for smaller ones.
Summand(f, s) == IF s = {} THEN 0 ELSE Weight(Picked(s)) + f[s \ {Picked(s)}]
IsFold(D, f) == f = [s \in SUBSET D |-> Summand(f, s)]

\* The fold over D that MapThenSumSet evaluates, and the sum it makes.
TheFold(D) == CHOOSE f : f = [s \in SUBSET D |->
                  IF s = {} THEN 0 ELSE LET x == CHOOSE y \in s : TRUE IN Len(Preimage(x)) + f[s \ {x}]]
SizeOf(D) == MapThenSumSet(LAMBDA k : Len(Preimage(k)), D)

\* A sum is the value of the fold.
LEMMA SizeIsFold == ASSUME NEW D PROVE SizeOf(D) = TheFold(D)[D]
BY DEF SizeOf, TheFold, MapThenSumSet, MapThenFoldSet

\* Fingerprints have the length of their chunk.
LEMMA Weights ==
    ASSUME NEW x \in Chunk
    PROVE  Preimage(Hash[x]) = x /\ Hash[x] \in Key /\ Len(x) \in Nat
<1>1. \A y \in Chunk : Hash[y] = Hash[x] => y = x BY HashAssumption DEF Chunk
<1>2. Preimage(Hash[x]) = x BY <1>1 DEF Preimage
<1>3. x \in Seq(Byte) BY HashSize
<1> QED BY <1>2, <1>3 DEF Key

\* They are numbers.
LEMMA WeightTypes == ASSUME NEW k \in Key PROVE Weight(k) \in Nat
<1>1. PICK x \in Chunk : k = Hash[x] BY DEF Key
<1> QED BY <1>1, Weights DEF Weight

\* The set without the element that is picked.
LEMMA PickedLess ==
    ASSUME NEW s, IsFiniteSet(s), s # {}
    PROVE  /\ Picked(s) \in s /\ IsFiniteSet(s \ {Picked(s)})
           /\ Cardinality(s \ {Picked(s)}) \in Nat /\ Cardinality(s) \in Nat
           /\ Cardinality(s \ {Picked(s)}) = Cardinality(s) - 1
<1>1. Picked(s) \in s BY DEF Picked
<1> QED BY <1>1, FS_RemoveElement, FS_CardinalityType

\* Folds over a set and a larger one agree.
LEMMA FoldsAgree ==
    ASSUME NEW D, NEW E, D \subseteq E, IsFiniteSet(E), NEW f, NEW g, IsFold(D, f), IsFold(E, g)
    PROVE  \A s \in SUBSET D : f[s] = g[s]
<1> DEFINE T == {n \in Nat : \E s \in SUBSET D : Cardinality(s) = n /\ f[s] # g[s]}
<1>0. \A s \in SUBSET D : IsFiniteSet(s) /\ Cardinality(s) \in Nat /\ s \in SUBSET E
  BY FS_Subset, FS_CardinalityType
<1>a. \A s \in SUBSET D : f[s] = Summand(f, s) BY DEF IsFold
<1>b. \A s \in SUBSET E : g[s] = Summand(g, s) BY DEF IsFold
<1>1. CASE T = {} BY <1>0, <1>1
<1>2. CASE T # {}
  <2>1. PICK n \in T : n \in Nat /\ \A m \in Nat : m < n => m \notin T
    <3>1. T \in SUBSET Nat OBVIOUS
    <3> HIDE DEF T
    <3> QED BY <1>2, <3>1, LeastOf
  <2>2. PICK s \in SUBSET D : Cardinality(s) = n /\ f[s] # g[s] BY <2>1
  <2>3. s # {} BY <1>0, <1>a, <1>b, <2>2 DEF Summand
  <2> DEFINE r == s \ {Picked(s)}
  <2>4. Cardinality(r) \in Nat /\ Cardinality(r) = n - 1 BY <1>0, <2>2, <2>3, PickedLess
  <2>5. r \in SUBSET D OBVIOUS
  <2>6. f[r] = g[r]
    <3>1. Cardinality(r) \notin T
      <4> DEFINE m == Cardinality(r)
      <4>1. m \in Nat /\ m < n BY <2>1, <2>4
      <4> HIDE DEF m, T
      <4>2. m \notin T BY <2>1, <4>1
      <4> QED BY <4>2 DEF m
    <3> QED BY <2>4, <2>5, <3>1
  <2>7. f[s] = Weight(Picked(s)) + f[r] /\ g[s] = Weight(Picked(s)) + g[r]
    BY <1>0, <1>a, <1>b, <2>3 DEF Summand
  <2> QED BY <2>2, <2>6, <2>7
<1> QED BY <1>1, <1>2

\* There is a fold over a finite set of fingerprints.
LEMMA FoldExists ==
    ASSUME NEW D, D \subseteq Key, IsFiniteSet(D)
    PROVE  \E f \in [SUBSET D -> Nat] : IsFold(D, f)
<1> DEFINE Small(n) == {s \in SUBSET D : Cardinality(s) <= n}
           Upto(n, f) == f \in [Small(n) -> Nat] /\ \A s \in Small(n) : f[s] = Summand(f, s)
           T == {n \in Nat : ~ \E f : Upto(n, f)}
<1>0. \A s \in SUBSET D : IsFiniteSet(s) /\ Cardinality(s) \in Nat
  BY FS_Subset, FS_CardinalityType
<1>1. T = {}
  <2>1. SUFFICES ASSUME T # {} PROVE FALSE OBVIOUS
  <2>2. PICK n \in T : n \in Nat /\ \A m \in Nat : m < n => m \notin T
    <3>1. T \in SUBSET Nat OBVIOUS
    <3> HIDE DEF T
    <3> QED BY <2>1, <3>1, LeastOf
  <2>3. CASE n = 0
    <3>1. \A s \in Small(0) : s = {}
      <4> SUFFICES ASSUME NEW s \in Small(0), s # {} PROVE FALSE OBVIOUS
      <4>1. Cardinality(s) = 0 /\ IsFiniteSet(s) BY <1>0
      <4> QED BY <4>1, FS_EmptySet
    <3> DEFINE f == [s \in Small(0) |-> 0]
    <3>2. Upto(0, f) BY <3>1 DEF Summand
    <3> QED BY <2>2, <2>3, <3>2
  <2>4. CASE n # 0
    <3>0. n - 1 \in Nat BY <2>2, <2>4
    <3>1. n - 1 \notin T
      <4> DEFINE m == n - 1
      <4>1. m \in Nat /\ m < n BY <2>2, <3>0
      <4> HIDE DEF m, T
      <4>2. m \notin T BY <2>2, <4>1
      <4> QED BY <4>2 DEF m
    <3>2. PICK f : Upto(n - 1, f) BY <3>0, <3>1
    <3> DEFINE g == [s \in Small(n) |-> Summand(f, s)]
    <3>3. ASSUME NEW s \in Small(n), s # {}
          PROVE  /\ s \ {Picked(s)} \in Small(n - 1) /\ s \ {Picked(s)} \in Small(n)
                 /\ Weight(Picked(s)) \in Nat
      <4>1. IsFiniteSet(s) /\ s \subseteq D /\ Cardinality(s) <= n BY <1>0
      <4>2. /\ Picked(s) \in s /\ Cardinality(s \ {Picked(s)}) \in Nat /\ Cardinality(s) \in Nat
            /\ Cardinality(s \ {Picked(s)}) = Cardinality(s) - 1 BY <3>3, <4>1, PickedLess
      <4>3. Weight(Picked(s)) \in Nat BY <4>1, <4>2, WeightTypes
      <4> QED BY <2>2, <4>1, <4>2, <4>3
    <3>4. ASSUME NEW s \in Small(n) PROVE g[s] = Summand(f, s) /\ g[s] \in Nat
      <4>1. CASE s = {} BY <4>1 DEF Summand
      <4>2. CASE s # {}
        <5>1. f[s \ {Picked(s)}] \in Nat BY <3>2, <3>3, <4>2
        <5>2. Weight(Picked(s)) \in Nat BY <3>3, <4>2
        <5>3. Summand(f, s) = Weight(Picked(s)) + f[s \ {Picked(s)}] BY <4>2 DEF Summand
        <5>4. Summand(f, s) \in Nat BY <5>1, <5>2, <5>3
        <5> QED BY <5>4
      <4> QED BY <4>1, <4>2
    <3>5. ASSUME NEW s \in Small(n - 1) PROVE s \in Small(n) /\ g[s] = f[s]
      <4>1. s \in Small(n) BY <1>0, <2>2
      <4> QED BY <3>2, <3>4, <4>1
    <3>6. ASSUME NEW s \in Small(n) PROVE g[s] = Summand(g, s)
      <4>1. CASE s = {} BY <4>1, <3>4 DEF Summand
      <4>2. CASE s # {}
        <5>1. g[s \ {Picked(s)}] = f[s \ {Picked(s)}] BY <3>3, <3>5, <4>2
        <5> HIDE DEF g
        <5> QED BY <3>4, <4>2, <5>1 DEF Summand
      <4> QED BY <4>1, <4>2
    <3>7. g \in [Small(n) -> Nat] BY <3>4
    <3>8. Upto(n, g)
      <4> HIDE DEF g
      <4> QED BY <3>6, <3>7
    <3> QED BY <2>2, <3>8
  <2> QED BY <2>3, <2>4
<1> DEFINE N == Cardinality(D)
<1>2. N \in Nat /\ N \notin T BY <1>1, FS_CardinalityType
<1>3. PICK f : Upto(N, f) BY <1>2
<1>4. Small(N) = SUBSET D
  <2>1. ASSUME NEW s \in SUBSET D PROVE Cardinality(s) <= N BY FS_Subset
  <2> QED BY <2>1
<1>5. f \in [SUBSET D -> Nat] /\ \A s \in SUBSET D : f[s] = Summand(f, s) BY <1>3, <1>4
<1> HIDE DEF Small, Upto, T, N
<1>6. f = [s \in SUBSET D |-> Summand(f, s)] BY <1>5
<1> QED BY <1>5, <1>6 DEF IsFold

\* It is the one the sum is defined by.
LEMMA TheFoldIs ==
    ASSUME NEW D, D \subseteq Key, IsFiniteSet(D)
    PROVE  IsFold(D, TheFold(D)) /\ \A s \in SUBSET D : TheFold(D)[s] \in Nat
<1>1. PICK f \in [SUBSET D -> Nat] : IsFold(D, f) BY FoldExists
<1>2. TheFold(D) = CHOOSE g : IsFold(D, g)
  BY DEF TheFold, IsFold, Summand, Picked, Weight
<1>3. IsFold(D, TheFold(D)) BY <1>1, <1>2
<1>4. \A s \in SUBSET D : TheFold(D)[s] = f[s] BY <1>1, <1>3, FoldsAgree
<1> QED BY <1>1, <1>3, <1>4

\* A fold adds the elements, whichever it picks first.
LEMMA FoldAdds ==
    ASSUME NEW D, D \subseteq Key, IsFiniteSet(D), NEW f, IsFold(D, f), \A s \in SUBSET D : f[s] \in Nat
    PROVE  \A s \in SUBSET D : \A k \in D \ s : f[s \union {k}] = f[s] + Weight(k)
<1> DEFINE Bad(s, k) == f[s \union {k}] # f[s] + Weight(k)
           T == {n \in Nat : \E s \in SUBSET D : Cardinality(s) = n /\ \E k \in D \ s : Bad(s, k)}
<1>0. \A s \in SUBSET D : IsFiniteSet(s) /\ Cardinality(s) \in Nat
  BY FS_Subset, FS_CardinalityType
<1>a. \A s \in SUBSET D : f[s] = Summand(f, s) BY DEF IsFold
<1>1. CASE T = {} BY <1>0, <1>1
<1>2. CASE T # {}
  <2>1. PICK n \in T : n \in Nat /\ \A m \in Nat : m < n => m \notin T
    <3>1. T \in SUBSET Nat OBVIOUS
    <3> HIDE DEF T
    <3> QED BY <1>2, <3>1, LeastOf
  <2>a. PICK s \in SUBSET D : Cardinality(s) = n /\ \E k \in D \ s : Bad(s, k) BY <2>1
  <2>b. PICK k \in D \ s : Bad(s, k) BY <2>a
  <2>2. Cardinality(s) = n /\ Bad(s, k) BY <2>a, <2>b
  <2> DEFINE u == s \union {k}
             x == Picked(u)
             r == s \ {x}
  <2>3. u \in SUBSET D /\ u # {} /\ x \in u BY DEF Picked
  <2>4. f[u] = Weight(x) + f[u \ {x}] BY <1>a, <2>3 DEF Summand
  <2>5. Weight(x) \in Nat /\ Weight(k) \in Nat BY <2>3, WeightTypes
  <2>6. CASE x = k
    <3>1. u \ {x} = s BY <2>6
    <3>2. f[s] \in Nat OBVIOUS
    <3>3. f[u] = Weight(k) + f[s] BY <2>4, <2>6, <3>1
    <3>4. f[u] = f[s] + Weight(k) BY <2>5, <3>2, <3>3
    <3> QED BY <2>2, <3>4
  <2>7. CASE x # k
    <3> HIDE DEF x
    <3>1. x \in s /\ u \ {x} = r \union {k} /\ k \in D \ r /\ x \in D \ r
          /\ r \union {x} = s /\ r \in SUBSET D
      BY <2>3, <2>7
    <3>2. Cardinality(r) \in Nat /\ Cardinality(r) = n - 1
      BY <1>0, <2>2, <3>1, FS_RemoveElement
    <3>3. Cardinality(r) \notin T
      <4> DEFINE m == Cardinality(r)
      <4>1. m \in Nat /\ m < n BY <2>1, <3>2
      <4> HIDE DEF m, T
      <4>2. m \notin T BY <2>1, <4>1
      <4> QED BY <4>2 DEF m
    <3>4. ~ Bad(r, k) /\ ~ Bad(r, x) BY <3>1, <3>2, <3>3
    <3>5. f[r \union {k}] = f[r] + Weight(k) /\ f[s] = f[r] + Weight(x) BY <3>1, <3>4
    <3>6. f[r] \in Nat BY <3>1
    <3>7. f[u] = Weight(x) + (f[r] + Weight(k)) BY <2>4, <3>1, <3>5
    <3> DEFINE a == f[r]
               b == Weight(x)
               d == Weight(k)
    <3>8. a \in Nat /\ b \in Nat /\ d \in Nat BY <2>5, <3>6
    <3>9. b + (a + d) = (a + b) + d
      <4> HIDE DEF a, b, d
      <4> QED BY <3>8
    <3> QED BY <2>2, <3>5, <3>7, <3>9
  <2> QED BY <2>6, <2>7
<1> QED BY <1>1, <1>2

\* The size of a set of fingerprints, and of one more.
LEMMA Sizes ==
    ASSUME NEW D, D \subseteq Key, IsFiniteSet(D)
    PROVE  /\ SizeOf(D) \in Nat
           /\ \A k \in Key \ D : SizeOf(D \union {k}) = SizeOf(D) + Weight(k)
<1>1. IsFold(D, TheFold(D)) /\ TheFold(D)[D] \in Nat BY TheFoldIs
<1>2. ASSUME NEW k \in Key \ D PROVE SizeOf(D \union {k}) = SizeOf(D) + Weight(k)
  <2> DEFINE E == D \union {k}
             g == TheFold(E)
  <2>1. E \subseteq Key /\ IsFiniteSet(E) /\ D \in SUBSET E /\ k \in E \ D BY FS_AddElement
  <2>2. IsFold(E, g) /\ \A s \in SUBSET E : g[s] \in Nat BY <2>1, TheFoldIs
  <2> HIDE DEF g
  <2>3. g[D \union {k}] = g[D] + Weight(k) BY <2>1, <2>2, FoldAdds
  <2>4. D \subseteq E /\ D \in SUBSET D OBVIOUS
  <2>5. PICK f : f = TheFold(D) OBVIOUS
  <2>6. IsFold(D, f) BY <1>1, <2>5
  <2> HIDE DEF E
  <2>7. f[D] = g[D] BY <2>1, <2>2, <2>4, <2>6, FoldsAgree
  <2> QED BY <2>3, <2>5, <2>7, SizeIsFold DEF E, g
<1> QED BY <1>1, <1>2, SizeIsFold

\* Nothing has size 0.
LEMMA NoSize == SizeOf({}) = 0
<1>1. IsFiniteSet({}) BY FS_EmptySet
<1>2. IsFold({}, TheFold({})) BY <1>1, TheFoldIs
<1>3. TheFold({})[{}] = 0 BY <1>2 DEF IsFold, Summand
<1> QED BY <1>3, SizeIsFold

-----------------------------------------------------------------------------
(* What the counters are.                                                  *)

\* The number of entries f has, and the bytes of the chunks they are found under.
Num(f) == Cardinality(DOMAIN f)
Size(f) == SizeOf(DOMAIN f \intersect Key)

\* The counters n and z of stored chunks are those of the entries f, or not ahead of them.
Counted(n, z, f) == n = Num(f) /\ z = Size(f)
NotAhead(n, z, f) == n <= Num(f) /\ z <= Size(f)

\* The save file has everything that was saved.
SavedInv ==
    backend = "IN_MEMORY" /\ ~ torn /\ phase # "records" =>
        Len(dbFile) = Ends(Len(written)) /\ Saved(Len(written)) = DOMAIN durable

\* The counters of stored chunks: while the server is up they are those of its entries, the
\* file of the counters has those of the entries that were saved with it.
UniqueInv ==
    /\ IsFiniteSet(DOMAIN indexObj)
    /\ backend = "IN_MEMORY" /\ ~ torn =>
        /\ phase \in {"up", "savestat", "stat", "savedb", "records"} =>
              Counted(stat["uniqueChunkNum"], stat["uniqueDataSize"], indexObj)
        /\ phase \in {"savedb", "records"} => Counted(Loaded(4), Loaded(3), indexObj)
        /\ phase \in {"down", "load", "loadstat", "up", "savestat"} => Counted(Loaded(4), Loaded(3), durable)
    /\ backend = "LEVEL_DB" =>
        /\ NotAhead(stat["uniqueChunkNum"], stat["uniqueDataSize"], indexObj)
        /\ NotAhead(Loaded(4), Loaded(3), indexObj)

\* The logical counters: a session has loaded what is not ahead, and exactly the counter if
\* no other was between its load and its store.
LogicalInv ==
    /\ phase # "up" => Joined
    /\ \A i \in 1 .. 2 : stat[Counter[i]] <= due[Counter[i]] /\ Loaded(i) <= due[Counter[i]]
    /\ \A s \in Session : /\ pc[s] = "size" => reg[s] <= due["logicalDataSize"]
                          /\ pc[s] = "num" => reg[s] <= due["logicalChunkNum"]
    /\ exact =>
        /\ phase \in {"up", "savestat", "stat", "savedb", "records"} =>
              \A i \in 1 .. 2 : stat[Counter[i]] = due[Counter[i]]
        /\ phase \in {"savedb", "records", "down", "load", "loadstat"} =>
              \A i \in 1 .. 2 : Loaded(i) = due[Counter[i]]
        /\ \A s \in Session :
              /\ pc[s] = "size" => /\ reg[s] = stat["logicalDataSize"]
                                   /\ \A t \in Session \ {s} : pc[t] # "size"
              /\ pc[s] = "num" => /\ reg[s] = stat["logicalChunkNum"]
                                  /\ \A t \in Session \ {s} : pc[t] # "num"

\* What is always true of the counters.
CounterInv == SavedInv /\ UniqueInv /\ LogicalInv

-----------------------------------------------------------------------------
(* The counters and their file.                                            *)

\* A counter is a number, in memory and in the file.
LEMMA CounterTypes ==
    ASSUME Types
    PROVE  /\ \A i \in 1 .. 5 : Loaded(i) \in Nat /\ stat[Counter[i]] \in Nat /\ due[Counter[i]] \in Nat
           /\ Counter[1] = "logicalDataSize" /\ Counter[2] = "logicalChunkNum"
           /\ Counter[3] = "uniqueDataSize" /\ Counter[4] = "uniqueChunkNum"
           /\ \A i, j \in 1 .. 5 : Counter[i] = Counter[j] => i = j
<1>1. ASSUME NEW i \in 1 .. 5 PROVE Loaded(i) \in Nat
  <2>1. CASE i <= Len(statFile)
    <3>1. statFile \in Seq(Nat) BY DEF Types
    <3>2. i \in 1 .. Len(statFile) BY <2>1, <3>1
    <3>3. statFile[i] \in Nat BY <3>1, <3>2
    <3> QED BY <2>1, <3>3 DEF Loaded
  <2>2. CASE ~ (i <= Len(statFile)) BY <2>2 DEF Loaded
  <2> QED BY <2>1, <2>2
<1>2. \A i \in 1 .. 5 : stat[Counter[i]] \in Nat /\ due[Counter[i]] \in Nat BY CounterNames DEF Types
<1>3. /\ Counter[1] = "logicalDataSize" /\ Counter[2] = "logicalChunkNum"
      /\ Counter[3] = "uniqueDataSize" /\ Counter[4] = "uniqueChunkNum" /\ Counter[5] = "compressedDataSize"
  BY DEF Counter
<1>4. \A i, j \in 1 .. 5 : Counter[i] = Counter[j] => i = j
  <2> HIDE DEF Counter
  <2> QED BY <1>3
<1> QED BY <1>1, <1>2, <1>3, <1>4

\* AbsIndex takes every counter from the file.
LEMMA StatLoaded == ASSUME Types, LoadStat PROVE \A i \in 1 .. 5 : stat'[Counter[i]] = Loaded(i)
<1> TAKE i \in 1 .. 5
<1>1. Counter[i] \in DOMAIN stat /\ DOMAIN Counter = 1 .. 5 BY CounterNames DEF Types
<1>2. stat'[Counter[i]] = Loaded(CHOOSE j \in DOMAIN Counter : Counter[j] = Counter[i]) BY <1>1 DEF LoadStat
<1>3. (CHOOSE j \in DOMAIN Counter : Counter[j] = Counter[i]) = i BY <1>1, CounterTypes
<1> QED BY <1>2, <1>3

\* It writes every counter to the file, which was empty.
LEMMA StatWritten ==
    ASSUME Types, StatInv, WriteStat
    PROVE  \A i \in 1 .. 5 : Loaded(i)' = stat[Counter[i]]
<1> DEFINE new == [i \in DOMAIN Counter |-> stat[Counter[i]]]
<1>1. statFile = << >> BY DEF StatInv, WriteStat
<1>2. DOMAIN Counter = 1 .. 5 /\ \A i \in 1 .. 5 : stat[Counter[i]] \in Nat BY CounterNames, CounterTypes
<1>3. new \in Seq(Nat) /\ Len(new) = 5 BY <1>2
<1>4. statFile' = new
  <2>1. statFile' = << >> \o new BY <1>1 DEF WriteStat
  <2> HIDE DEF new
  <2> QED BY <1>3, <2>1
<1> TAKE i \in 1 .. 5
<1>5. new[i] = stat[Counter[i]] BY <1>2
<1> HIDE DEF new
<1>6. Len(statFile') = 5 /\ statFile'[i] = new[i] /\ i <= 5 BY <1>3, <1>4
<1>7. Loaded(i)' = new[i] BY <1>6 DEF Loaded
<1> QED BY <1>5, <1>7

\* A crash leaves the file, or some of the counters in it.
LEMMA StatCrashed ==
    ASSUME Types, Crash
    PROVE  \A i \in 1 .. 5 : /\ phase # "stat" => Loaded(i)' = Loaded(i)
                             /\ Loaded(i)' \in {Loaded(i), 0, stat[Counter[i]]}
<1>1. CASE phase # "stat"
  <2>1. statFile' = statFile BY <1>1 DEF Crash
  <2> QED BY <1>1, <2>1 DEF Loaded
<1>2. CASE phase = "stat"
  <2>1. PICK n \in 0 .. Len(Counter) : statFile' = [i \in 1 .. n |-> stat[Counter[i]]] BY <1>2 DEF Crash
  <2>2. n \in Nat BY <2>1, CounterNames
  <2>3. Len(statFile') = n BY <2>1, <2>2
  <2>4. ASSUME NEW i \in 1 .. 5 PROVE Loaded(i)' \in {0, stat[Counter[i]]}
    <3>1. CASE i <= n
      <4>1. Loaded(i)' = statFile'[i] BY <2>3, <3>1 DEF Loaded
      <4>2. statFile'[i] = stat[Counter[i]] BY <2>1, <2>2, <3>1
      <4> QED BY <4>1, <4>2
    <3>2. CASE ~ (i <= n) BY <2>3, <3>2 DEF Loaded
    <3> QED BY <3>1, <3>2
  <2> QED BY <1>2, <2>4
<1> QED BY <1>1, <1>2

\* An object that was deleted counts nothing.
LEMMA ZeroStats == \A i \in 1 .. 5 : ZeroStat[Counter[i]] = 0
<1>1. \A i \in 1 .. 5 : Counter[i] \in DOMAIN ZeroStat BY CounterNames
<1> QED BY <1>1 DEF ZeroStat

-----------------------------------------------------------------------------
(* The logical counters.                                                   *)

LEMMA LogicalInitially == Init => LogicalInv
<1> SUFFICES ASSUME Init PROVE LogicalInv OBVIOUS
<1>1. Types BY TypesInitially
<1>2. \A i \in 1 .. 5 : Loaded(i) = 0 BY DEF Init, Loaded
<1>3. \A i \in 1 .. 2 : stat[Counter[i]] = 0 /\ due[Counter[i]] = 0 BY ZeroStats DEF Init
<1>4. \A s \in Session : pc[s] = "idle" BY DEF Init
<1>5. phase = "down" BY DEF Init
<1> QED BY <1>2, <1>3, <1>4, <1>5 DEF LogicalInv, Joined

\* A session loads counter i, from where it was at from.
LEMMA LogicalLoad ==
    ASSUME Types, LogicalInv, NEW s \in Session, NEW i \in 1 .. 2, NEW from, NEW to, NEW counter,
           counter = Counter[i], (i = 1 /\ to = "size") \/ (i = 2 /\ to = "num"),
           AddLoad(s, from, to, counter)
    PROVE  LogicalInv'
<1>1. /\ phase = "up" /\ phase' = phase /\ UNCHANGED <<stat, statFile, due>>
      /\ reg' = [reg EXCEPT ![s] = stat[counter]] /\ pc' = [pc EXCEPT ![s] = to]
      /\ exact' = (exact /\ \A t \in Session \ {s} : pc[t] # to)
  BY DEF AddLoad, Move, processVars
<1>2. DOMAIN pc = Session /\ DOMAIN reg = Session /\ (\A t \in Session : reg[t] \in Nat) BY DEF Types
<1>3. /\ Counter[1] = "logicalDataSize" /\ Counter[2] = "logicalChunkNum" BY CounterTypes
<1>4. \A t \in Session \ {s} : pc'[t] = pc[t] /\ reg'[t] = reg[t] BY <1>1, <1>2
<1>5. pc'[s] = to /\ reg'[s] = stat[counter] BY <1>1, <1>2
<1>6. \A j : Loaded(j)' = Loaded(j) BY <1>1 DEF Loaded
<1>7. \A j \in 1 .. 2 : stat[Counter[j]] <= due[Counter[j]] /\ Loaded(j) <= due[Counter[j]] BY DEF LogicalInv
<1>8. ASSUME NEW t \in Session
      PROVE  /\ pc'[t] = "size" => reg'[t] <= due["logicalDataSize"]
             /\ pc'[t] = "num" => reg'[t] <= due["logicalChunkNum"]
  <2>1. CASE t = s BY <1>3, <1>5, <1>7, <2>1
  <2>2. CASE t # s BY <1>4, <2>2 DEF LogicalInv
  <2> QED BY <2>1, <2>2
<1>9. ASSUME exact', NEW t \in Session
      PROVE  /\ pc'[t] = "size" => /\ reg'[t] = stat["logicalDataSize"]
                                   /\ \A u \in Session \ {t} : pc'[u] # "size"
             /\ pc'[t] = "num" => /\ reg'[t] = stat["logicalChunkNum"]
                                  /\ \A u \in Session \ {t} : pc'[u] # "num"
  <2>1. exact /\ \A u \in Session \ {s} : pc[u] # to BY <1>1, <1>9
  <2>2. CASE t = s BY <1>3, <1>4, <1>5, <2>1, <2>2
  <2>3. CASE t # s
    <3>1. pc[t] # to /\ pc'[t] = pc[t] /\ reg'[t] = reg[t] BY <1>4, <2>1, <2>3
    <3>2. /\ pc[t] = "size" => reg[t] = stat["logicalDataSize"] /\ \A u \in Session \ {t} : pc[u] # "size"
          /\ pc[t] = "num" => reg[t] = stat["logicalChunkNum"] /\ \A u \in Session \ {t} : pc[u] # "num"
      BY <2>1 DEF LogicalInv
    <3>3. \A u \in Session : pc'[u] = pc[u] \/ pc'[u] = to BY <1>4, <1>5
    <3> QED BY <3>1, <3>2, <3>3
  <2> QED BY <2>2, <2>3
<1>10. exact' => exact BY <1>1
<1> QED BY <1>1, <1>6, <1>7, <1>8, <1>9, <1>10 DEF LogicalInv

\* A session stores counter i.
LEMMA LogicalStore ==
    ASSUME Types, LogicalInv, NEW s \in Session, NEW i \in 1 .. 2, NEW from, NEW to, NEW counter,
           NEW n \in Nat,
           counter = Counter[i], (i = 1 /\ from = "size") \/ (i = 2 /\ from = "num"),
           to \in {"between", "batch"}, AddStore(s, from, to, counter, n)
    PROVE  LogicalInv'
<1>1. /\ phase = "up" /\ phase' = phase /\ pc[s] = from /\ UNCHANGED <<statFile, exact>>
      /\ reg' = [reg EXCEPT ![s] = 0] /\ pc' = [pc EXCEPT ![s] = to]
      /\ stat' = [stat EXCEPT ![counter] = reg[s] + n]
      /\ due' = [due EXCEPT ![counter] = due[counter] + n]
  BY DEF AddStore, Move, processVars
<1>2. /\ DOMAIN pc = Session /\ DOMAIN reg = Session /\ (\A t \in Session : reg[t] \in Nat)
      /\ stat \in [DOMAIN ZeroStat -> Nat] /\ due \in [DOMAIN ZeroStat -> Nat] BY DEF Types
<1>3. /\ Counter[1] = "logicalDataSize" /\ Counter[2] = "logicalChunkNum"
      /\ "logicalDataSize" \in DOMAIN ZeroStat /\ "logicalChunkNum" \in DOMAIN ZeroStat
  BY CounterTypes, CounterNames
<1>4. \A t \in Session \ {s} : pc'[t] = pc[t] /\ reg'[t] = reg[t] BY <1>1, <1>2
<1>5. pc'[s] = to BY <1>1, <1>2
<1>6. \A j : Loaded(j)' = Loaded(j) BY <1>1 DEF Loaded
<1>7. /\ stat'[counter] = reg[s] + n /\ due'[counter] = due[counter] + n
      /\ \A j \in 1 .. 2 : j # i => stat'[Counter[j]] = stat[Counter[j]] /\ due'[Counter[j]] = due[Counter[j]]
  <2>1. counter \in DOMAIN ZeroStat /\ \A j \in 1 .. 2 : j # i => Counter[j] # counter BY <1>3
  <2> QED BY <1>1, <1>2, <2>1
<1>8. reg[s] <= due[counter] BY <1>1, <1>3 DEF LogicalInv
<1>9. \A j \in 1 .. 2 : /\ stat[Counter[j]] <= due[Counter[j]] /\ Loaded(j) <= due[Counter[j]]
                        /\ Loaded(j) \in Nat /\ due[Counter[j]] \in Nat /\ stat[Counter[j]] \in Nat
  BY CounterTypes DEF LogicalInv
<1>10. ASSUME NEW j \in 1 .. 2
       PROVE  /\ stat'[Counter[j]] <= due'[Counter[j]] /\ Loaded(j) <= due'[Counter[j]]
              /\ due[Counter[j]] <= due'[Counter[j]]
  <2>0. reg[s] \in Nat BY <1>2
  <2>1. CASE j = i BY <1>7, <1>8, <1>9, <2>0, <2>1
  <2>2. CASE j # i BY <1>7, <1>9, <2>2
  <2> QED BY <2>1, <2>2
<1>11. ASSUME NEW t \in Session
       PROVE  /\ pc'[t] = "size" => reg'[t] <= due'["logicalDataSize"]
              /\ pc'[t] = "num" => reg'[t] <= due'["logicalChunkNum"]
  <2>1. CASE t = s BY <1>5, <2>1
  <2>2. CASE t # s
    <3>1. pc'[t] = pc[t] /\ reg'[t] = reg[t] /\ reg[t] \in Nat BY <1>2, <1>4, <2>2
    <3>2. /\ due["logicalDataSize"] <= due'["logicalDataSize"] /\ due["logicalChunkNum"] <= due'["logicalChunkNum"]
          /\ due["logicalDataSize"] \in Nat /\ due["logicalChunkNum"] \in Nat
          /\ due'["logicalDataSize"] \in Nat /\ due'["logicalChunkNum"] \in Nat
      <4>1. \A j \in 1 .. 2 : due[Counter[j]] \in Nat /\ due'[Counter[j]] \in Nat /\ due[Counter[j]] <= due'[Counter[j]]
        BY <1>7, <1>9, <1>10
      <4> QED BY <1>3, <4>1
    <3>3. /\ pc[t] = "size" => reg[t] <= due["logicalDataSize"]
          /\ pc[t] = "num" => reg[t] <= due["logicalChunkNum"] BY DEF LogicalInv
    <3> QED BY <3>1, <3>2, <3>3
  <2> QED BY <2>1, <2>2
<1>12. ASSUME exact
       PROVE  /\ \A j \in 1 .. 2 : stat'[Counter[j]] = due'[Counter[j]]
              /\ \A t \in Session :
                   /\ pc'[t] = "size" => /\ reg'[t] = stat'["logicalDataSize"]
                                         /\ \A u \in Session \ {t} : pc'[u] # "size"
                   /\ pc'[t] = "num" => /\ reg'[t] = stat'["logicalChunkNum"]
                                        /\ \A u \in Session \ {t} : pc'[u] # "num"
  <2>1. \A j \in 1 .. 2 : stat[Counter[j]] = due[Counter[j]] BY <1>1, <1>12 DEF LogicalInv
  <2>2. reg[s] = stat[counter] BY <1>1, <1>3, <1>12 DEF LogicalInv
  <2>3. \A j \in 1 .. 2 : stat'[Counter[j]] = due'[Counter[j]] BY <1>7, <2>1, <2>2
  <2>4. ASSUME NEW t \in Session
        PROVE  /\ pc'[t] = "size" => /\ reg'[t] = stat'["logicalDataSize"]
                                     /\ \A u \in Session \ {t} : pc'[u] # "size"
               /\ pc'[t] = "num" => /\ reg'[t] = stat'["logicalChunkNum"]
                                    /\ \A u \in Session \ {t} : pc'[u] # "num"
    <3>1. CASE t = s BY <1>5, <3>1
    <3>2. CASE t # s
      <4>1. pc'[t] = pc[t] /\ reg'[t] = reg[t] BY <1>4, <3>2
      <4>2. /\ pc[t] = "size" => reg[t] = stat["logicalDataSize"] /\ \A u \in Session \ {t} : pc[u] # "size"
            /\ pc[t] = "num" => reg[t] = stat["logicalChunkNum"] /\ \A u \in Session \ {t} : pc[u] # "num"
        BY <1>12 DEF LogicalInv
      <4>3. pc[t] # from BY <1>1, <3>2, <4>2
      <4>4. \A u \in Session : pc'[u] = pc[u] \/ pc'[u] = to BY <1>4, <1>5
      <4>5. /\ pc[t] = "size" => stat'["logicalDataSize"] = stat["logicalDataSize"]
            /\ pc[t] = "num" => stat'["logicalChunkNum"] = stat["logicalChunkNum"]
        BY <1>3, <1>7, <4>3
      <4> QED BY <4>1, <4>2, <4>4, <4>5
    <3> QED BY <3>1, <3>2
  <2> QED BY <2>3, <2>4
<1>13. phase' = "up" BY <1>1
<1> QED BY <1>1, <1>6, <1>10, <1>11, <1>12, <1>13 DEF LogicalInv

\* Steps that leave the logical counters and what sessions have loaded of them.
LEMMA LogicalQuiet ==
    ASSUME Types, LogicalInv, phase = "up", phase' = "up", UNCHANGED <<statFile, due, exact, reg>>,
           \A i \in 1 .. 2 : stat'[Counter[i]] = stat[Counter[i]],
           \A s \in Session : pc'[s] = pc[s] \/ pc'[s] \notin {"size", "num"}
    PROVE  LogicalInv'
<1>1. \A j : Loaded(j)' = Loaded(j) BY DEF Loaded
<1>2. /\ stat'["logicalDataSize"] = stat["logicalDataSize"]
      /\ stat'["logicalChunkNum"] = stat["logicalChunkNum"] BY CounterTypes
<1>3. ASSUME NEW t \in Session
      PROVE  /\ pc'[t] = "size" => reg'[t] <= due'["logicalDataSize"]
             /\ pc'[t] = "num" => reg'[t] <= due'["logicalChunkNum"]
  BY DEF LogicalInv
<1>4. ASSUME exact', NEW t \in Session
      PROVE  /\ pc'[t] = "size" => /\ reg'[t] = stat'["logicalDataSize"]
                                   /\ \A u \in Session \ {t} : pc'[u] # "size"
             /\ pc'[t] = "num" => /\ reg'[t] = stat'["logicalChunkNum"]
                                  /\ \A u \in Session \ {t} : pc'[u] # "num"
  <2>1. /\ pc[t] = "size" => reg[t] = stat["logicalDataSize"] /\ \A u \in Session \ {t} : pc[u] # "size"
        /\ pc[t] = "num" => reg[t] = stat["logicalChunkNum"] /\ \A u \in Session \ {t} : pc[u] # "num"
    BY <1>4 DEF LogicalInv
  <2> QED BY <1>2, <2>1
<1> QED BY <1>1, <1>3, <1>4 DEF LogicalInv

\* Steps of the process, with no session between a load and a store.
LEMMA LogicalAtRest ==
    ASSUME Types, LogicalInv, Joined, UNCHANGED <<due, exact, pc>>,
           \A i \in 1 .. 2 : /\ stat'[Counter[i]] \in {stat[Counter[i]], Loaded(i), 0}
                             /\ Loaded(i)' \in {stat[Counter[i]], Loaded(i), 0},
           exact /\ phase' \in {"up", "savestat", "stat", "savedb", "records"} =>
              \A i \in 1 .. 2 : stat'[Counter[i]] = due[Counter[i]],
           exact /\ phase' \in {"savedb", "records", "down", "load", "loadstat"} =>
              \A i \in 1 .. 2 : Loaded(i)' = due[Counter[i]]
    PROVE  LogicalInv'
<1>1. \A s \in Session : pc'[s] \notin {"size", "num"} BY DEF Joined
<1>2. \A i \in 1 .. 2 : /\ stat[Counter[i]] <= due[Counter[i]] /\ Loaded(i) <= due[Counter[i]]
                        /\ 0 <= due[Counter[i]]
  BY CounterTypes DEF LogicalInv
<1>3. \A i \in 1 .. 2 : stat'[Counter[i]] <= due'[Counter[i]] /\ Loaded(i)' <= due'[Counter[i]] BY <1>2
<1>4. Joined' BY DEF Joined
<1> QED BY <1>1, <1>3, <1>4 DEF LogicalInv

\* The logical counters, step by step.
LEMMA LogicalStep == ASSUME Types, StatInv, LogicalInv, [Next]_vars PROVE LogicalInv'
<1>0. \A i \in 1 .. 2 : i \in 1 .. 5 OBVIOUS
<1>a. phase # "up" => Joined BY DEF LogicalInv
<1>b. exact =>
        /\ phase \in {"up", "savestat", "stat", "savedb", "records"} =>
              \A i \in 1 .. 2 : stat[Counter[i]] = due[Counter[i]]
        /\ phase \in {"savedb", "records", "down", "load", "loadstat"} =>
              \A i \in 1 .. 2 : Loaded(i) = due[Counter[i]]
  BY DEF LogicalInv
<1>c. /\ Counter[1] = "logicalDataSize" /\ Counter[2] = "logicalChunkNum" BY CounterTypes
<1>d. ASSUME NEW s \in Session PROVE FileSize[s] \in Nat /\ ChunkNum[s] \in Nat BY CountAssumption
<1>1. ASSUME NEW s \in Session, AddLogicalSize(s) PROVE LogicalInv'
  <2>0. PICK i \in 1 .. 2 : i = 1 OBVIOUS
  <2>a. "logicalDataSize" = Counter[i] BY <1>c, <2>0, Zenon
  <2>b. (i = 1 /\ "size" = "size") \/ (i = 2 /\ "size" = "num") BY <2>0, Zenon
  <2>1. CASE AddLoad(s, "idle", "size", "logicalDataSize") BY <2>a, <2>b, <2>1, LogicalLoad
  <2>2. CASE AddStore(s, "size", "between", "logicalDataSize", FileSize[s])
    BY <1>d, <2>a, <2>b, <2>2, LogicalStore
  <2> QED BY <1>1, <2>1, <2>2 DEF AddLogicalSize
<1>2. ASSUME NEW s \in Session, AddLogicalNum(s) PROVE LogicalInv'
  <2>0. PICK i \in 1 .. 2 : i = 2 OBVIOUS
  <2>a. "logicalChunkNum" = Counter[i] BY <1>c, <2>0, Zenon
  <2>b. (i = 1 /\ "num" = "size") \/ (i = 2 /\ "num" = "num") BY <2>0, Zenon
  <2>1. CASE AddLoad(s, "between", "num", "logicalChunkNum") BY <2>a, <2>b, <2>1, LogicalLoad
  <2>2. CASE AddStore(s, "num", "batch", "logicalChunkNum", ChunkNum[s])
    BY <1>d, <2>a, <2>b, <2>2, LogicalStore
  <2> QED BY <1>2, <2>1, <2>2 DEF AddLogicalNum
<1>3. ASSUME NEW s \in Session, GenerateHash(s) \/ NewChunk(s) \/ KnownChunk(s) \/ EndSession(s)
      PROVE  LogicalInv'
  <2>1. PICK to \in {"update", "final", "hashed", "batch", "ended"} : pc' = [pc EXCEPT ![s] = to]
    BY <1>3 DEF GenerateHash, HashInit, HashUpdate, HashFinal, NewChunk, KnownChunk, EndSession, NextEntry, Move
  <2>2. phase = "up" /\ phase' = "up" /\ UNCHANGED <<statFile, due, exact, reg>>
    BY <1>3 DEF GenerateHash, HashInit, HashUpdate, HashFinal, NewChunk, KnownChunk, EndSession, processVars,
                statVars
  <2>3. DOMAIN pc = Session BY DEF Types
  <2>4. \A t \in Session : pc'[t] = pc[t] \/ pc'[t] \notin {"size", "num"} BY <2>1, <2>3
  <2>5. \A i \in 1 .. 2 : stat'[Counter[i]] = stat[Counter[i]]
    <3>1. CASE NewChunk(s)
      <4>1. stat' = [stat EXCEPT !["uniqueChunkNum"] = @ + 1, !["uniqueDataSize"] = @ + Len(chunk[s])]
        BY <3>1 DEF NewChunk
      <4>2. stat \in [DOMAIN ZeroStat -> Nat] BY DEF Types
      <4>3. \A x \in DOMAIN ZeroStat : x \notin {"uniqueChunkNum", "uniqueDataSize"} => stat'[x] = stat[x]
        BY <4>1, <4>2
      <4>4. "logicalDataSize" \in DOMAIN ZeroStat /\ "logicalChunkNum" \in DOMAIN ZeroStat BY CounterNames
      <4>5. /\ stat'["logicalDataSize"] = stat["logicalDataSize"]
            /\ stat'["logicalChunkNum"] = stat["logicalChunkNum"] BY <4>3, <4>4
      <4> QED BY <1>c, <4>5
    <3>2. CASE ~ NewChunk(s)
      <4>1. stat' = stat
        BY <1>3, <3>2 DEF GenerateHash, HashInit, HashUpdate, HashFinal, KnownChunk, EndSession, statVars
      <4> QED BY <4>1
    <3> QED BY <3>1, <3>2
  <2> QED BY <2>2, <2>4, <2>5, LogicalQuiet
<1>4. ASSUME \/ OpenDB \/ LoadRecord \/ LoadEnd \/ Close \/ TruncDB \/ \E k \in DOMAIN indexObj : SaveRecord(k)
      PROVE  LogicalInv'
  <2>1. UNCHANGED <<stat, statFile, due, exact, pc>>
    BY <1>4 DEF OpenDB, LoadRecord, LoadEnd, Close, TruncDB, SaveRecord, statVars, sessionVars
  <2>2. \A i \in 1 .. 2 : Loaded(i)' = Loaded(i) BY <2>1 DEF Loaded
  <2>3. Joined BY <1>4, <1>a DEF OpenDB, LoadRecord, LoadEnd, Close, TruncDB, SaveRecord
  <2>4. \/ phase \in {"down", "load"} /\ phase' \in {"load", "loadstat"}
        \/ phase = "up" /\ phase' = "savestat"
        \/ phase \in {"savedb", "records"} /\ phase' = "records"
    BY <1>4 DEF OpenDB, LoadRecord, LoadEnd, Close, TruncDB, SaveRecord, processVars
  <2>5. exact /\ phase' \in {"up", "savestat", "stat", "savedb", "records"} =>
          \A i \in 1 .. 2 : stat'[Counter[i]] = due[Counter[i]] BY <1>b, <2>1, <2>4
  <2>6. exact /\ phase' \in {"savedb", "records", "down", "load", "loadstat"} =>
          \A i \in 1 .. 2 : Loaded(i)' = due[Counter[i]] BY <1>b, <2>2, <2>4
  <2>7. \A i \in 1 .. 2 : stat'[Counter[i]] = stat[Counter[i]] BY <2>1
  <2> QED BY <2>1, <2>2, <2>3, <2>5, <2>6, <2>7, LogicalAtRest
<1>5. ASSUME LoadStat PROVE LogicalInv'
  <2>1. phase = "loadstat" /\ phase' = "up" /\ UNCHANGED <<statFile, due, exact, pc>> BY <1>5 DEF LoadStat, sessionVars
  <2>2. \A i \in 1 .. 2 : Loaded(i)' = Loaded(i) BY <2>1 DEF Loaded
  <2>3. \A i \in 1 .. 2 : stat'[Counter[i]] = Loaded(i) BY <1>0, <1>5, StatLoaded
  <2> QED BY <1>a, <1>b, <2>1, <2>2, <2>3, LogicalAtRest
<1>6. ASSUME TruncStat PROVE LogicalInv'
  <2>1. phase = "savestat" /\ phase' = "stat" /\ UNCHANGED <<stat, due, exact, pc>> /\ statFile' = << >>
    BY <1>6 DEF TruncStat, sessionVars
  <2>2. \A i \in 1 .. 2 : Loaded(i)' = 0 BY <2>1 DEF Loaded
  <2> QED BY <1>a, <1>b, <2>1, <2>2, LogicalAtRest
<1>7. ASSUME WriteStat PROVE LogicalInv'
  <2>1. phase = "stat" /\ phase' = "savedb" /\ UNCHANGED <<stat, due, exact, pc>> BY <1>7 DEF WriteStat, sessionVars
  <2>2. \A i \in 1 .. 2 : Loaded(i)' = stat[Counter[i]] BY <1>0, <1>7, StatWritten
  <2> QED BY <1>a, <1>b, <2>1, <2>2, LogicalAtRest
<1>8. ASSUME CloseDB PROVE LogicalInv'
  <2>1. /\ phase \in {"records", "savedb"} /\ phase' = "down" /\ UNCHANGED <<statFile, due, exact, pc>>
        /\ stat' = ZeroStat
    BY <1>8 DEF CloseDB, sessionVars
  <2>2. \A i \in 1 .. 2 : Loaded(i)' = Loaded(i) BY <2>1 DEF Loaded
  <2>3. \A i \in 1 .. 2 : stat'[Counter[i]] = 0 BY <1>0, <2>1, ZeroStats
  <2> QED BY <1>a, <1>b, <2>1, <2>2, <2>3, LogicalAtRest
<1>9. ASSUME Crash PROVE LogicalInv'
  <2>1. phase' = "down" /\ stat' = ZeroStat /\ exact' = FALSE /\ due' = due BY <1>9 DEF Crash
  <2>2. \A s \in Session : pc'[s] \in {"idle", "ended"} BY <1>9 DEF Crash
  <2>3. \A i \in 1 .. 2 : stat'[Counter[i]] = 0 BY <1>0, <2>1, ZeroStats
  <2>4. \A i \in 1 .. 2 : Loaded(i)' \in {Loaded(i), 0, stat[Counter[i]]} BY <1>0, <1>9, StatCrashed
  <2>5. \A i \in 1 .. 2 : /\ stat[Counter[i]] <= due[Counter[i]] /\ Loaded(i) <= due[Counter[i]]
                          /\ 0 <= due[Counter[i]]
    BY CounterTypes DEF LogicalInv
  <2>6. \A i \in 1 .. 2 : stat'[Counter[i]] <= due'[Counter[i]] /\ Loaded(i)' <= due'[Counter[i]]
    BY <2>1, <2>3, <2>4, <2>5
  <2>7. Joined' BY <2>2 DEF Joined
  <2> QED BY <2>1, <2>2, <2>6, <2>7 DEF LogicalInv
<1>10. ASSUME UNCHANGED vars PROVE LogicalInv'
  <2>1. UNCHANGED <<phase, stat, statFile, due, exact, pc, reg>>
    BY <1>10 DEF vars, processVars, statVars, sessionVars
  <2>2. \A j : Loaded(j)' = Loaded(j) BY <2>1 DEF Loaded
  <2>3. Joined' = Joined BY <2>1 DEF Joined
  <2> QED BY <2>1, <2>2, <2>3 DEF LogicalInv
<1> QED
  BY <1>1, <1>2, <1>3, <1>4, <1>5, <1>6, <1>7, <1>8, <1>9, <1>10 DEF Next, Receiver

-----------------------------------------------------------------------------
(* The save file has what was saved.                                       *)

\* At first nothing was saved.
LEMMA SavedInitially == Init => SavedInv
<1> SUFFICES ASSUME Init PROVE SavedInv OBVIOUS
<1>1. dbFile = << >> /\ written = << >> /\ DOMAIN durable = {} BY DEF Init, None
<1>2. Ends(Len(written)) = 0 BY <1>1 DEF Ends
<1>3. Saved(Len(written)) = {}
  <2>1. 1 .. Len(written) = {} BY <1>1
  <2> QED BY <2>1 DEF Saved
<1> QED BY <1>1, <1>2, <1>3 DEF SavedInv

\* Records become durable when the file that has them is closed.
LEMMA SavedStep == ASSUME IndexInv, SavedInv, [Next]_vars PROVE SavedInv'
<1>a. \A i : UNCHANGED written => Ends(i)' = Ends(i) BY DEF Ends
<1>b. \A n : UNCHANGED written => Saved(n)' = Saved(n) BY DEF Saved
<1>c. backend \in {"IN_MEMORY", "LEVEL_DB"} BY DEF IndexInv, Types, CreateDatabase
<1>d. ASSUME UNCHANGED <<backend, dbFile, written, durable>>, torn => torn', phase = "records" => phase' = "records"
      PROVE  SavedInv'
  <2>1. Ends(Len(written))' = Ends(Len(written)) /\ Saved(Len(written))' = Saved(Len(written))
    BY <1>a, <1>b, <1>d
  <2> QED BY <1>d, <2>1 DEF SavedInv
<1>1. ASSUME NEW s \in Session, Receiver(s) PROVE SavedInv'
  <2>1. CASE NewChunk(s)
    <3>1. CASE backend = "LEVEL_DB" BY <2>1, <3>1 DEF NewChunk, SavedInv
    <3>2. CASE backend = "IN_MEMORY"
      <4>1. phase = "up" /\ UNCHANGED <<backend, dbFile, written, durable, torn>>
        BY <2>1, <3>2 DEF NewChunk, UpdateIndexStore, Put, Assign
      <4> QED BY <1>d, <4>1
    <3> QED BY <1>c, <3>1, <3>2
  <2>2. CASE ~ NewChunk(s)
    <3>1. phase = "up" /\ UNCHANGED <<backend, dbFile, written, durable, torn>>
      BY <1>1, <2>2 DEF Receiver, AddLogicalSize, AddLogicalNum, AddLoad, AddStore, EndSession, GenerateHash,
         HashInit, HashUpdate, HashFinal, KnownChunk, storeVars
    <3> QED BY <1>d, <3>1
  <2> QED BY <2>1, <2>2
<1>2. ASSUME OpenDB \/ LoadRecord \/ LoadEnd \/ LoadStat \/ Close \/ TruncStat \/ WriteStat PROVE SavedInv'
  <2>1. UNCHANGED <<backend, dbFile, written, durable, torn>> /\ phase # "records"
    BY <1>2 DEF OpenDB, LoadRecord, LoadEnd, LoadStat, Close, TruncStat, WriteStat, storeVars
  <2> QED BY <1>d, <2>1
<1>3. ASSUME TruncDB \/ \E k \in DOMAIN indexObj : SaveRecord(k) PROVE SavedInv'
  <2>1. phase' = "records" BY <1>3 DEF TruncDB, SaveRecord, processVars
  <2> QED BY <2>1 DEF SavedInv
<1>4. ASSUME CloseDB PROVE SavedInv'
  <2>0. UNCHANGED <<backend, dbFile, written, torn>> BY <1>4 DEF CloseDB
  <2>1. CASE phase = "records" /\ unsaved = {} /\ durable' = indexObj
    <3>1. Len(dbFile) = Ends(Len(written)) /\ Saved(Len(written)) = DOMAIN indexObj
      BY <2>1 DEF IndexInv, DatabaseInv, WholeInv
    <3>2. Ends(Len(written))' = Ends(Len(written)) /\ Saved(Len(written))' = Saved(Len(written))
      BY <1>a, <1>b, <2>0
    <3> QED BY <2>0, <2>1, <3>1, <3>2 DEF SavedInv
  <2>2. CASE phase = "savedb" /\ UNCHANGED durable BY <1>d, <2>0, <2>2
  <2> QED BY <1>4, <2>1, <2>2 DEF CloseDB
<1>5. ASSUME Crash PROVE SavedInv'
  <2>1. CASE phase = "records"
    <3>1. torn' BY <1>5, <2>1 DEF Crash
    <3> QED BY <3>1 DEF SavedInv
  <2>2. CASE phase # "records"
    <3>1. UNCHANGED <<backend, dbFile, written, durable>> /\ (torn => torn') BY <1>5, <2>2 DEF Crash
    <3> QED BY <1>d, <2>2, <3>1
  <2> QED BY <2>1, <2>2
<1>6. ASSUME UNCHANGED vars PROVE SavedInv'
  <2>1. UNCHANGED <<backend, phase, dbFile, written, durable, torn>>
    BY <1>6 DEF vars, processVars, storeVars
  <2> QED BY <1>d, <2>1
<1> QED BY <1>1, <1>2, <1>3, <1>4, <1>5, <1>6 DEF Next

\* Loading such a file gives the entries that were saved.
LEMMA LoadedWhole ==
    ASSUME IndexInv, SavedInv, backend = "IN_MEMORY", ~ torn, phase = "loadstat"
    PROVE  DOMAIN indexObj = DOMAIN durable
<1>1. PICK n \in 0 .. Len(written) : AllLoaded(n) BY DEF IndexInv, DatabaseInv, LoadInv
<1>2. FileInv BY DEF IndexInv, DatabaseInv
<1>3. Len(dbFile) = Ends(Len(written)) /\ Saved(Len(written)) = DOMAIN durable BY DEF SavedInv
<1>4. Len(written) \in Nat /\ Len(dbFile) \in Nat BY <1>2 DEF FileInv
<1>5. n = Len(written)
  <2> SUFFICES ASSUME n < Len(written) PROVE FALSE BY <1>4
  <2> DEFINE l == Len(written)
  <2>1. n + 1 \in 1 .. l /\ l \in 1 .. l /\ l # 0 BY <1>4
  <2>2. Len(dbFile) < written[n + 1].end BY <1>1 DEF AllLoaded
  <2>3. Ends(l) = written[l].end BY <2>1 DEF Ends
  <2>4. \A i \in 1 .. l : written[i].end \in Nat BY <1>2, Records
  <2>5. n + 1 < l => written[n + 1].end < written[l].end BY <1>2, <2>1 DEF FileInv
  <2>6. written[n + 1].end <= written[l].end
    <3>1. CASE n + 1 < l BY <2>1, <2>4, <2>5, <3>1
    <3>2. CASE n + 1 = l BY <2>1, <2>4, <3>2
    <3> QED BY <1>4, <2>1, <3>1, <3>2
  <2> DEFINE x == written[n + 1].end
             y == written[l].end
  <2>7. x \in Nat /\ y \in Nat /\ Len(dbFile) < x /\ x <= y /\ Len(dbFile) = y BY <1>3, <2>1, <2>2, <2>3, <2>4, <2>6
  <2> HIDE DEF x, y
  <2> QED BY <1>4, <2>7
<1>6. Len(dbFile) = Ends(n) BY <1>3, <1>5
<1>7. Saved(n) \subseteq DOMAIN indexObj /\ DOMAIN indexObj \ Saved(n) = {} BY <1>1, <1>6 DEF AllLoaded
<1> QED BY <1>3, <1>5, <1>7

-----------------------------------------------------------------------------
(* The counters of stored chunks.                                          *)

\* Number and size of some entries, and of one more.
LEMMA EntryCounts ==
    ASSUME NEW f, IsFiniteSet(DOMAIN f)
    PROVE  /\ Num(f) \in Nat /\ Size(f) \in Nat
           /\ \A x \in Chunk : \A g : Hash[x] \notin DOMAIN f /\ DOMAIN g = DOMAIN f \union {Hash[x]} =>
                /\ IsFiniteSet(DOMAIN g) /\ Num(g) = Num(f) + 1 /\ Size(g) = Size(f) + Len(x)
<1> DEFINE D == DOMAIN f \intersect Key
<1>1. IsFiniteSet(D) /\ D \subseteq Key BY FS_Intersection
<1>2. Num(f) \in Nat BY FS_CardinalityType DEF Num
<1>3. Size(f) \in Nat BY <1>1, Sizes DEF Size
<1>4. ASSUME NEW x \in Chunk, NEW g, Hash[x] \notin DOMAIN f, DOMAIN g = DOMAIN f \union {Hash[x]}
      PROVE  /\ IsFiniteSet(DOMAIN g) /\ Num(g) = Num(f) + 1 /\ Size(g) = Size(f) + Len(x)
  <2>1. Hash[x] \in Key /\ Weight(Hash[x]) = Len(x) BY Weights DEF Weight
  <2>2. IsFiniteSet(DOMAIN g) /\ Num(g) = Num(f) + 1 BY <1>4, FS_AddElement DEF Num
  <2>3. DOMAIN g \intersect Key = D \union {Hash[x]} /\ Hash[x] \in Key \ D BY <1>4, <2>1
  <2> HIDE DEF D
  <2>4. SizeOf(D \union {Hash[x]}) = SizeOf(D) + Weight(Hash[x]) BY <1>1, <2>3, Sizes
  <2>5. Size(g) = Size(f) + Len(x) BY <2>1, <2>3, <2>4 DEF Size, D
  <2> QED BY <2>2, <2>5
<1> QED BY <1>2, <1>3, <1>4

\* No entries count nothing.
LEMMA NoEntries == ASSUME NEW f, DOMAIN f = {} PROVE IsFiniteSet(DOMAIN f) /\ Num(f) = 0 /\ Size(f) = 0
<1>1. IsFiniteSet(DOMAIN f) /\ Num(f) = 0 BY FS_EmptySet DEF Num
<1>2. DOMAIN f \intersect Key = {} OBVIOUS
<1> QED BY <1>1, <1>2, NoSize DEF Size

\* At first there are no entries and no counters.
LEMMA UniqueInitially == Init => UniqueInv
<1> SUFFICES ASSUME Init PROVE UniqueInv OBVIOUS
<1>1. DOMAIN indexObj = {} /\ DOMAIN durable = {} BY DEF Init, None
<1>2. Loaded(3) = 0 /\ Loaded(4) = 0 BY DEF Init, Loaded
<1>3. stat["uniqueChunkNum"] = 0 /\ stat["uniqueDataSize"] = 0
  <2>1. 3 \in 1 .. 5 /\ 4 \in 1 .. 5 OBVIOUS
  <2>2. stat[Counter[3]] = 0 /\ stat[Counter[4]] = 0 BY <2>1, ZeroStats DEF Init
  <2> QED BY <2>2, TypesInitially, CounterTypes
<1>4. phase = "down" BY DEF Init
<1>5. /\ IsFiniteSet(DOMAIN indexObj) /\ Num(indexObj) = 0 /\ Size(indexObj) = 0
      /\ Num(durable) = 0 /\ Size(durable) = 0 BY <1>1, NoEntries
<1> QED BY <1>2, <1>3, <1>4, <1>5 DEF UniqueInv, Counted, NotAhead

\* A step that moves the counters between memory and the file, or forgets those in memory.
LEMMA UniqueMoves ==
    ASSUME UniqueInv, Types, UNCHANGED <<backend, indexObj, durable, torn>>,
           \A i \in 3 .. 4 : /\ stat'[Counter[i]] \in {stat[Counter[i]], Loaded(i), 0}
                             /\ Loaded(i)' \in {stat[Counter[i]], Loaded(i), 0},
           backend = "IN_MEMORY" /\ ~ torn =>
              /\ phase' \in {"up", "savestat", "stat", "savedb", "records"} =>
                    Counted(stat'["uniqueChunkNum"], stat'["uniqueDataSize"], indexObj)
              /\ phase' \in {"savedb", "records"} => Counted(Loaded(4)', Loaded(3)', indexObj)
              /\ phase' \in {"down", "load", "loadstat", "up", "savestat"} =>
                    Counted(Loaded(4)', Loaded(3)', durable)
    PROVE  UniqueInv'
<1>1. Counter[3] = "uniqueDataSize" /\ Counter[4] = "uniqueChunkNum" BY CounterTypes
<1>2. IsFiniteSet(DOMAIN indexObj) /\ Num(indexObj) \in Nat /\ Size(indexObj) \in Nat
  BY EntryCounts DEF UniqueInv
<1>3. backend = "LEVEL_DB" =>
        /\ NotAhead(stat'["uniqueChunkNum"], stat'["uniqueDataSize"], indexObj)
        /\ NotAhead(Loaded(4)', Loaded(3)', indexObj)
  <2> SUFFICES ASSUME backend = "LEVEL_DB"
               PROVE  /\ NotAhead(stat'["uniqueChunkNum"], stat'["uniqueDataSize"], indexObj)
                      /\ NotAhead(Loaded(4)', Loaded(3)', indexObj)
    OBVIOUS
  <2>1. /\ stat[Counter[4]] <= Num(indexObj) /\ stat[Counter[3]] <= Size(indexObj)
        /\ Loaded(4) <= Num(indexObj) /\ Loaded(3) <= Size(indexObj)
    BY <1>1 DEF UniqueInv, NotAhead
  <2>2. 3 \in 3 .. 4 /\ 4 \in 3 .. 4 OBVIOUS
  <2>3. stat'[Counter[4]] <= Num(indexObj) /\ Loaded(4)' <= Num(indexObj) BY <1>2, <2>1, <2>2
  <2>4. stat'[Counter[3]] <= Size(indexObj) /\ Loaded(3)' <= Size(indexObj) BY <1>2, <2>1, <2>2
  <2> QED BY <1>1, <2>3, <2>4 DEF NotAhead
<1>4. indexObj' = indexObj /\ durable' = durable /\ Num(indexObj)' = Num(indexObj) OBVIOUS
<1> QED BY <1>2, <1>3 DEF UniqueInv

\* A stored chunk is counted once, as it is stored.
LEMMA UniqueStored ==
    ASSUME IndexInv, UniqueInv, NEW s \in Session, NewChunk(s)
    PROVE  UniqueInv'
<1>1. /\ phase = "up" /\ pc[s] = "hashed" /\ UNCHANGED <<backend, phase, statFile, torn>>
      /\ stat' = [stat EXCEPT !["uniqueChunkNum"] = stat["uniqueChunkNum"] + 1,
                              !["uniqueDataSize"] = stat["uniqueDataSize"] + Len(chunk[s])]
  BY DEF NewChunk, processVars
<1>2. backend \in {"IN_MEMORY", "LEVEL_DB"} BY DEF IndexInv, Types, CreateDatabase
<1>3. PICK x \in Chunk : hash[s] = Hash[x] /\ chunk[s] = x BY <1>1 DEF IndexInv, HashInv
<1>4. hash[s] \notin DOMAIN indexObj BY <1>2 DEF NewChunk, ReadIndexStore, Get, Find
<1>5. indexObj' = Store(indexObj, hash[s], Name[s]) BY DEF NewChunk, UpdateIndexStore, Put, Assign
<1>6. DOMAIN indexObj' = DOMAIN indexObj \union {Hash[x]} BY <1>3, <1>5 DEF Store
<1>7. PICK g : g = indexObj' OBVIOUS
<1>8. IsFiniteSet(DOMAIN indexObj) BY DEF UniqueInv
<1>9. /\ Num(indexObj) \in Nat /\ Size(indexObj) \in Nat /\ IsFiniteSet(DOMAIN g)
      /\ Num(g) = Num(indexObj) + 1 /\ Size(g) = Size(indexObj) + Len(x)
  BY <1>3, <1>4, <1>6, <1>7, <1>8, EntryCounts
<1>10. /\ stat'["uniqueChunkNum"] = stat["uniqueChunkNum"] + 1
       /\ stat'["uniqueDataSize"] = stat["uniqueDataSize"] + Len(x)
  <2>1. stat \in [DOMAIN ZeroStat -> Nat] BY DEF IndexInv, Types
  <2>2. "uniqueChunkNum" \in DOMAIN ZeroStat /\ "uniqueDataSize" \in DOMAIN ZeroStat BY CounterNames
  <2> QED BY <1>1, <1>3, <2>1, <2>2
<1>11. /\ stat["uniqueChunkNum"] \in Nat /\ stat["uniqueDataSize"] \in Nat /\ Len(x) \in Nat
       /\ Loaded(3) \in Nat /\ Loaded(4) \in Nat
  <2>1. Types BY DEF IndexInv
  <2>2. 3 \in 1 .. 5 /\ 4 \in 1 .. 5 OBVIOUS
  <2>3. stat[Counter[4]] \in Nat /\ stat[Counter[3]] \in Nat /\ Loaded(3) \in Nat /\ Loaded(4) \in Nat
    BY <2>1, <2>2, CounterTypes
  <2> QED BY <2>1, <2>3, Weights, CounterTypes
<1>12. \A i : Loaded(i)' = Loaded(i) BY <1>1 DEF Loaded
<1> DEFINE n == stat["uniqueChunkNum"]
           z == stat["uniqueDataSize"]
           l == Len(x)
<1>13. CASE backend = "IN_MEMORY"
  <2>1. durable' = durable BY <1>13 DEF NewChunk, UpdateIndexStore, Put, Assign
  <2>2. ASSUME ~ torn
        PROVE  /\ Counted(stat'["uniqueChunkNum"], stat'["uniqueDataSize"], g)
               /\ Counted(Loaded(4), Loaded(3), durable)
    <3>1. Counted(n, z, indexObj) /\ Counted(Loaded(4), Loaded(3), durable) BY <1>1, <1>13, <2>2 DEF UniqueInv
    <3>2. n + 1 = Num(g) /\ z + l = Size(g) BY <1>9, <3>1 DEF Counted
    <3> QED BY <1>10, <3>1, <3>2 DEF Counted
  <2>3. Counted(stat["uniqueChunkNum"], stat["uniqueDataSize"], indexObj)' =
          Counted(stat'["uniqueChunkNum"], stat'["uniqueDataSize"], g) BY <1>7 DEF Counted, Num, Size
  <2>4. Counted(Loaded(4), Loaded(3), durable)' = Counted(Loaded(4), Loaded(3), durable)
    BY <1>12, <2>1 DEF Counted, Num, Size
  <2> QED BY <1>1, <1>7, <1>9, <1>13, <2>2, <2>3, <2>4 DEF UniqueInv
<1>14. CASE backend = "LEVEL_DB"
  <2>1. NotAhead(n, z, indexObj) /\ NotAhead(Loaded(4), Loaded(3), indexObj) BY <1>14 DEF UniqueInv
  <2>2. n <= Num(indexObj) /\ z <= Size(indexObj) BY <2>1 DEF NotAhead
  <2>3. Loaded(4) <= Num(indexObj) /\ Loaded(3) <= Size(indexObj) BY <2>1 DEF NotAhead
  <2> DEFINE N == Num(indexObj)
             Z == Size(indexObj)
             a == Loaded(4)
             b == Loaded(3)
  <2>4. /\ n \in Nat /\ z \in Nat /\ l \in Nat /\ N \in Nat /\ Z \in Nat /\ a \in Nat /\ b \in Nat
        /\ n <= N /\ z <= Z /\ a <= N /\ b <= Z
    BY <1>9, <1>11, <2>2, <2>3
  <2>5. n + 1 <= N + 1 /\ z + l <= Z + l /\ a <= N + 1 /\ b <= Z + l
    <3> HIDE DEF n, z, l, N, Z, a, b
    <3> QED BY <2>4
  <2>6. /\ NotAhead(stat'["uniqueChunkNum"], stat'["uniqueDataSize"], g)
        /\ NotAhead(Loaded(4), Loaded(3), g)
    BY <1>9, <1>10, <2>5 DEF NotAhead
  <2>7. NotAhead(stat["uniqueChunkNum"], stat["uniqueDataSize"], indexObj)' =
          NotAhead(stat'["uniqueChunkNum"], stat'["uniqueDataSize"], g) BY <1>7 DEF NotAhead, Num, Size
  <2>8. NotAhead(Loaded(4), Loaded(3), indexObj)' = NotAhead(Loaded(4), Loaded(3), g)
    BY <1>7, <1>12 DEF NotAhead, Num, Size
  <2> QED BY <1>1, <1>7, <1>9, <1>14, <2>6, <2>7, <2>8 DEF UniqueInv
<1> QED BY <1>2, <1>13, <1>14

\* Loading adds at most one key a round.
LEMMA FiniteLoaded ==
    ASSUME IsFiniteSet(DOMAIN indexObj), LoadRecord
    PROVE  IsFiniteSet(DOMAIN indexObj')
<1>1. \E k, v : indexObj' = Emplace(indexObj, k, v) BY DEF LoadRecord
<1>2. PICK k, v : indexObj' = Emplace(indexObj, k, v) BY <1>1
<1>3. DOMAIN indexObj' = DOMAIN indexObj \union {k} BY <1>2 DEF Emplace
<1> QED BY <1>3, FS_AddElement

\* The counters of stored chunks, step by step.
LEMMA UniqueStep ==
    ASSUME IndexInv, SavedInv, UniqueInv, [Next]_vars
    PROVE  UniqueInv'
<1>0. Types /\ StatInv BY DEF IndexInv
<1>a. Counter[3] = "uniqueDataSize" /\ Counter[4] = "uniqueChunkNum" BY <1>0, CounterTypes
<1>b. \A i \in 3 .. 4 : i \in 1 .. 5 OBVIOUS
<1>c. 3 \in 3 .. 4 /\ 4 \in 3 .. 4 OBVIOUS
<1>d. backend \in {"IN_MEMORY", "LEVEL_DB"} BY <1>0 DEF Types, CreateDatabase
<1>e. backend = "IN_MEMORY" /\ ~ torn =>
        /\ phase \in {"up", "savestat", "stat", "savedb", "records"} =>
              Counted(stat["uniqueChunkNum"], stat["uniqueDataSize"], indexObj)
        /\ phase \in {"savedb", "records"} => Counted(Loaded(4), Loaded(3), indexObj)
        /\ phase \in {"down", "load", "loadstat", "up", "savestat"} => Counted(Loaded(4), Loaded(3), durable)
  BY DEF UniqueInv
<1>1. ASSUME NEW s \in Session, Receiver(s) PROVE UniqueInv'
  <2>1. CASE NewChunk(s) BY <2>1, UniqueStored
  <2>2. CASE ~ NewChunk(s)
    <3>1. phase = "up" /\ phase' = "up" /\ UNCHANGED <<backend, indexObj, durable, torn, statFile>>
      BY <1>1, <2>2 DEF Receiver, AddLogicalSize, AddLogicalNum, AddLoad, AddStore, EndSession, GenerateHash,
         HashInit, HashUpdate, HashFinal, KnownChunk, storeVars, statVars, processVars
    <3>2. \A i \in 3 .. 4 : Loaded(i)' = Loaded(i) BY <3>1 DEF Loaded
    <3>3. stat'["uniqueDataSize"] = stat["uniqueDataSize"] /\ stat'["uniqueChunkNum"] = stat["uniqueChunkNum"]
      <4>1. stat \in [DOMAIN ZeroStat -> Nat] BY <1>0 DEF Types
      <4>2. "uniqueDataSize" \in DOMAIN ZeroStat /\ "uniqueChunkNum" \in DOMAIN ZeroStat BY CounterNames
      <4>3. CASE stat' = stat BY <4>3
      <4>4. CASE \E c \in {"logicalDataSize", "logicalChunkNum"} : \E n : stat' = [stat EXCEPT ![c] = n]
        BY <4>1, <4>2, <4>4
      <4>5. \/ stat' = stat
            \/ \E c \in {"logicalDataSize", "logicalChunkNum"} : \E n : stat' = [stat EXCEPT ![c] = n]
        <5>1. ASSUME NEW c, NEW n, NEW from, NEW to, AddStore(s, from, to, c, n)
              PROVE  \E m : stat' = [stat EXCEPT ![c] = m]
          BY <5>1 DEF AddStore
        <5>2. CASE AddStore(s, "size", "between", "logicalDataSize", FileSize[s]) BY <5>1, <5>2
        <5>3. CASE AddStore(s, "num", "batch", "logicalChunkNum", ChunkNum[s]) BY <5>1, <5>3
        <5>4. CASE \/ AddLoad(s, "idle", "size", "logicalDataSize") \/ AddLoad(s, "between", "num", "logicalChunkNum")
                   \/ EndSession(s) \/ GenerateHash(s) \/ KnownChunk(s)
          BY <5>4 DEF AddLoad, EndSession, GenerateHash, HashInit, HashUpdate, HashFinal, KnownChunk, statVars
        <5> QED BY <1>1, <2>2, <5>2, <5>3, <5>4 DEF Receiver, AddLogicalSize, AddLogicalNum
      <4> QED BY <4>3, <4>4, <4>5
    <3>4. \A i \in 3 .. 4 : stat'[Counter[i]] = stat[Counter[i]]
      <4>1. \A i \in 3 .. 4 : i = 3 \/ i = 4 OBVIOUS
      <4> QED BY <1>a, <3>3, <4>1
    <3>5. Loaded(3)' = Loaded(3) /\ Loaded(4)' = Loaded(4) BY <1>c, <3>2
    <3> QED BY <1>0, <1>e, <3>1, <3>2, <3>3, <3>4, <3>5, UniqueMoves
  <2> QED BY <2>1, <2>2
<1>2. ASSUME OpenDB \/ LoadEnd \/ Close \/ TruncDB \/ \E k \in DOMAIN indexObj : SaveRecord(k)
      PROVE  UniqueInv'
  <2>1. UNCHANGED <<backend, indexObj, durable, torn, stat, statFile>>
    BY <1>2 DEF OpenDB, LoadEnd, Close, TruncDB, SaveRecord, storeVars, statVars
  <2>2. \A i : Loaded(i)' = Loaded(i) BY <2>1 DEF Loaded
  <2>3. \/ phase \in {"down", "load"} /\ phase' \in {"load", "loadstat"}
        \/ phase = "up" /\ phase' = "savestat"
        \/ phase \in {"savedb", "records"} /\ phase' = "records"
    BY <1>2 DEF OpenDB, LoadEnd, Close, TruncDB, SaveRecord, processVars
  <2> QED BY <1>0, <1>e, <2>1, <2>2, <2>3, UniqueMoves
<1>3. ASSUME LoadRecord PROVE UniqueInv'
  <2>1. /\ phase = "load" /\ phase' \in {"load", "loadstat"}
        /\ UNCHANGED <<backend, durable, torn, stat, statFile>>
    BY <1>3 DEF LoadRecord, statVars
  <2>2. backend = "IN_MEMORY" BY <1>d, <2>1 DEF IndexInv, DatabaseInv, EntryInv
  <2>3. IsFiniteSet(DOMAIN indexObj') BY <1>3, FiniteLoaded DEF UniqueInv
  <2>4. \A i : Loaded(i)' = Loaded(i) BY <2>1 DEF Loaded
  <2>5. Counted(Loaded(4), Loaded(3), durable)' = Counted(Loaded(4), Loaded(3), durable)
    BY <2>1, <2>4 DEF Counted, Num, Size
  <2>6. ~ torn => Counted(Loaded(4), Loaded(3), durable) BY <1>e, <2>1, <2>2
  <2> QED BY <2>1, <2>2, <2>3, <2>5, <2>6 DEF UniqueInv
<1>4. ASSUME LoadStat PROVE UniqueInv'
  <2>1. /\ phase = "loadstat" /\ phase' = "up"
        /\ UNCHANGED <<backend, indexObj, durable, torn, statFile>>
    BY <1>4 DEF LoadStat
  <2>2. \A i : Loaded(i)' = Loaded(i) BY <2>1 DEF Loaded
  <2>3. \A i \in 3 .. 4 : stat'[Counter[i]] = Loaded(i) BY <1>0, <1>4, <1>b, StatLoaded
  <2>4. stat'["uniqueChunkNum"] = Loaded(4) /\ stat'["uniqueDataSize"] = Loaded(3) BY <1>a, <1>c, <2>3
  <2>5. ASSUME backend = "IN_MEMORY", ~ torn
        PROVE  Counted(Loaded(4), Loaded(3), durable) /\ Counted(Loaded(4), Loaded(3), indexObj)
    <3>1. Counted(Loaded(4), Loaded(3), durable) BY <1>e, <2>1, <2>5
    <3>2. DOMAIN indexObj = DOMAIN durable BY <2>1, <2>5, LoadedWhole
    <3>3. Num(indexObj) = Num(durable) /\ Size(indexObj) = Size(durable) BY <3>2 DEF Num, Size
    <3> QED BY <3>1, <3>3 DEF Counted
  <2> QED BY <1>0, <2>1, <2>2, <2>3, <2>4, <2>5, UniqueMoves
<1>5. ASSUME TruncStat PROVE UniqueInv'
  <2>1. /\ phase = "savestat" /\ phase' = "stat" /\ statFile' = << >>
        /\ UNCHANGED <<backend, indexObj, durable, torn, stat>>
    BY <1>5 DEF TruncStat, storeVars
  <2>2. \A i \in 3 .. 4 : Loaded(i)' = 0 BY <2>1 DEF Loaded
  <2> QED BY <1>0, <1>e, <2>1, <2>2, UniqueMoves
<1>6. ASSUME WriteStat PROVE UniqueInv'
  <2>1. /\ phase = "stat" /\ phase' = "savedb"
        /\ UNCHANGED <<backend, indexObj, durable, torn, stat>>
    BY <1>6 DEF WriteStat, storeVars
  <2>2. \A i \in 3 .. 4 : Loaded(i)' = stat[Counter[i]] BY <1>0, <1>6, <1>b, StatWritten
  <2>3. Loaded(4)' = stat["uniqueChunkNum"] /\ Loaded(3)' = stat["uniqueDataSize"] BY <1>a, <1>c, <2>2
  <2> QED BY <1>0, <1>e, <2>1, <2>2, <2>3, UniqueMoves
<1>7. ASSUME CloseDB PROVE UniqueInv'
  <2>1. phase' = "down" /\ UNCHANGED <<backend, torn, statFile>> /\ stat' = ZeroStat BY <1>7 DEF CloseDB
  <2>2. \A i : Loaded(i)' = Loaded(i) BY <2>1 DEF Loaded
  <2>3. \A i \in 3 .. 4 : stat'[Counter[i]] = 0 BY <1>b, <2>1, ZeroStats
  <2>4. CASE phase = "records" /\ indexObj' = None /\ durable' = indexObj
    <3>1. backend = "IN_MEMORY" BY <1>d, <2>4 DEF IndexInv, DatabaseInv, EntryInv
    <3>2. ~ torn => Counted(Loaded(4), Loaded(3), indexObj) BY <1>e, <2>4, <3>1
    <3>3. Counted(Loaded(4), Loaded(3), durable)' = Counted(Loaded(4), Loaded(3), indexObj)
      BY <2>2, <2>4 DEF Counted, Num, Size
    <3>4. IsFiniteSet(DOMAIN indexObj')
      <4>1. DOMAIN indexObj' = {} BY <2>4 DEF None
      <4> QED BY <4>1, FS_EmptySet
    <3> QED BY <2>1, <3>1, <3>2, <3>3, <3>4 DEF UniqueInv
  <2>5. CASE phase = "savedb" /\ backend = "LEVEL_DB" /\ UNCHANGED <<indexObj, durable>>
    BY <1>0, <2>1, <2>2, <2>3, <2>5, UniqueMoves
  <2> QED BY <1>7, <2>4, <2>5 DEF CloseDB
<1>8. ASSUME Crash PROVE UniqueInv'
  <2>1. /\ phase' = "down" /\ UNCHANGED backend /\ stat' = ZeroStat
        /\ indexObj' = (IF backend = "LEVEL_DB" THEN indexObj ELSE None)
        /\ durable' = (IF phase = "records" THEN None ELSE durable)
        /\ torn' = (torn \/ phase \in {"stat", "savedb", "records"})
    BY <1>8 DEF Crash
  <2>2. \A i \in 3 .. 4 : /\ phase # "stat" => Loaded(i)' = Loaded(i)
                          /\ Loaded(i)' \in {Loaded(i), 0, stat[Counter[i]]}
    BY <1>0, <1>8, <1>b, StatCrashed
  <2>3. \A i \in 3 .. 4 : stat'[Counter[i]] = 0 BY <1>b, <2>1, ZeroStats
  <2>4. CASE backend = "LEVEL_DB"
    <3>1. phase # "records" BY <2>4 DEF IndexInv, DatabaseInv, EntryInv
    <3>2. indexObj' = indexObj /\ durable' = durable BY <2>1, <2>4, <3>1
    <3>3. /\ IsFiniteSet(DOMAIN indexObj) /\ Num(indexObj) \in Nat /\ Size(indexObj) \in Nat
          /\ NotAhead(stat["uniqueChunkNum"], stat["uniqueDataSize"], indexObj)
          /\ NotAhead(Loaded(4), Loaded(3), indexObj)
      BY <2>4, EntryCounts DEF UniqueInv
    <3>4. NotAhead(stat'["uniqueChunkNum"], stat'["uniqueDataSize"], indexObj)
      BY <1>a, <1>c, <2>3, <3>3 DEF NotAhead
    <3>5. NotAhead(Loaded(4)', Loaded(3)', indexObj) BY <1>a, <1>c, <2>2, <3>3 DEF NotAhead
    <3>6. /\ NotAhead(stat["uniqueChunkNum"], stat["uniqueDataSize"], indexObj)' =
               NotAhead(stat'["uniqueChunkNum"], stat'["uniqueDataSize"], indexObj)
          /\ NotAhead(Loaded(4), Loaded(3), indexObj)' = NotAhead(Loaded(4)', Loaded(3)', indexObj)
      BY <3>2 DEF NotAhead, Num, Size
    <3> QED BY <2>1, <2>4, <3>2, <3>3, <3>4, <3>5, <3>6 DEF UniqueInv
  <2>5. CASE backend = "IN_MEMORY"
    <3>1. IsFiniteSet(DOMAIN indexObj')
      <4>1. DOMAIN indexObj' = {} BY <2>1, <2>5 DEF None
      <4> QED BY <4>1, FS_EmptySet
    <3>2. ASSUME ~ torn' PROVE Counted(Loaded(4), Loaded(3), durable)'
      <4>1. ~ torn /\ phase \notin {"stat", "savedb", "records"} BY <2>1, <3>2
      <4>2. phase \in {"down", "load", "loadstat", "up", "savestat"} BY <1>0, <4>1 DEF Types
      <4>3. Counted(Loaded(4), Loaded(3), durable) BY <1>e, <2>5, <4>1, <4>2
      <4>4. Loaded(4)' = Loaded(4) /\ Loaded(3)' = Loaded(3) /\ durable' = durable BY <1>c, <2>1, <2>2, <4>1
      <4>5. Counted(Loaded(4), Loaded(3), durable)' = Counted(Loaded(4), Loaded(3), durable)
        BY <4>4 DEF Counted, Num, Size
      <4> QED BY <4>3, <4>5
    <3> QED BY <2>1, <2>5, <3>1, <3>2 DEF UniqueInv
  <2> QED BY <1>d, <2>4, <2>5
<1>9. ASSUME UNCHANGED vars PROVE UniqueInv'
  <2>1. UNCHANGED <<backend, phase, indexObj, durable, torn, stat, statFile>>
    BY <1>9 DEF vars, processVars, storeVars, statVars
  <2>2. \A i : Loaded(i)' = Loaded(i) BY <2>1 DEF Loaded
  <2> QED BY <1>0, <1>e, <2>1, <2>2, UniqueMoves
<1> QED BY <1>1, <1>2, <1>3, <1>4, <1>5, <1>6, <1>7, <1>8, <1>9 DEF Next

\* The counters, their file and the entries agree as CounterInv says, through crashes,
\* saves and loads.
LEMMA CounterInvariant == Spec => []CounterInv
<1>1. Init => CounterInv BY SavedInitially, UniqueInitially, LogicalInitially DEF CounterInv
<1>2. IndexInv /\ CounterInv /\ [Next]_vars => CounterInv'
  <2> SUFFICES ASSUME IndexInv, CounterInv, [Next]_vars PROVE CounterInv' OBVIOUS
  <2>1. SavedInv /\ UniqueInv /\ LogicalInv BY DEF CounterInv
  <2>2. SavedInv' BY <2>1, SavedStep
  <2>3. UniqueInv' BY <2>1, UniqueStep
  <2>4. LogicalInv' BY <2>1, LogicalStep DEF IndexInv
  <2> QED BY <2>2, <2>3, <2>4 DEF CounterInv
<1> QED BY <1>1, <1>2, IndexInvariant, PTL DEF Spec

\* Statistics for any chunks, any number of sessions, crashes and lives of the process: the
\* counters of AbsIndex are the number and the size of the entries, and no addition is
\* counted twice.
THEOREM StatisticsRight == Spec => []Statistics
<1>1. IndexInv /\ CounterInv => Statistics
  <2> SUFFICES ASSUME IndexInv, CounterInv PROVE Statistics OBVIOUS
  <2> DEFINE size == MapThenSumSet(LAMBDA k : Len(Preimage(k)), DOMAIN indexObj \intersect Key)
  <2>1. size = Size(indexObj) BY DEF Size, SizeOf
  <2>2. UniqueInv /\ LogicalInv BY DEF CounterInv
  <2> HIDE DEF size
  <2>3. phase = "up" /\ backend = "IN_MEMORY" /\ ~ torn =>
          stat["uniqueChunkNum"] = Cardinality(DOMAIN indexObj) /\ stat["uniqueDataSize"] = size
    BY <2>1, <2>2 DEF UniqueInv, Counted, Num
  <2>4. phase = "up" /\ backend = "LEVEL_DB" =>
          stat["uniqueChunkNum"] <= Cardinality(DOMAIN indexObj) /\ stat["uniqueDataSize"] <= size
    BY <2>1, <2>2 DEF UniqueInv, NotAhead, Num
  <2>5. \A i \in 1 .. 2 : /\ stat[Counter[i]] <= due[Counter[i]]
                          /\ exact /\ phase = "up" => stat[Counter[i]] = due[Counter[i]]
    BY <2>2 DEF LogicalInv
  <2> QED BY <2>3, <2>4, <2>5 DEF Statistics, size
<1> QED BY <1>1, IndexInvariant, CounterInvariant, PTL
=============================================================================
