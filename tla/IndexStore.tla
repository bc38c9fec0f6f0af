----------------------------- MODULE IndexStore -----------------------------
(***************************************************************************)
(* What is behind the index of UploadPipeline: the database that holds it  *)
(* (InMemoryDatabase, saved as a byte stream in its destructor and loaded  *)
(* by OpenDB, or LeveldbDatabase), the statistics of AbsIndex, which all   *)
(* upload sessions add to and which have a file of their own, and the      *)
(* fingerprints, which they compute before they take the lock of the index.*)
(*                                                                         *)
(* The save file is modelled to the byte, since OpenDB never looks at how  *)
(* much a read returned: after a save that was cut short it makes the last *)
(* entry up from what its variables still hold.                            *)
(***************************************************************************)
EXTENDS CryptoPrimitive, FiniteSets, FiniteSetsExt

CONSTANTS
    Session,    \* upload sessions
    Name,       \* the container of a session: a byte sequence, shorter than a fingerprint
    FileSize,   \* what the login of a session says of its file: its length ...
    ChunkNum,   \* ... and its number of chunks
    MaxCrashes, \* bound: abnormal ends of the process
    MaxLives    \* bound: starts of the process

INT_SIZE == 4

\* The chunks and their fingerprints, byte sequences.
Chunk == DOMAIN Hash
Key == {Hash[x] : x \in Chunk}

Zeros == [i \in 1 .. CHUNK_HASH_SIZE |-> 0]

\* The beginning of a fingerprint followed by the end of another, or by zeros, is no
\* fingerprint of a chunk but of these two.
ASSUME StoreAssumption ==
    /\ CHUNK_HASH_SIZE < 256
    /\ \A s \in Session : Name[s] \in Seq(Byte) /\ Len(Name[s]) < CHUNK_HASH_SIZE
    /\ \A j \in Key, k \in Key \union {Zeros}, n \in 1 .. CHUNK_HASH_SIZE - 1 :
          LET blend == [i \in 1 .. CHUNK_HASH_SIZE |-> IF i <= n THEN j[i] ELSE k[i]] IN
          blend \in Key => blend \in {j, k}

\* Bounds, and what an edge says at login.
ASSUME CountAssumption ==
    /\ MaxCrashes \in Nat /\ MaxLives \in Nat
    /\ FileSize \in [Session -> Nat] /\ ChunkNum \in [Session -> Nat]

Counter == <<"logicalDataSize", "logicalChunkNum", "uniqueDataSize", "uniqueChunkNum",
             "compressedDataSize">>

VARIABLES
    backend,   \* which database DatabaseFactory made
    phase,     \* of the process: loading, up, closing, down
    indexObj,  \* the entries: fingerprint -> container name
    dbFile,    \* bytes of the save file
    reader,    \* OpenDB: position in the file, and the strings key and value
    unsaved,   \* ~InMemoryDatabase: keys the loop has not come to
    stat,      \* the counters of AbsIndex
    statFile,  \* the saved counters, in the order of Counter
    pc,        \* where the receiver of a session stands
    reg,       \* the value it has loaded of the counter it adds to
    chunk,     \* the chunk of its batch it is at
    mdCtx,     \* _mdCtx of its ClientVar
    hash,      \* tmpHashStr: the fingerprint it has computed
    crashes, lives,
    written,   \* history: the records of the last save, and where they end
    durable,   \* history: the entries no crash may take away
    torn,      \* history: a crash cut a save short
    due,       \* history: what the logical counters should be
    exact      \* history: no crash, and no two additions at the same time

processVars == <<phase, crashes, lives>>
storeVars == <<indexObj, dbFile, reader, unsaved, written, durable>>
statVars == <<stat, statFile, due, exact>>
hashVars == <<chunk, mdCtx, hash>>
sessionVars == <<pc, reg, hashVars>>
vars == <<backend, processVars, storeVars, statVars, sessionVars, torn>>

None == [k \in {} |-> << >>]
ZeroStat == [c \in {Counter[i] : i \in DOMAIN Counter} |-> 0]

NewReader == [pos |-> 0, key |-> << >>, value |-> << >>]

\* DatabaseFactory::CreateDatabase.
CreateDatabase == {"IN_MEMORY", "LEVEL_DB"}

Init ==
    /\ backend \in CreateDatabase
    /\ phase = "down" /\ crashes = 0 /\ lives = 0 /\ torn = FALSE
    /\ indexObj = None /\ dbFile = << >> /\ unsaved = {}
    /\ reader = NewReader
    /\ stat = ZeroStat /\ statFile = << >>
    /\ pc = [s \in Session |-> "idle"] /\ reg = [s \in Session |-> 0]
    /\ chunk = [s \in Session |-> << >>] /\ mdCtx = [s \in Session |-> NewMdCtx]
    /\ hash = [s \in Session |-> << >>]
    /\ written = << >> /\ durable = None /\ due = ZeroStat /\ exact = TRUE

-----------------------------------------------------------------------------
(* AbsDatabase: what a database does between OpenDB and its destructor.    *)

\* LeveldbDatabase and InMemoryDatabase.
Get(k) == backend = "LEVEL_DB" /\ k \in DOMAIN indexObj
Find(k) == backend = "IN_MEMORY" /\ k \in DOMAIN indexObj

ReadIndexStore(k) == Get(k) \/ Find(k)

\* An entry replaces what is there under its key, or is left out if something is.
Store(f, k, v) == [x \in DOMAIN f \cup {k} |-> IF x = k THEN v ELSE f[x]]
Emplace(f, k, v) == [x \in DOMAIN f \cup {k} |-> IF x \in DOMAIN f THEN f[x] ELSE v]

\* LeveldbDatabase: a Put is in the log of LevelDB, and survives the process.
Put(k, v) ==
    /\ backend = "LEVEL_DB"
    /\ indexObj' = Store(indexObj, k, v)
    /\ durable' = indexObj'

\* InMemoryDatabase.
Assign(k, v) ==
    /\ backend = "IN_MEMORY"
    /\ indexObj' = Store(indexObj, k, v)
    /\ UNCHANGED durable

UpdateIndexStore(k, v) == Put(k, v) \/ Assign(k, v)

-----------------------------------------------------------------------------
(* The save file.                                                          *)

IntBytes(n) == <<n % 256, (n \div 256) % 256, (n \div 65536) % 256, (n \div 16777216) % 256>>
IntOf(b) == b[1] + 256 * b[2] + 65536 * b[3] + 16777216 * b[4]

\* istream::read into buf at a position: what the file has, the rest of buf stays.
ReadInto(buf, pos) ==
    [i \in DOMAIN buf |-> IF pos + i <= Len(dbFile) THEN dbFile[pos + i] ELSE buf[i]]

\* string::resize(n, 0): what is there is kept.
Resize(str, n) == [i \in 1 .. n |-> IF i <= Len(str) THEN str[i] ELSE 0]

\* Fault: itemSize is not reset after a record.
ItemSizeKept == IntOf(ReadInto(IntBytes(Len(reader.value)), reader.pos))

\* The length of the next key, 0 at the end of the file.
ItemSize == IntOf(ReadInto(IntBytes(0), reader.pos))

\* Fault: the file is opened for writing, too.
OpenDBTruncates ==
    /\ phase = "down" /\ lives < MaxLives
    /\ lives' = lives + 1
    /\ phase' = IF backend = "IN_MEMORY" THEN "load" ELSE "loadstat"
    /\ dbFile' = << >>
    /\ reader' = NewReader
    /\ UNCHANGED <<backend, crashes, indexObj, unsaved, written, durable, statVars,
                   sessionVars, torn>>

\* A database object is made.  LevelDB looks for a lock file that nothing creates, and
\* opens what is there.
OpenDB ==
    /\ phase = "down" /\ lives < MaxLives
    /\ lives' = lives + 1
    /\ phase' = IF backend = "IN_MEMORY" THEN "load" ELSE "loadstat"
    /\ reader' = NewReader
    /\ UNCHANGED <<backend, crashes, indexObj, dbFile, unsaved, written, durable, statVars,
                   sessionVars, torn>>

\* One round of the loop of OpenDB.  A read that comes to the end of the file leaves the
\* rest of its variable, which is what the round before it put there.
LoadRecord ==
    /\ phase = "load" /\ ItemSize # 0
    /\ LET at == reader.pos + INT_SIZE
           key == ReadInto(Resize(reader.key, ItemSize), at)
           size == IntOf(ReadInto(IntBytes(ItemSize), at + ItemSize))
           value == ReadInto(Resize(reader.value, size), at + ItemSize + INT_SIZE)
           end == at + ItemSize + INT_SIZE + size
       IN  /\ indexObj' = Emplace(indexObj, key, value)
           /\ reader' = [pos |-> end, key |-> key, value |-> value]
           /\ phase' = IF end > Len(dbFile) THEN "loadstat" ELSE "load"
    /\ UNCHANGED <<backend, crashes, lives, dbFile, unsaved, written, durable, statVars,
                   sessionVars, torn>>

LoadEnd ==
    /\ phase = "load" /\ ItemSize = 0
    /\ phase' = "loadstat"
    /\ UNCHANGED <<backend, crashes, lives, storeVars, statVars, sessionVars, torn>>

\* ~InMemoryDatabase: ios_base::trunc, then the loop over the map in its order, which
\* can be any.
TruncDB ==
    /\ phase = "savedb" /\ backend = "IN_MEMORY"
    /\ phase' = "records"
    /\ dbFile' = << >> /\ written' = << >> /\ unsaved' = DOMAIN indexObj
    /\ UNCHANGED <<backend, crashes, lives, indexObj, reader, durable, statVars, sessionVars, torn>>

Record(k) ==
    IntBytes(Len(k)) \o k \o IntBytes(Len(indexObj[k])) \o indexObj[k]

SaveRecord(k) ==
    /\ phase = "records" /\ k \in unsaved
    /\ dbFile' = dbFile \o Record(k)
    /\ written' = Append(written, [key |-> k, value |-> indexObj[k], end |-> Len(dbFile')])
    /\ unsaved' = unsaved \ {k}
    /\ UNCHANGED <<backend, processVars, indexObj, reader, durable, statVars, sessionVars, torn>>

\* The database is deleted and the process exits.
CloseDB ==
    /\ \/ phase = "records" /\ unsaved = {} /\ indexObj' = None /\ durable' = indexObj
       \/ phase = "savedb" /\ backend = "LEVEL_DB" /\ UNCHANGED <<indexObj, durable>>
    /\ phase' = "down"
    /\ stat' = ZeroStat
    /\ UNCHANGED <<backend, crashes, lives, dbFile, reader, unsaved, written, statFile, due,
                   exact, sessionVars, torn>>

-----------------------------------------------------------------------------
(* The statistics.                                                         *)

\* A counter of the file, or what the constructor left.
Loaded(i) == IF i <= Len(statFile) THEN statFile[i] ELSE 0

\* AbsIndex::AbsIndex.
LoadStat ==
    /\ phase = "loadstat"
    /\ phase' = "up"
    /\ stat' = [c \in DOMAIN stat |-> Loaded(CHOOSE i \in DOMAIN Counter : Counter[i] = c)]
    /\ reader' = NewReader
    /\ UNCHANGED <<backend, crashes, lives, indexObj, dbFile, unsaved, written, durable, statFile,
                   due, exact, sessionVars, torn>>

\* AbsIndex::~AbsIndex: the file is truncated, and written when the stream is closed.
TruncStat ==
    /\ phase = "savestat"
    /\ phase' = "stat"
    /\ statFile' = << >>
    /\ UNCHANGED <<backend, crashes, lives, storeVars, stat, due, exact, sessionVars, torn>>

WriteStat ==
    /\ phase = "stat"
    /\ phase' = "savedb"
    /\ statFile' = statFile \o [i \in DOMAIN Counter |-> stat[Counter[i]]]
    /\ UNCHANGED <<backend, crashes, lives, storeVars, stat, due, exact, sessionVars, torn>>

-----------------------------------------------------------------------------
(* DataReceiver::Run of session s                                          *)

Move(s, loc) == pc' = [pc EXCEPT ![s] = loc]

\* counter += n, without a lock: a load ...
AddLoad(s, from, to, counter) ==
    /\ phase = "up" /\ pc[s] = from
    /\ reg' = [reg EXCEPT ![s] = stat[counter]]
    /\ exact' = (exact /\ \A t \in Session \ {s} : pc[t] # to)
    /\ Move(s, to)
    /\ UNCHANGED <<backend, processVars, storeVars, stat, statFile, due, hashVars, torn>>

\* ... and a store.
AddStore(s, from, to, counter, n) ==
    /\ phase = "up" /\ pc[s] = from
    /\ stat' = [stat EXCEPT ![counter] = reg[s] + n]
    /\ due' = [due EXCEPT ![counter] = @ + n]
    /\ Move(s, to)
    /\ reg' = [reg EXCEPT ![s] = 0]
    /\ UNCHANGED <<backend, processVars, storeVars, statFile, exact, hashVars, torn>>

AddLogicalSize(s) ==
    \/ AddLoad(s, "idle", "size", "logicalDataSize")
    \/ AddStore(s, "size", "between", "logicalDataSize", FileSize[s])

AddLogicalNum(s) ==
    \/ AddLoad(s, "between", "num", "logicalChunkNum")
    \/ AddStore(s, "num", "batch", "logicalChunkNum", ChunkNum[s])

\* Fault: one context for all sessions.
ContextShared(s) == CHOOSE t \in Session : TRUE

\* Whose context the session hands to GenerateHash: its own.
Context(s) == s

\* GenerateHash: EVP_DigestInit_ex, for the next chunk of the batch.
HashInit(s, x) ==
    /\ phase = "up" /\ pc[s] = "batch"
    /\ Move(s, "update")
    /\ chunk' = [chunk EXCEPT ![s] = x]
    /\ mdCtx' = [mdCtx EXCEPT ![Context(s)] = DigestInit(@)]
    /\ UNCHANGED <<backend, processVars, storeVars, statVars, reg, hash, torn>>

\* EVP_DigestUpdate.
HashUpdate(s) ==
    /\ phase = "up" /\ pc[s] = "update"
    /\ Move(s, "final")
    /\ mdCtx' = [mdCtx EXCEPT ![Context(s)] = DigestUpdate(@, chunk[s])]
    /\ UNCHANGED <<backend, processVars, storeVars, statVars, reg, chunk, hash, torn>>

\* EVP_DigestFinal_ex and EVP_MD_CTX_reset.
HashFinal(s) ==
    /\ phase = "up" /\ pc[s] = "final"
    /\ Move(s, "hashed")
    /\ hash' = [hash EXCEPT ![s] = DigestFinal(mdCtx[Context(s)])]
    /\ mdCtx' = [mdCtx EXCEPT ![Context(s)] = NewMdCtx]
    /\ UNCHANGED <<backend, processVars, storeVars, statVars, reg, chunk, torn>>

GenerateHash(s) == HashUpdate(s) \/ HashFinal(s) \/ \E x \in Chunk : HashInit(s, x)

\* After a chunk its variables are overwritten by the next one.
NextEntry(s) ==
    /\ Move(s, "batch")
    /\ chunk' = [chunk EXCEPT ![s] = << >>] /\ hash' = [hash EXCEPT ![s] = << >>]

\* Fault: the answer of the index is not looked at.
NewChunkAlways(s) ==
    /\ phase = "up" /\ pc[s] = "hashed"
    /\ UpdateIndexStore(hash[s], Name[s])
    /\ stat' = [stat EXCEPT !["uniqueChunkNum"] = @ + 1, !["uniqueDataSize"] = @ + Len(chunk[s])]
    /\ NextEntry(s)
    /\ UNCHANGED <<backend, processVars, dbFile, reader, unsaved, written, statFile, due, exact,
                   reg, mdCtx, torn>>

\* The rest of ProcessOneBatch for one chunk, with outIdxLck_ held: a chunk that is new is
\* stored and counted.
NewChunk(s) ==
    /\ phase = "up" /\ pc[s] = "hashed" /\ ~ ReadIndexStore(hash[s])
    /\ UpdateIndexStore(hash[s], Name[s])
    /\ stat' = [stat EXCEPT !["uniqueChunkNum"] = @ + 1, !["uniqueDataSize"] = @ + Len(chunk[s])]
    /\ NextEntry(s)
    /\ UNCHANGED <<backend, processVars, dbFile, reader, unsaved, written, statFile, due, exact,
                   reg, mdCtx, torn>>

KnownChunk(s) ==
    /\ phase = "up" /\ pc[s] = "hashed" /\ ReadIndexStore(hash[s])
    /\ NextEntry(s)
    /\ UNCHANGED <<backend, processVars, storeVars, statVars, reg, mdCtx, torn>>

EndSession(s) ==
    /\ phase = "up" /\ pc[s] = "batch"
    /\ Move(s, "ended")
    /\ UNCHANGED <<backend, processVars, storeVars, statVars, reg, hashVars, torn>>

-----------------------------------------------------------------------------
(* The process                                                             *)

Joined == \A s \in Session : pc[s] \in {"idle", "ended"}

\* CTRLC has joined the sessions and deletes ServerOptThread.
Close ==
    /\ phase = "up" /\ Joined
    /\ phase' = "savestat"
    /\ UNCHANGED <<backend, crashes, lives, storeVars, statVars, sessionVars, torn>>

\* The process ends.  A file that is being written keeps some beginning of it.
Crash ==
    /\ phase # "down" /\ crashes < MaxCrashes
    /\ phase' = "down" /\ crashes' = crashes + 1
    /\ indexObj' = IF backend = "LEVEL_DB" THEN indexObj ELSE None
    /\ stat' = ZeroStat
    /\ IF phase = "records" THEN \E n \in 0 .. Len(dbFile) : dbFile' = SubSeq(dbFile, 1, n)
                            ELSE UNCHANGED dbFile
    /\ IF phase = "stat"
       THEN \E n \in 0 .. Len(Counter) : statFile' = [i \in 1 .. n |-> stat[Counter[i]]]
       ELSE UNCHANGED statFile
    /\ durable' = IF phase = "records" THEN None ELSE durable
    /\ torn' = (torn \/ phase \in {"stat", "savedb", "records"})
    /\ exact' = FALSE
    /\ pc' = [s \in Session |-> IF pc[s] = "idle" THEN "idle" ELSE "ended"]
    /\ reg' = [s \in Session |-> 0] /\ mdCtx' = [s \in Session |-> NewMdCtx]
    /\ chunk' = [s \in Session |-> << >>] /\ hash' = [s \in Session |-> << >>]
    /\ unsaved' = {} /\ reader' = NewReader
    /\ UNCHANGED <<backend, lives, written, due>>

Receiver(s) ==
    \/ AddLogicalSize(s) \/ AddLogicalNum(s) \/ EndSession(s)
    \/ GenerateHash(s) \/ NewChunk(s) \/ KnownChunk(s)

Next ==
    \/ OpenDB \/ LoadRecord \/ LoadEnd \/ LoadStat
    \/ \E s \in Session : Receiver(s)
    \/ Close \/ TruncStat \/ WriteStat \/ TruncDB \/ CloseDB
    \/ \E k \in DOMAIN indexObj : SaveRecord(k)
    \/ Crash

Spec == Init /\ [][Next]_vars

-----------------------------------------------------------------------------
(* Properties                                                              *)

\* Types.
TypeOK ==
    /\ backend \in CreateDatabase /\ torn \in BOOLEAN /\ exact \in BOOLEAN
    /\ phase \in {"down", "load", "loadstat", "up", "savestat", "stat", "savedb", "records"}
    /\ \A k \in DOMAIN indexObj : k \in Seq(Byte) /\ indexObj[k] \in Seq(Byte)
    /\ dbFile \in Seq(Byte) /\ unsaved \subseteq Seq(Byte)
    /\ reader.pos \in Nat /\ reader.key \in Seq(Byte) /\ reader.value \in Seq(Byte)
    /\ stat \in [DOMAIN ZeroStat -> Nat] /\ due \in [DOMAIN ZeroStat -> Nat]
    /\ statFile \in Seq(Nat) /\ Len(statFile) <= Len(Counter)
    /\ pc \in [Session -> {"idle", "size", "between", "num", "batch", "update", "final", "hashed", "ended"}]
    /\ reg \in [Session -> Nat] /\ chunk \in [Session -> Chunk \union {<< >>}]
    /\ \A s \in Session : hash[s] \in Seq(Byte) /\ mdCtx[s].fed \in Seq(Byte)
    /\ crashes \in 0 .. MaxCrashes /\ lives \in 0 .. MaxLives

\* LoadFaithful: wherever the saving was cut, OpenDB ends with the records that are
\* complete in the file, each with its value, and at most one entry more, which is there
\* only if a record was cut.  If the records around the cut are of chunks, it has the key
\* of no chunk but the cut record's.  (Entries that were made up are saved like others, and
\* from three of them the key of a chunk can come together.)  Whatever was made up is a
\* string of bytes (TypeOK).
LoadFaithful ==
    LET n == Cardinality({i \in DOMAIN written : written[i].end <= Len(dbFile)})
        cut == IF n = 0 THEN dbFile # << >> ELSE Len(dbFile) > written[n].end
        extra == DOMAIN indexObj \ {written[i].key : i \in 1 .. n}
    IN  /\ TypeOK
        /\ phase = "loadstat" /\ backend = "IN_MEMORY" =>
            /\ \A i \in 1 .. n : ReadIndexStore(written[i].key) /\ indexObj[written[i].key] = written[i].value
            /\ Cardinality(extra) <= (IF cut THEN 1 ELSE 0)
            /\ {written[i].key : i \in {n, n + 1} \intersect DOMAIN written} \subseteq Key =>
                 extra \intersect Key \subseteq (IF cut THEN {written[n + 1].key} ELSE {})

\* The chunk of a fingerprint.
Preimage(k) == CHOOSE x \in Chunk : Hash[x] = k

\* Statistics: the counters are right across sessions and restarts.
\*  - The counters of stored chunks are the number and the size of the entries.  In memory
\*    only a save that was cut short breaks this.  With LevelDB, whose entries survive a
\*    crash that the counters do not, the counters are never ahead.
\*  - Two sessions that start together may lose one of their additions to the logical
\*    counters, and a crash those since the last save; nothing else does, and no addition
\*    is ever counted twice.
Statistics ==
    LET size == MapThenSumSet(LAMBDA k : Len(Preimage(k)), DOMAIN indexObj \intersect Key)
        num == Cardinality(DOMAIN indexObj)
    IN  /\ phase = "up" /\ backend = "IN_MEMORY" /\ ~ torn =>
              stat["uniqueChunkNum"] = num /\ stat["uniqueDataSize"] = size
        /\ phase = "up" /\ backend = "LEVEL_DB" =>
              stat["uniqueChunkNum"] <= num /\ stat["uniqueDataSize"] <= size
        /\ \A i \in 1 .. 2 :
              /\ stat[Counter[i]] <= due[Counter[i]]
              /\ exact /\ phase = "up" => stat[Counter[i]] = due[Counter[i]]

\* The chunks that encryption and decryption leave as they are.
Recovered == {x \in Chunk \union {<< >>} : RoundTrip(x)}

\* CryptoFaithful: the fingerprint a session looks up and stores a chunk under is that of
\* the chunk, although all sessions hash at the same time, with one CryptoPrimitive and
\* without a lock.  And a chunk a session holds comes back from EncryptWithKey followed by
\* DecryptWithKey, and from SessionKeyEnc followed by SessionKeyDec, whatever the cipher.
CryptoFaithful ==
    \A s \in Session :
        /\ pc[s] = "hashed" => hash[s] = Hash[chunk[s]]
        /\ chunk[s] \in Recovered

\* SavedSurvives: the entries of the last complete save (with LevelDB: every entry) are
\* there whenever the server is up, with the container they were saved with, unless a
\* later save was cut short.
SavedSurvives ==
    phase = "up" =>
        \A k \in DOMAIN durable : ReadIndexStore(k) /\ indexObj[k] = durable[k]
=============================================================================
