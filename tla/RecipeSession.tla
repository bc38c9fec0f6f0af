--------------------------- MODULE RecipeSession ---------------------------
(***************************************************************************)
(* The three recipe files of a name: written by an upload session (the     *)
(* streams of ClientVar, fed by DataReceiver) and sent to an edge by a     *)
(* recipe download (EdgeDownloadRecipeThread and RecipeSender).            *)
(*                                                                         *)
(* A file is a header and entries, all of the upload that opened it: the   *)
(* number ver of that upload and a length say what it holds, with the      *)
(* header as its first item.  What an upload writes is buffered by its     *)
(* stream, and reaches the file when the buffer spills or is closed.       *)
(*                                                                         *)
(* One upload session is modelled: two that write one name at the same     *)
(* time are not.                                                           *)
(***************************************************************************)
EXTENDS Integers, Sequences, FiniteSetsExt, SequencesExt

CONSTANTS
    Name,                \* file names
    None,
    SendRecipeBatchSize, \* entries of a message to the edge
    Batches,             \* bound: kinds and numbers of entries of messages from the edge
    MaxEntries,          \* bound: entries of a recipe
    MaxFiles,            \* bound: files uploaded
    MaxCrashes           \* bound: ends of the process

\* In the order they are sent.
Kinds == <<"file", "secure", "key">>
Kind  == ToSet(Kinds)

ASSUME RecipeAssumption ==
    /\ None \notin Name
    /\ SendRecipeBatchSize \in Nat \ {0}
    /\ Batches \subseteq Kind \X Nat /\ MaxEntries \in Nat
    /\ MaxFiles \in Nat /\ MaxCrashes \in Nat

VARIABLES
    up,               \* the process runs
    disk,             \* the recipe files: [ver, len], ver = 0 when there is none
    writing,          \* name of the file of the upload session, None without one
    written,          \* items its streams were given, of each kind
    files,            \* files opened so far
    spc,              \* the session thread of the download
    rpc,              \* the RecipeSender thread
    req,              \* the name asked for
    kind, pos,        \* recipe being sent, items of it that were read
    eof,              \* the variable end of the loop
    stored,           \* history: what the last upload of a name was given
    due, got,         \* history: what a download is to get, and got (None and
                      \* nothing when the name is uploaded at the same time, or the
                      \* edge did not wait for the response)
    crashes

uploadVars   == <<writing, written, files, stored>>
downloadVars == <<spc, rpc, req, kind, pos, eof, due, got>>
vars == <<up, disk, uploadVars, downloadVars, crashes>>

Absent == [k \in Kind |-> [ver |-> 0, len |-> 0]]
Exists(n) == \A k \in Kind : disk[n][k].ver # 0

NothingYet == [k \in Kind |-> << >>]

Init ==
    /\ up = TRUE
    /\ disk = [n \in Name |-> Absent]
    /\ writing = None /\ written = [k \in Kind |-> 0] /\ files = 0
    /\ stored = [n \in Name |-> None]
    /\ spc = "off" /\ rpc = "off" /\ req = None
    /\ kind = 1 /\ pos = 0 /\ eof = FALSE
    /\ due = None /\ got = NothingYet
    /\ crashes = 0

-----------------------------------------------------------------------------
(* The upload session                                                      *)

\* Fault: the secure recipe is not closed, as in DestoryUploadBuffer, and not by its destructor.
ClosedButSecure ==
    IF writing = None THEN disk
    ELSE [disk EXCEPT ![writing] = [k \in Kind |-> IF k = "secure" THEN @[k] ELSE [ver |-> files, len |-> written[k]]]]

\* The files as they are when the streams are closed: all that was written.
Closed ==
    IF writing = None THEN disk
    ELSE [disk EXCEPT ![writing] = [k \in Kind |-> [ver |-> files, len |-> written[k]]]]

ClosedStored ==
    IF writing = None THEN stored
    ELSE [stored EXCEPT ![writing] = [ver |-> files, n |-> [k \in Kind |-> written[k] - 1]]]

\* The streams are opened, which truncates the files, and are given the header.
OpenFiles(n, before, beforeStored) ==
    /\ files < MaxFiles
    /\ files' = files + 1
    /\ writing' = n
    /\ written' = [k \in Kind |-> 1]
    /\ disk' = [before EXCEPT ![n] = [k \in Kind |-> [ver |-> files + 1, len |-> 0]]]
    /\ stored' = [beforeStored EXCEPT ![n] = None]
    /\ due' = IF req = n THEN None ELSE due
    /\ got' = IF req = n THEN NothingYet ELSE got
    /\ UNCHANGED <<up, spc, rpc, req, kind, pos, eof, crashes>>

\* EDGE_MIGRATE_LOGIN: a ClientVar for the file and DataReceiver::Run (whose statistics
\* are left out).
UploadLogin(n) == up /\ writing = None /\ OpenFiles(n, disk, stored)

\* EDGE_MIGRATION_NEWFILE: the files are closed and those of the next name opened.
ChangeFile(n) == up /\ writing # None /\ OpenFiles(n, Closed, ClosedStored)

\* EDGE_UPLOAD_RECIPE, EDGE_UPLOAD_SEC_RECIPE, EDGE_UPLOAD_KEY_RECIPE: m entries.
WriteRecipe(k, m) ==
    /\ up /\ writing # None
    /\ written[k] + m <= 1 + MaxEntries
    /\ written' = [written EXCEPT ![k] = @ + m]
    /\ UNCHANGED <<up, disk, writing, files, stored, downloadVars, crashes>>

\* The buffer of a stream is full and written out.
Spill(k) ==
    /\ up /\ writing # None /\ disk[writing][k].len < written[k]
    /\ disk' = [disk EXCEPT ![writing][k].len = written[k]]
    /\ UNCHANGED <<up, uploadVars, downloadVars, crashes>>

\* The edge closes and the session ends.  DestoryUploadBuffer closes the key recipe
\* twice and the secure recipe not at all; the destructor of its stream does.
UploadEnd ==
    /\ up /\ writing # None
    /\ disk' = Closed /\ stored' = ClosedStored
    /\ writing' = None /\ written' = [k \in Kind |-> 0]
    /\ UNCHANGED <<up, files, downloadVars, crashes>>

-----------------------------------------------------------------------------
(* The download session                                                    *)

DownloadLogin(n) ==
    /\ up /\ spc = "off"
    /\ spc' = "check" /\ req' = n
    /\ UNCHANGED <<up, disk, uploadVars, rpc, kind, pos, eof, due, got, crashes>>

\* The three files exist: they are opened, and RecipeSender is started on them.
Accept ==
    /\ up /\ spc = "check" /\ Exists(req)
    /\ spc' = "header" /\ rpc' = "wait"
    /\ kind' = 1 /\ pos' = 0 /\ eof' = FALSE
    /\ due' = stored[req] /\ got' = NothingYet
    /\ UNCHANGED <<up, disk, uploadVars, req, crashes>>

\* Reading the header: a stream that finds none reads nothing afterwards.
HeaderRead(k) == IF disk[req][Kinds[k]].len > 0 THEN 1 ELSE 0

\* RecipeSender reads the file recipe, and its header has not been read.
Overtaking == spc = "header" /\ kind = 1 /\ rpc \in {"read", "ack"}

Positions == 0 .. MaxEntries + 1

\* The session thread reads the header of the file recipe from the stream that
\* RecipeSender will read on from, and sends it as its response.  If RecipeSender has
\* begun, two threads use the stream without a lock: it may stand anywhere afterwards.
SendHeader ==
    /\ up /\ spc = "header"
    /\ pos' \in IF rpc = "wait" THEN {HeaderRead(1)} ELSE IF Overtaking THEN Positions ELSE {pos}
    /\ spc' = "join"
    /\ UNCHANGED <<up, disk, uploadVars, rpc, req, kind, eof, due, got, crashes>>

\* EDGE_RECEIVE_READY.  The edge is to send it when it has the response; one that does
\* not wait starts RecipeSender before the header is read.
Ready ==
    /\ up /\ rpc = "wait"
    /\ rpc' = "read"
    /\ IF spc = "header" THEN due' = None /\ got' = NothingYet ELSE UNCHANGED <<due, got>>
    /\ UNCHANGED <<up, disk, uploadVars, spc, req, kind, pos, eof, crashes>>

\* What a read of a batch returns.
Unread == LET file == disk[req][Kinds[kind]] IN
    IF pos = 0 \/ file.len < pos THEN 0 ELSE file.len - pos

readCnt == IF Unread < SendRecipeBatchSize THEN Unread ELSE SendRecipeBatchSize

\* Fault: the loop is left after one batch.
AtEndAlways == TRUE

\* eof() after the read: it asked for more than there was.
AtEnd == Unread < SendRecipeBatchSize

Entries == LET v == disk[req][Kinds[kind]].ver IN
    [i \in 1 .. readCnt |-> <<v, pos - 1 + i>>]

\* The next recipe, past its header, or CLOUD_SEND_RECIPE_END after the last one.
NextRecipe ==
    /\ eof' = FALSE
    /\ IF kind = Len(Kinds)
       THEN rpc' = "last" /\ UNCHANGED <<kind, pos>>
       ELSE rpc' = "read" /\ kind' = kind + 1 /\ pos' = HeaderRead(kind + 1)

\* A batch is read and sent.
SendBatch ==
    /\ up /\ rpc = "read" /\ ~ Overtaking /\ readCnt > 0
    /\ got' = IF due = None THEN got ELSE [got EXCEPT ![Kinds[kind]] = @ \o Entries]
    /\ pos' = pos + readCnt
    /\ eof' = AtEnd
    /\ rpc' = "ack"
    /\ UNCHANGED <<up, disk, uploadVars, spc, req, kind, due, crashes>>

\* Nothing was left to read.
NoBatch ==
    /\ up /\ rpc = "read" /\ ~ Overtaking /\ readCnt = 0
    /\ NextRecipe
    /\ UNCHANGED <<up, disk, uploadVars, spc, req, due, got, crashes>>

\* A batch, or none, from the stream whose header is still to be read: whatever bytes
\* the two threads leave each other (SendHeader says where that ends).
ReadOvertaking ==
    /\ up /\ rpc = "read" /\ Overtaking
    /\ \/ NextRecipe
       \/ rpc' = "ack" /\ eof' \in BOOLEAN /\ UNCHANGED <<kind, pos>>
    /\ UNCHANGED <<up, disk, uploadVars, spc, req, due, got, crashes>>

\* EDGE_RECEIVE_READY after a batch.
Ack ==
    /\ up /\ rpc = "ack"
    /\ IF eof THEN NextRecipe ELSE rpc' = "read" /\ UNCHANGED <<kind, pos, eof>>
    /\ UNCHANGED <<up, disk, uploadVars, spc, req, due, got, crashes>>

\* The edge has all and closes, and RecipeSender frees the connection; or it sends
\* something, which ends the session too (see Connection).
EdgeLeaves ==
    /\ up /\ rpc = "last"
    /\ rpc' = "done"
    /\ UNCHANGED <<up, disk, uploadVars, spc, req, kind, pos, eof, due, got, crashes>>

NoDownload ==
    /\ spc' = "off" /\ rpc' = "off" /\ req' = None
    /\ kind' = 1 /\ pos' = 0 /\ eof' = FALSE /\ due' = None /\ got' = NothingYet

\* The session thread joins RecipeSender and deletes the ClientVar.
Join ==
    /\ up /\ spc = "join" /\ rpc = "done"
    /\ NoDownload
    /\ UNCHANGED <<up, disk, uploadVars, crashes>>

-----------------------------------------------------------------------------
\* exit(EXIT_FAILURE): what the streams of an upload hold is lost.
Exit ==
    /\ crashes < MaxCrashes
    /\ up' = FALSE
    /\ crashes' = crashes + 1
    /\ writing' = None /\ written' = [k \in Kind |-> 0]
    /\ NoDownload
    /\ UNCHANGED <<disk, files, stored>>

\* CLOUD_FILE_NON_EXIST.  curClient was never set and is deleted nevertheless: the
\* process goes on or ends, as the stack happens to be.
Reject ==
    /\ up /\ spc = "check" /\ ~ Exists(req)
    /\ \/ /\ NoDownload
          /\ UNCHANGED <<up, disk, uploadVars, crashes>>
       \/ Exit

\* The edge hangs up where a message of it is awaited, or sends a wrong one, or the
\* response cannot be sent.
HangUp ==
    /\ up /\ (rpc \in {"wait", "ack"} \/ spc = "header")
    /\ Exit

\* The process ends for a reason of another session.
Crash == up /\ Exit

Restart ==
    /\ ~ up
    /\ up' = TRUE
    /\ UNCHANGED <<disk, uploadVars, downloadVars, crashes>>

Upload ==
    \/ \E n \in Name : UploadLogin(n) \/ ChangeFile(n)
    \/ \E b \in Batches : WriteRecipe(b[1], b[2])
    \/ \E k \in Kind : Spill(k)
    \/ UploadEnd

Download ==
    \/ \E n \in Name : DownloadLogin(n)
    \/ Accept \/ SendHeader \/ Ready \/ SendBatch \/ NoBatch \/ ReadOvertaking \/ Ack \/ EdgeLeaves \/ Join

Next == Upload \/ Download \/ Reject \/ HangUp \/ Crash \/ Restart

Spec == Init /\ [][Next]_vars

-----------------------------------------------------------------------------
(* Properties                                                              *)

File == [ver : 0 .. MaxFiles, len : 0 .. MaxEntries + 1]
Given == [ver : 1 .. MaxFiles, n : [Kind -> 0 .. MaxEntries]] \union {None}

\* Types; a download has RecipeSender from the moment its files are opened.
TypeOK ==
    /\ up \in BOOLEAN /\ disk \in [Name -> [Kind -> File]]
    /\ writing \in Name \union {None} /\ written \in [Kind -> 0 .. MaxEntries + 1]
    /\ files \in 0 .. MaxFiles /\ crashes \in 0 .. MaxCrashes
    /\ stored \in [Name -> Given]
    /\ spc \in {"off", "check", "header", "join"}
    /\ rpc \in {"off", "wait", "read", "ack", "last", "done"}
    /\ rpc = "off" <=> spc \in {"off", "check"}
    /\ req \in Name \union {None} /\ (req = None <=> spc = "off")
    /\ kind \in DOMAIN Kinds /\ pos \in Positions /\ eof \in BOOLEAN
    /\ due \in Given /\ got \in [Kind -> Seq((1 .. MaxFiles) \X (1 .. MaxEntries))]

\* When a session has changed to another file or has ended (ChangeFile,
\* DestoryUploadBuffer), the three recipes of the file are complete on disk, and stay so
\* through crashes and restarts until the name is uploaded again.
ClosedOnDisk ==
    \A n \in Name : stored[n] # None =>
        \A k \in Kind : disk[n][k] = [ver |-> stored[n].ver, len |-> 1 + stored[n].n[k]]

Whole(k) == [i \in 1 .. due.n[k] |-> <<due.ver, i>>]

\* RecipeSender sends of every recipe the entries of the last upload of the name, in
\* order, without the header, none twice; and all of them before CLOUD_SEND_RECIPE_END,
\* also when their number is a multiple of the batch size, or zero.  It says nothing of
\* a name that was being uploaded during the download, nor of an edge that asks for the
\* recipes before it has the response with the header.
RecipeRestored ==
    /\ TypeOK
    /\ due # None /\ spc # "off" =>
          \A k \in Kind : /\ IsPrefix(got[k], Whole(k))
                          /\ rpc \in {"last", "done"} => got[k] = Whole(k)
=============================================================================
