------------------------ MODULE RecipeSessionProofs ------------------------
(***************************************************************************)
(* What an upload session leaves behind in the recipe files of a name, for *)
(* any names, sizes and number of uploads, downloads and crashes.          *)
(***************************************************************************)
EXTENDS RecipeSession, SequenceTheorems, TLAPS

\* The session's streams were given at least the header, and the name it writes does not
\* count as stored.
StreamInv ==
    /\ files \in 0 .. MaxFiles
    /\ disk \in [Name -> [Kind -> File]]
    /\ stored \in [Name -> Given]
    /\ writing \in Name \union {None}
    /\ written \in [Kind -> 0 .. MaxEntries + 1]
    /\ writing # None => /\ stored[writing] = None /\ files >= 1
                         /\ \A k \in Kind : written[k] >= 1

\* Closing the streams keeps the types, and leaves in the files what is recorded as stored.
LEMMA Closing ==
    ASSUME StreamInv, ClosedOnDisk
    PROVE  /\ Closed \in [Name -> [Kind -> File]]
           /\ ClosedStored \in [Name -> Given]
           /\ \A n \in Name : ClosedStored[n] # None =>
                 \A k \in Kind : Closed[n][k] = [ver |-> ClosedStored[n].ver, len |-> 1 + ClosedStored[n].n[k]]
<1>1. CASE writing = None
  BY <1>1 DEF StreamInv, ClosedOnDisk, Closed, ClosedStored
<1>2. CASE writing # None
  <2> DEFINE file == [k \in Kind |-> [ver |-> files, len |-> written[k]]]
             given == [ver |-> files, n |-> [k \in Kind |-> written[k] - 1]]
  <2>1. writing \in Name BY <1>2 DEF StreamInv
  <2>2. Closed = [disk EXCEPT ![writing] = file] BY <1>2 DEF Closed
  <2>3. ClosedStored = [stored EXCEPT ![writing] = given] BY <1>2 DEF ClosedStored
  <2>4. file \in [Kind -> File] BY RecipeAssumption DEF StreamInv, File
  <2>5. given \in Given
    <3>1. \A k \in Kind : written[k] - 1 \in 0 .. MaxEntries
      BY <1>2, RecipeAssumption DEF StreamInv
    <3>2. files \in 1 .. MaxFiles BY <1>2, RecipeAssumption DEF StreamInv
    <3> QED BY <3>1, <3>2 DEF Given
  <2>6. \A k \in Kind : file[k] = [ver |-> given.ver, len |-> 1 + given.n[k]]
    BY RecipeAssumption DEF StreamInv
  <2> HIDE DEF file, given
  <2>7. Closed \in [Name -> [Kind -> File]]
    BY <2>1, <2>2, <2>4 DEF StreamInv
  <2>8. ClosedStored \in [Name -> Given]
    BY <2>1, <2>3, <2>5 DEF StreamInv
  <2>9. \A n \in Name : n # writing => Closed[n] = disk[n] /\ ClosedStored[n] = stored[n]
    BY <2>1, <2>2, <2>3 DEF StreamInv
  <2>10. Closed[writing] = file /\ ClosedStored[writing] = given
    BY <2>1, <2>2, <2>3 DEF StreamInv
  <2> QED BY <2>6, <2>7, <2>8, <2>9, <2>10 DEF ClosedOnDisk
<1> QED BY <1>1, <1>2

\* Opening a name keeps both parts of the invariant, whatever was on disk before.
LEMMA Opening ==
    ASSUME StreamInv, NEW n \in Name, NEW before, NEW given,
           before \in [Name -> [Kind -> File]],
           given \in [Name -> Given],
           \A m \in Name : given[m] # None =>
               \A k \in Kind : before[m][k] = [ver |-> given[m].ver, len |-> 1 + given[m].n[k]],
           OpenFiles(n, before, given)
    PROVE  StreamInv' /\ ClosedOnDisk'
<1> DEFINE file == [k \in Kind |-> [ver |-> files + 1, len |-> 0]]
<1>1. file \in [Kind -> File] BY RecipeAssumption DEF StreamInv, File, OpenFiles
<1>2. disk' = [before EXCEPT ![n] = file] /\ stored' = [given EXCEPT ![n] = None]
  BY DEF OpenFiles
<1> HIDE DEF file
<1>3. disk' \in [Name -> [Kind -> File]] BY <1>1, <1>2
<1>4. stored' \in [Name -> Given] /\ stored'[n] = None
  BY <1>2 DEF Given
<1>5. \A m \in Name : m # n => disk'[m] = before[m] /\ stored'[m] = given[m] BY <1>2
<1>6. files' \in 1 .. MaxFiles BY RecipeAssumption DEF OpenFiles, StreamInv
<1>7. writing' = n /\ written' = [k \in Kind |-> 1] BY DEF OpenFiles
<1>8. 1 \in 0 .. MaxEntries + 1 BY RecipeAssumption
<1>9. StreamInv' BY <1>3, <1>4, <1>6, <1>7, <1>8, RecipeAssumption DEF StreamInv
<1>10. ClosedOnDisk' BY <1>4, <1>5 DEF ClosedOnDisk
<1> QED BY <1>9, <1>10

\* Both parts of the invariant hold throughout.
LEMMA StreamsKept == Spec => [](StreamInv /\ ClosedOnDisk)
<1>1. Init => StreamInv /\ ClosedOnDisk
  <2> SUFFICES ASSUME Init PROVE StreamInv /\ ClosedOnDisk
    OBVIOUS
  <2>1. Absent \in [Kind -> File] BY RecipeAssumption DEF Absent, File
  <2>2. \A n \in Name : stored[n] = None BY DEF Init
  <2>3. 0 \in 0 .. MaxEntries + 1 /\ 0 \in 0 .. MaxFiles BY RecipeAssumption
  <2> QED BY <2>1, <2>2, <2>3 DEF Init, StreamInv, ClosedOnDisk, Given
<1>2. StreamInv /\ ClosedOnDisk /\ [Next]_vars => StreamInv' /\ ClosedOnDisk'
  <2> SUFFICES ASSUME StreamInv, ClosedOnDisk, [Next]_vars PROVE StreamInv' /\ ClosedOnDisk'
    OBVIOUS
  <2>1. ASSUME NEW n \in Name, UploadLogin(n)
        PROVE  StreamInv' /\ ClosedOnDisk'
    <3>1. OpenFiles(n, disk, stored) BY <2>1 DEF UploadLogin
    <3> QED BY <3>1, Opening DEF StreamInv, ClosedOnDisk
  <2>2. ASSUME NEW n \in Name, ChangeFile(n)
        PROVE  StreamInv' /\ ClosedOnDisk'
    <3>1. OpenFiles(n, Closed, ClosedStored) BY <2>2 DEF ChangeFile
    <3> QED BY <3>1, Opening, Closing
  <2>3. ASSUME NEW k \in Kind, NEW m \in Nat, WriteRecipe(k, m)
        PROVE  StreamInv' /\ ClosedOnDisk'
    <3>1. written' \in [Kind -> 0 .. MaxEntries + 1] /\ \A j \in Kind : written'[j] >= written[j]
      BY <2>3, RecipeAssumption DEF WriteRecipe, StreamInv
    <3> QED BY <2>3, <3>1 DEF WriteRecipe, StreamInv, ClosedOnDisk
  <2>4. ASSUME NEW k \in Kind, Spill(k)
        PROVE  StreamInv' /\ ClosedOnDisk'
    <3>1. writing \in Name /\ stored[writing] = None BY <2>4 DEF Spill, StreamInv
    <3>2. disk' \in [Name -> [Kind -> File]]
      <4>1. disk' = [disk EXCEPT ![writing] = [disk[writing] EXCEPT ![k] = [disk[writing][k] EXCEPT !.len = written[k]]]]
        BY <2>4 DEF Spill
      <4>2. [disk[writing][k] EXCEPT !.len = written[k]] \in File
        BY <3>1 DEF StreamInv, File
      <4>3. [disk[writing] EXCEPT ![k] = [disk[writing][k] EXCEPT !.len = written[k]]] \in [Kind -> File]
        BY <3>1, <4>2 DEF StreamInv
      <4> QED BY <3>1, <4>1, <4>3 DEF StreamInv
    <3>3. \A n \in Name : n # writing => disk'[n] = disk[n]
      BY <2>4, <3>1 DEF Spill, StreamInv
    <3>4. UNCHANGED <<writing, written, files, stored>> BY <2>4 DEF Spill, uploadVars
    <3> QED BY <3>1, <3>2, <3>3, <3>4 DEF StreamInv, ClosedOnDisk
  <2>5. CASE UploadEnd
    <3>1. disk' = Closed /\ stored' = ClosedStored /\ files' = files /\ writing' = None
      BY <2>5 DEF UploadEnd
    <3>2. written' \in [Kind -> 0 .. MaxEntries + 1] BY <2>5, RecipeAssumption DEF UploadEnd
    <3>3. StreamInv' BY <3>1, <3>2, Closing DEF StreamInv
    <3> QED BY <3>1, <3>3, Closing DEF ClosedOnDisk
  <2>6. CASE Download \/ Restart \/ UNCHANGED vars
    <3>1. UNCHANGED <<disk, files, stored, writing, written>>
      BY <2>6 DEF Download, DownloadLogin, Accept, SendHeader, Ready, SendBatch, NoBatch,
         ReadOvertaking, Ack, EdgeLeaves, Join, Restart, uploadVars, vars
    <3> QED BY <3>1 DEF StreamInv, ClosedOnDisk
  <2>7. CASE Exit
    <3>1. written' \in [Kind -> 0 .. MaxEntries + 1] BY <2>7, RecipeAssumption DEF Exit
    <3> QED BY <2>7, <3>1 DEF Exit, StreamInv, ClosedOnDisk
  <2>8. CASE Reject
    <3>1. CASE Exit BY <3>1, <2>7
    <3>2. CASE ~ Exit
      <4>1. UNCHANGED <<disk, files, stored, writing, written>>
        BY <2>8, <3>2 DEF Reject, uploadVars
      <4> QED BY <4>1 DEF StreamInv, ClosedOnDisk
    <3> QED BY <3>1, <3>2
  <2>9. \A b \in Batches : b[1] \in Kind /\ b[2] \in Nat BY RecipeAssumption
  <2> QED
    BY <2>1, <2>2, <2>3, <2>4, <2>5, <2>6, <2>7, <2>8, <2>9 DEF Next, Upload, HangUp, Crash
<1> QED BY <1>1, <1>2, PTL DEF Spec

\* After ChangeFile or the end of a session its three recipes are complete on disk, and no
\* other session, download, crash or restart changes that until the name is uploaded again.
THEOREM RecipesKept == Spec => []ClosedOnDisk
BY StreamsKept, PTL

-----------------------------------------------------------------------------
(* The download                                                            *)

\* The first m entries of the recipes of upload v.
Part(v, m) == [i \in 1 .. m |-> <<v, i>>]

Entry == (1 .. MaxFiles) \X (1 .. MaxEntries)

\* The part of TypeOK that is about the process and its download.
DownloadTypes ==
    /\ up \in BOOLEAN /\ crashes \in 0 .. MaxCrashes
    /\ spc \in {"off", "check", "header", "join"}
    /\ rpc \in {"off", "wait", "read", "ack", "last", "done"}
    /\ (rpc = "off" <=> spc \in {"off", "check"})
    /\ req \in Name \union {None} /\ (req = None <=> spc = "off")
    /\ kind \in 1 .. 3 /\ pos \in 0 .. MaxEntries + 1 /\ eof \in BOOLEAN
    /\ due \in Given /\ got \in [Kind -> Seq(Entry)]

\* A download that is due something reads the files of an upload that is stored: it has
\* sent the recipes before the current one whole, of the current one what it read, of
\* those after it nothing; and its stream is at the end when the variable end says so.  Its
\* RecipeSender does not start before the header is sent.
DownloadInv ==
    due # None =>
        /\ spc \in {"header", "join"} /\ stored[req] = due
        /\ \A j \in 1 .. 3 : /\ j < kind => got[Kinds[j]] = Part(due.ver, due.n[Kinds[j]])
                             /\ j > kind => got[Kinds[j]] = Part(due.ver, 0)
        /\ spc = "header" => rpc = "wait" /\ kind = 1 /\ got[Kinds[kind]] = Part(due.ver, 0)
        /\ rpc \in {"last", "done"} => kind = 3 /\ got[Kinds[kind]] = Part(due.ver, due.n[Kinds[kind]])
        /\ spc = "join" /\ rpc \in {"wait", "read", "ack"} =>
              /\ pos \in 1 .. 1 + due.n[Kinds[kind]]
              /\ got[Kinds[kind]] = Part(due.ver, pos - 1)
              /\ rpc = "ack" /\ eof => pos = 1 + due.n[Kinds[kind]]

\* The three recipes are different, and in the order of Kinds.
LEMMA KindFacts ==
    /\ Kind = {"file", "secure", "key"} /\ DOMAIN Kinds = 1 .. 3 /\ Len(Kinds) = 3
    /\ \A j \in 1 .. 3 : Kinds[j] \in Kind
    /\ \A i, j \in 1 .. 3 : Kinds[i] = Kinds[j] => i = j
    /\ \A k \in Kind : \E j \in 1 .. 3 : k = Kinds[j]
<1>1. DOMAIN Kinds = 1 .. 3 /\ Len(Kinds) = 3 BY DEF Kinds
<1>2. Kinds[1] = "file" /\ Kinds[2] = "secure" /\ Kinds[3] = "key" BY DEF Kinds
<1>3. 1 .. 3 = {1, 2, 3} OBVIOUS
<1>4. Kind = {"file", "secure", "key"} BY <1>1, <1>2, <1>3 DEF Kind, ToSet
<1> QED BY <1>1, <1>2, <1>3, <1>4

\* What was given is numbers of entries; the files of a stored upload hold them all.
LEMMA DueFacts ==
    ASSUME StreamInv, ClosedOnDisk, DownloadTypes, DownloadInv, due # None
    PROVE  /\ due.ver \in 1 .. MaxFiles /\ due.n \in [Kind -> 0 .. MaxEntries]
           /\ req \in Name /\ req # writing
           /\ \A k \in Kind : disk[req][k].ver = due.ver /\ disk[req][k].len = 1 + due.n[k]
<1>1. due \in [ver : 1 .. MaxFiles, n : [Kind -> 0 .. MaxEntries]] BY DEF DownloadTypes, Given
<1>2. req \in Name /\ stored[req] = due BY DEF DownloadTypes, DownloadInv
<1>3. req # writing BY <1>2, RecipeAssumption DEF StreamInv
<1>4. \A k \in Kind : disk[req][k] = [ver |-> due.ver, len |-> 1 + due.n[k]]
  BY <1>2 DEF ClosedOnDisk
<1>5. due.ver \in 1 .. MaxFiles /\ due.n \in [Kind -> 0 .. MaxEntries]
  BY <1>1
<1>6. \A k \in Kind : disk[req][k].ver = due.ver /\ disk[req][k].len = 1 + due.n[k]
  <2> SUFFICES ASSUME NEW k \in Kind
               PROVE  disk[req][k].ver = due.ver /\ disk[req][k].len = 1 + due.n[k]
    OBVIOUS
  <2>1. disk[req][k] = [ver |-> due.ver, len |-> 1 + due.n[k]] BY <1>4
  <2> QED BY <2>1
<1> QED BY <1>2, <1>3, <1>5, <1>6

\* A part of a recipe is a sequence of entries and a prefix of any longer part.
LEMMA PartFacts ==
    ASSUME NEW v \in 1 .. MaxFiles, NEW n \in 0 .. MaxEntries, NEW m \in 0 .. n
    PROVE  /\ Part(v, m) \in Seq(Entry) /\ Len(Part(v, m)) = m
           /\ IsPrefix(Part(v, m), Part(v, n))
<1>1. m \in Nat /\ n \in Nat /\ m <= n /\ n <= MaxEntries BY RecipeAssumption
<1>2. Part(v, m) \in Seq(Entry) /\ Len(Part(v, m)) = m
  BY <1>1, RecipeAssumption DEF Part, Entry
<1>3. Part(v, n) \in Seq(Entry) /\ Len(Part(v, n)) = n
  BY <1>1, RecipeAssumption DEF Part, Entry
<1>4. \A i \in 1 .. m : Part(v, m)[i] = Part(v, n)[i] BY <1>1 DEF Part
<1>5. SubSeq(Part(v, m), 1, m) = SubSeq(Part(v, n), 1, m)
  BY <1>1, <1>2, <1>3, <1>4
<1> QED BY <1>1, <1>2, <1>3, <1>5 DEF IsPrefix

\* A batch that starts where the last one ended extends the part.
LEMMA PartExtends ==
    ASSUME NEW v \in 1 .. MaxFiles, NEW m \in Nat, NEW r \in Nat, m + r <= MaxEntries
    PROVE  Part(v, m) \o [i \in 1 .. r |-> <<v, m + i>>] = Part(v, m + r)
<1> DEFINE batch == [i \in 1 .. r |-> <<v, m + i>>]
<1>1. Part(v, m) \in Seq(Entry) /\ Len(Part(v, m)) = m BY RecipeAssumption DEF Part, Entry
<1>2. batch \in Seq(Entry) /\ Len(batch) = r BY RecipeAssumption DEF Entry
<1>3. Part(v, m + r) \in Seq(Entry) /\ Len(Part(v, m + r)) = m + r
  BY RecipeAssumption DEF Part, Entry
<1>4. \A i \in 1 .. r : batch[i] = <<v, m + i>> OBVIOUS
<1> HIDE DEF batch
<1>5. Part(v, m) \o batch \in Seq(Entry) /\ Len(Part(v, m) \o batch) = m + r
  BY <1>1, <1>2
<1>6. \A i \in 1 .. m + r : (Part(v, m) \o batch)[i] = Part(v, m + r)[i]
  <2> SUFFICES ASSUME NEW i \in 1 .. m + r PROVE (Part(v, m) \o batch)[i] = Part(v, m + r)[i]
    OBVIOUS
  <2>1. Part(v, m + r)[i] = <<v, i>> BY DEF Part
  <2>2. CASE i <= m
    <3>1. Part(v, m)[i] = <<v, i>> BY <2>2 DEF Part
    <3> QED BY <1>1, <1>2, <2>1, <2>2, <3>1
  <2>3. CASE i > m
    <3>1. i - m \in 1 .. r /\ m + (i - m) = i BY <2>3
    <3>2. batch[i - m] = <<v, i>> BY <1>4, <3>1
    <3>3. (Part(v, m) \o batch)[i] = batch[i - m] BY <1>1, <1>2, <2>3
    <3> QED BY <2>1, <3>2, <3>3
  <2>4. i <= m \/ i > m OBVIOUS
  <2> QED BY <2>2, <2>3, <2>4
<1>7. Part(v, m) \o batch = Part(v, m + r) BY <1>3, <1>5, <1>6, SeqEqual
<1> QED BY <1>7 DEF batch

\* No download in progress satisfies the invariant trivially.
LEMMA NoDownloadKeeps ==
    ASSUME NoDownload, up' \in BOOLEAN, crashes' \in 0 .. MaxCrashes
    PROVE  DownloadTypes' /\ DownloadInv'
<1>1. << >> \in Seq(Entry) OBVIOUS
<1>2. NothingYet \in [Kind -> Seq(Entry)] BY <1>1 DEF NothingYet
<1>3. due' = None /\ None \in Given BY DEF NoDownload, Given
<1>4. 0 \in 0 .. MaxEntries + 1 BY RecipeAssumption
<1>5. got' \in [Kind -> Seq(Entry)] /\ due' \in Given /\ pos' \in 0 .. MaxEntries + 1
  BY <1>2, <1>3, <1>4 DEF NoDownload
<1>6. DownloadTypes'
  <2>1. kind' \in 1 .. 3 BY DEF NoDownload
  <2>2. eof' \in BOOLEAN BY DEF NoDownload
  <2>3. spc' = "off" /\ rpc' = "off" /\ req' = None BY DEF NoDownload
  <2> QED BY <1>5, <2>1, <2>2, <2>3 DEF DownloadTypes
<1>7. DownloadInv' BY <1>3 DEF DownloadInv
<1> QED BY <1>6, <1>7

\* A step of the upload session leaves the download as it is, or takes its due away.
LEMMA UploadKeeps ==
    ASSUME StreamInv, ClosedOnDisk, DownloadTypes, DownloadInv,
           up' = up, crashes' = crashes, UNCHANGED <<spc, rpc, req, kind, pos, eof>>,
           \/ due' = due /\ got' = got /\ (due # None => stored'[req] = stored[req])
           \/ due' = None /\ got' = NothingYet
    PROVE  DownloadTypes' /\ DownloadInv'
<1>1. << >> \in Seq(Entry) OBVIOUS
<1>2. NothingYet \in [Kind -> Seq(Entry)] BY <1>1 DEF NothingYet
<1>3. None \in Given BY DEF Given
<1>4. CASE due' = None /\ got' = NothingYet
  BY <1>2, <1>3, <1>4 DEF DownloadTypes, DownloadInv
<1>5. CASE due' = due /\ got' = got /\ (due # None => stored'[req] = stored[req])
  <2>1. DownloadTypes' BY <1>5 DEF DownloadTypes
  <2>2. DownloadInv' BY <1>5 DEF DownloadInv
  <2> QED BY <2>1, <2>2
<1> QED BY <1>4, <1>5

\* When the current recipe was read to its end, the next one is started, or none is left.
LEMMA NextRecipeKeeps ==
    ASSUME StreamInv, ClosedOnDisk, DownloadTypes, DownloadInv, NextRecipe,
           rpc \in {"read", "ack"}, due # None => pos = 1 + due.n[Kinds[kind]],
           UNCHANGED <<up, disk, stored, spc, req, due, got, crashes>>
    PROVE  DownloadTypes' /\ DownloadInv'
<1>1. spc \in {"header", "join"} /\ (due # None => spc = "join") BY DEF DownloadTypes, DownloadInv
<1>2. kind \in 1 .. 3 /\ pos \in 0 .. MaxEntries + 1 BY DEF DownloadTypes
<1>3. ASSUME due # None
      PROVE  got[Kinds[kind]] = Part(due.ver, due.n[Kinds[kind]])
  <2>1. due.n[Kinds[kind]] \in Nat BY <1>2, <1>3, DueFacts, KindFacts, RecipeAssumption
  <2>2. got[Kinds[kind]] = Part(due.ver, pos - 1) BY <1>1, <1>3 DEF DownloadInv
  <2>3. pos - 1 = due.n[Kinds[kind]] BY <1>3, <2>1
  <2> QED BY <2>2, <2>3
<1>4. CASE kind = 3
  <2>1. rpc' = "last" /\ kind' = kind /\ pos' = pos /\ eof' = FALSE
    BY <1>4, KindFacts DEF NextRecipe
  <2>2. DownloadTypes' BY <1>1, <2>1 DEF DownloadTypes
  <2>3. DownloadInv' BY <1>1, <1>3, <1>4, <2>1 DEF DownloadInv
  <2> QED BY <2>2, <2>3
<1>5. CASE kind \in 1 .. 2
  <2>1. rpc' = "read" /\ kind' = kind + 1 /\ pos' = HeaderRead(kind + 1) /\ eof' = FALSE
    BY <1>5, KindFacts DEF NextRecipe
  <2>2. pos' \in 0 .. MaxEntries + 1 BY <2>1, RecipeAssumption DEF HeaderRead
  <2>3. DownloadTypes'
    <3>1. kind' \in 1 .. 3 BY <1>5, <2>1
    <3> QED BY <1>1, <2>1, <2>2, <3>1 DEF DownloadTypes
  <2>4. DownloadInv'
    <3> SUFFICES ASSUME due # None PROVE DownloadInv'
      BY DEF DownloadInv
    <3>1. Kinds[kind + 1] \in Kind BY <1>5, KindFacts
    <3>2. disk[req][Kinds[kind + 1]].len = 1 + due.n[Kinds[kind + 1]]
          /\ due.n[Kinds[kind + 1]] \in Nat
      BY <3>1, DueFacts, RecipeAssumption
    <3>3. pos' = 1 BY <2>1, <3>2 DEF HeaderRead
    <3>4. got[Kinds[kind + 1]] = Part(due.ver, 0) BY <1>5 DEF DownloadInv
    <3>5. \A j \in 1 .. 3 : /\ j < kind + 1 => got[Kinds[j]] = Part(due.ver, due.n[Kinds[j]])
                            /\ j > kind + 1 => got[Kinds[j]] = Part(due.ver, 0)
      <4> SUFFICES ASSUME NEW j \in 1 .. 3
                   PROVE  /\ j < kind + 1 => got[Kinds[j]] = Part(due.ver, due.n[Kinds[j]])
                          /\ j > kind + 1 => got[Kinds[j]] = Part(due.ver, 0)
        OBVIOUS
      <4>1. /\ j < kind => got[Kinds[j]] = Part(due.ver, due.n[Kinds[j]])
            /\ j > kind => got[Kinds[j]] = Part(due.ver, 0)
        BY DEF DownloadInv
      <4>2. j < kind + 1 => j < kind \/ j = kind BY <1>5
      <4>3. j > kind + 1 => j > kind BY <1>5
      <4> QED BY <1>3, <4>1, <4>2, <4>3
    <3>6. stored[req] = due BY DEF DownloadInv
    <3> QED BY <1>1, <2>1, <3>2, <3>3, <3>4, <3>5, <3>6 DEF DownloadInv
  <2> QED BY <2>3, <2>4
<1> QED BY <1>2, <1>4, <1>5

\* What is unread of the current recipe is what the stream has not passed.
LEMMA UnreadFacts ==
    ASSUME StreamInv, ClosedOnDisk, DownloadTypes, DownloadInv, rpc = "read"
    PROVE  /\ readCnt \in Nat /\ pos + readCnt <= MaxEntries + 1
           /\ due # None =>
                 /\ pos \in 1 .. 1 + due.n[Kinds[kind]]
                 /\ Unread = 1 + due.n[Kinds[kind]] - pos
<1>1. req \in Name /\ (due # None => spc = "join") BY DEF DownloadTypes, DownloadInv
<1>2. Kinds[kind] \in Kind BY KindFacts DEF DownloadTypes
<1>3. disk[req][Kinds[kind]] \in File BY <1>1, <1>2 DEF StreamInv
<1>4. disk[req][Kinds[kind]].len \in 0 .. MaxEntries + 1 BY <1>3 DEF File
<1>5. pos \in 0 .. MaxEntries + 1 BY DEF DownloadTypes
<1>6. Unread \in Nat /\ pos + Unread <= MaxEntries + 1 BY <1>4, <1>5, RecipeAssumption DEF Unread
<1>7. readCnt \in Nat /\ pos + readCnt <= MaxEntries + 1 BY <1>5, <1>6, RecipeAssumption DEF readCnt
<1>8. ASSUME due # None
      PROVE  pos \in 1 .. 1 + due.n[Kinds[kind]] /\ Unread = 1 + due.n[Kinds[kind]] - pos
  <2>1. disk[req][Kinds[kind]].len = 1 + due.n[Kinds[kind]] /\ due.n[Kinds[kind]] \in Nat
    BY <1>2, <1>8, DueFacts, RecipeAssumption
  <2>2. pos \in 1 .. 1 + due.n[Kinds[kind]] BY <1>1, <1>8 DEF DownloadInv
  <2> QED BY <2>1, <2>2 DEF Unread
<1> QED BY <1>7, <1>8

\* Every step keeps the download in order.
LEMMA DownloadStep ==
    ASSUME StreamInv, ClosedOnDisk, DownloadTypes, DownloadInv, [Next]_vars
    PROVE  DownloadTypes' /\ DownloadInv'
<1> USE DEF uploadVars, downloadVars
<1>1. ASSUME NEW n \in Name, NEW before, NEW given, OpenFiles(n, before, given),
             due # None => given[req] = stored[req], given \in [Name -> Given]
      PROVE  DownloadTypes' /\ DownloadInv'
  <2>1. due # None /\ req # n => stored'[req] = stored[req]
    <3> SUFFICES ASSUME due # None, req # n PROVE stored'[req] = stored[req]
      OBVIOUS
    <3>1. req \in Name BY DueFacts
    <3>2. stored' = [given EXCEPT ![n] = None] BY <1>1 DEF OpenFiles
    <3> QED BY <1>1, <3>1, <3>2
  <2> QED BY <1>1, <2>1, UploadKeeps DEF OpenFiles
<1>2. due # None => ClosedStored[req] = stored[req]
  <2> SUFFICES ASSUME due # None PROVE ClosedStored[req] = stored[req]
    OBVIOUS
  <2>1. req \in Name /\ req # writing BY DueFacts
  <2> QED BY <2>1 DEF ClosedStored, StreamInv
<1>3. ASSUME NEW n \in Name, UploadLogin(n) PROVE DownloadTypes' /\ DownloadInv'
  <2>1. OpenFiles(n, disk, stored) BY <1>3 DEF UploadLogin
  <2> QED BY <1>1, <2>1 DEF StreamInv
<1>4. ASSUME NEW n \in Name, ChangeFile(n) PROVE DownloadTypes' /\ DownloadInv'
  <2>1. OpenFiles(n, Closed, ClosedStored) BY <1>4 DEF ChangeFile
  <2>2. ClosedStored \in [Name -> Given] BY Closing
  <2> QED BY <1>1, <1>2, <2>1, <2>2
<1>5. ASSUME NEW k \in Kind, NEW m \in Nat, WriteRecipe(k, m)
      PROVE  DownloadTypes' /\ DownloadInv'
  BY <1>5, UploadKeeps DEF WriteRecipe
<1>6. ASSUME NEW k \in Kind, Spill(k) PROVE DownloadTypes' /\ DownloadInv'
  BY <1>6, UploadKeeps DEF Spill
<1>7. CASE UploadEnd
  BY <1>2, <1>7, UploadKeeps DEF UploadEnd
<1>8. ASSUME NEW n \in Name, DownloadLogin(n) PROVE DownloadTypes' /\ DownloadInv'
  <2>1. due = None BY <1>8 DEF DownloadLogin, DownloadInv
  <2>2. DownloadTypes' BY <1>8, RecipeAssumption DEF DownloadLogin, DownloadTypes
  <2>3. DownloadInv' BY <1>8, <2>1 DEF DownloadLogin, DownloadInv
  <2> QED BY <2>2, <2>3
<1>9. CASE Accept
  <2>1. req \in Name BY <1>9 DEF Accept, DownloadTypes
  <2>2. due' \in Given BY <1>9, <2>1 DEF Accept, StreamInv
  <2>3. << >> \in Seq(Entry) OBVIOUS
  <2>4. got' \in [Kind -> Seq(Entry)] BY <1>9, <2>3 DEF Accept, NothingYet
  <2>5. pos' \in 0 .. MaxEntries + 1 BY <1>9, RecipeAssumption DEF Accept
  <2>6. DownloadTypes'
    <3>1. kind' \in 1 .. 3 BY <1>9 DEF Accept
    <3>2. eof' \in BOOLEAN BY <1>9 DEF Accept
    <3>3. spc' = "header" /\ rpc' = "wait" /\ UNCHANGED <<up, req, crashes>> BY <1>9 DEF Accept
    <3> QED BY <2>1, <2>2, <2>4, <2>5, <3>1, <3>2, <3>3, RecipeAssumption DEF DownloadTypes
  <2>7. \A v : Part(v, 0) = << >> BY DEF Part
  <2>8. \A j \in 1 .. 3 : \A v : got'[Kinds[j]] = Part(v, 0)
    BY <1>9, <2>7, KindFacts DEF Accept, NothingYet
  <2>9. spc' = "header" /\ rpc' = "wait" /\ kind' = 1 /\ due' = stored'[req']
    BY <1>9 DEF Accept
  <2>10. DownloadInv' BY <2>8, <2>9 DEF DownloadInv
  <2> QED BY <2>6, <2>10
<1>10. CASE SendHeader
  <2>1. UNCHANGED <<up, disk, stored, rpc, req, kind, eof, due, got, crashes>>
        /\ spc = "header" /\ spc' = "join" /\ (rpc = "wait" => pos' = HeaderRead(1))
    BY <1>10 DEF SendHeader
  <2>2. pos' \in 0 .. MaxEntries + 1
    <3>1. HeaderRead(1) \in 0 .. MaxEntries + 1 BY RecipeAssumption DEF HeaderRead
    <3> QED BY <1>10, <3>1 DEF SendHeader, Positions, DownloadTypes
  <2>3. DownloadTypes' BY <2>1, <2>2 DEF DownloadTypes
  <2>4. ASSUME due # None
        PROVE  /\ kind = 1 /\ pos' = 1 /\ got[Kinds[kind]] = Part(due.ver, 0)
               /\ due.n[Kinds[kind]] \in Nat /\ rpc = "wait"
    <3>1. rpc = "wait" /\ kind = 1 /\ got[Kinds[kind]] = Part(due.ver, 0)
      BY <2>1, <2>4 DEF DownloadInv
    <3>2. disk[req][Kinds[1]].len = 1 + due.n[Kinds[1]] /\ due.n[Kinds[1]] \in Nat
      BY <2>4, DueFacts, KindFacts, RecipeAssumption
    <3>3. pos' = 1 BY <2>1, <3>1, <3>2 DEF HeaderRead
    <3> QED BY <2>1, <3>1, <3>2, <3>3 DEF DownloadTypes
  <2>5. DownloadInv' BY <2>1, <2>4 DEF DownloadInv
  <2> QED BY <2>3, <2>5
<1>11. CASE Ready
  <2>1. UNCHANGED <<up, disk, stored, spc, req, kind, pos, eof, crashes>> /\ rpc' = "read"
        /\ rpc = "wait"
    BY <1>11 DEF Ready
  <2>2. CASE spc = "header"
    <3>1. due' = None /\ got' = NothingYet BY <1>11, <2>2 DEF Ready
    <3>2. << >> \in Seq(Entry) OBVIOUS
    <3>3. got' \in [Kind -> Seq(Entry)] /\ due' \in Given BY <3>1, <3>2 DEF NothingYet, Given
    <3>4. DownloadTypes' BY <2>1, <3>3 DEF DownloadTypes
    <3> QED BY <3>1, <3>4 DEF DownloadInv
  <2>3. CASE spc # "header"
    <3>1. due' = due /\ got' = got BY <1>11, <2>3 DEF Ready
    <3>2. DownloadTypes' BY <2>1, <3>1 DEF DownloadTypes
    <3>3. DownloadInv' BY <2>1, <2>3, <3>1 DEF DownloadInv
    <3> QED BY <3>2, <3>3
  <2> QED BY <2>2, <2>3
<1>12. CASE SendBatch
  <2>1. UNCHANGED <<up, disk, stored, spc, req, kind, due, crashes>> /\ rpc = "read"
        /\ rpc' = "ack" /\ eof' = AtEnd /\ pos' = pos + readCnt
    BY <1>12 DEF SendBatch
  <2>2. /\ spc \in {"header", "join"} /\ kind \in 1 .. 3 /\ pos \in Nat
        /\ due # None => spc = "join"
    BY <2>1, RecipeAssumption DEF DownloadTypes, DownloadInv
  <2>3. readCnt \in Nat /\ pos' \in 0 .. MaxEntries + 1
    BY <2>1, <2>2, UnreadFacts, RecipeAssumption
  <2>4. eof' \in BOOLEAN BY <2>1 DEF AtEnd
  <2>5. CASE due = None
    <3>1. got' = got BY <1>12, <2>5 DEF SendBatch
    <3>2. DownloadTypes' BY <2>1, <2>2, <2>3, <2>4, <3>1 DEF DownloadTypes
    <3> QED BY <2>1, <2>5, <3>2 DEF DownloadInv
  <2>6. CASE due # None
    <3> DEFINE n == due.n[Kinds[kind]]
    <3>1. Kinds[kind] \in Kind BY <2>2, KindFacts
    <3>2. /\ due.ver \in 1 .. MaxFiles /\ n \in 0 .. MaxEntries
          /\ disk[req][Kinds[kind]].ver = due.ver
      BY <2>6, <3>1, DueFacts
    <3>3. pos \in 1 .. 1 + n /\ Unread = 1 + n - pos BY <2>1, <2>6, UnreadFacts
    <3> HIDE DEF n
    <3>4. /\ pos - 1 \in Nat /\ n \in Nat /\ pos' \in 1 .. 1 + n
          /\ pos' - 1 = (pos - 1) + readCnt /\ (pos - 1) + readCnt <= MaxEntries
      BY <2>1, <2>3, <3>2, <3>3, RecipeAssumption DEF readCnt
    <3>5. eof' => pos' = 1 + n
      <4>1. SendRecipeBatchSize \in Nat /\ n \in Nat BY <3>2, RecipeAssumption
      <4>2. eof' => readCnt = Unread BY <2>1, <3>3, <4>1 DEF AtEnd, readCnt
      <4> QED BY <2>1, <3>3, <4>1, <4>2
    <3>6. Entries = [i \in 1 .. readCnt |-> <<due.ver, (pos - 1) + i>>]
      BY <2>2, <2>3, <3>2 DEF Entries
    <3>7. got[Kinds[kind]] = Part(due.ver, pos - 1) BY <2>1, <2>2, <2>6 DEF DownloadInv
    <3>8. got[Kinds[kind]] \o Entries = Part(due.ver, pos' - 1)
      BY <2>3, <3>2, <3>4, <3>6, <3>7, PartExtends, ZenonT(60)
    <3>9. got' = [got EXCEPT ![Kinds[kind]] = Part(due.ver, pos' - 1)]
      BY <1>12, <2>6, <3>8 DEF SendBatch
    <3>10. Part(due.ver, pos' - 1) \in Seq(Entry)
      <4>1. \A p \in 1 .. 1 + n : p - 1 \in 0 .. n BY <3>4
      <4>2. pos' - 1 \in 0 .. n BY <3>4, <4>1
      <4> QED BY <3>2, <4>2, PartFacts
    <3>11. got' \in [Kind -> Seq(Entry)] BY <3>9, <3>10 DEF DownloadTypes
    <3>12. got'[Kinds[kind]] = Part(due.ver, pos' - 1) BY <3>1, <3>9 DEF DownloadTypes
    <3>13. \A j \in 1 .. 3 : j # kind => got'[Kinds[j]] = got[Kinds[j]]
      BY <2>2, <3>9, KindFacts DEF DownloadTypes
    <3>14. DownloadTypes' BY <2>1, <2>2, <2>3, <2>4, <3>11 DEF DownloadTypes
    <3>15. \A j \in 1 .. 3 : /\ j < kind => got'[Kinds[j]] = Part(due.ver, due.n[Kinds[j]])
                             /\ j > kind => got'[Kinds[j]] = Part(due.ver, 0)
      BY <2>2, <2>6, <3>13 DEF DownloadInv
    <3>16. stored[req] = due BY <2>6 DEF DownloadInv
    <3>17. DownloadInv'
      BY <2>1, <2>2, <3>4, <3>5, <3>12, <3>15, <3>16 DEF DownloadInv, n
    <3> QED BY <3>14, <3>17
  <2> QED BY <2>5, <2>6
<1>13. CASE NoBatch
  <2>1. NextRecipe /\ rpc = "read" /\ readCnt = 0
        /\ UNCHANGED <<up, disk, stored, spc, req, due, got, crashes>>
    BY <1>13 DEF NoBatch
  <2>2. due # None => pos = 1 + due.n[Kinds[kind]]
    <3> SUFFICES ASSUME due # None PROVE pos = 1 + due.n[Kinds[kind]]
      OBVIOUS
    <3>1. Kinds[kind] \in Kind BY KindFacts DEF DownloadTypes
    <3>2. due.n[Kinds[kind]] \in Nat BY <3>1, DueFacts, RecipeAssumption
    <3>3. pos \in 1 .. 1 + due.n[Kinds[kind]] /\ Unread = 1 + due.n[Kinds[kind]] - pos
      BY <2>1, UnreadFacts
    <3> QED BY <2>1, <3>2, <3>3, RecipeAssumption DEF readCnt
  <2> QED BY <2>1, <2>2, NextRecipeKeeps
<1>14. CASE Ack
  <2>1. rpc = "ack" /\ UNCHANGED <<up, disk, stored, spc, req, due, got, crashes>>
    BY <1>14 DEF Ack
  <2>2. spc \in {"header", "join"} /\ (due # None => spc = "join")
    BY <2>1 DEF DownloadTypes, DownloadInv
  <2>3. CASE eof
    <3>1. NextRecipe BY <1>14, <2>3 DEF Ack
    <3>2. due # None => pos = 1 + due.n[Kinds[kind]] BY <2>1, <2>2, <2>3 DEF DownloadInv
    <3> QED BY <2>1, <3>1, <3>2, NextRecipeKeeps
  <2>4. CASE ~ eof
    <3>1. rpc' = "read" /\ UNCHANGED <<kind, pos, eof>> BY <1>14, <2>4 DEF Ack
    <3>2. DownloadTypes' BY <2>1, <2>2, <3>1 DEF DownloadTypes
    <3>3. DownloadInv' BY <2>1, <2>2, <3>1 DEF DownloadInv
    <3> QED BY <3>2, <3>3
  <2> QED BY <2>3, <2>4
<1>15. CASE EdgeLeaves
  BY <1>15 DEF EdgeLeaves, DownloadTypes, DownloadInv
<1>16. CASE Join
  <2>1. NoDownload /\ up' = up /\ crashes' = crashes BY <1>16 DEF Join
  <2> QED BY <2>1, NoDownloadKeeps DEF DownloadTypes
<1>17. CASE Exit
  <2>1. NoDownload /\ up' = FALSE BY <1>17 DEF Exit
  <2>2. crashes' \in 0 .. MaxCrashes BY <1>17, RecipeAssumption DEF Exit, DownloadTypes
  <2> QED BY <2>1, <2>2, NoDownloadKeeps
<1>18. CASE Reject
  <2>1. CASE Exit BY <1>17, <2>1
  <2>2. CASE ~ Exit
    <3>1. NoDownload /\ up' = up /\ crashes' = crashes BY <1>18, <2>2 DEF Reject
    <3> QED BY <3>1, NoDownloadKeeps DEF DownloadTypes
  <2> QED BY <2>1, <2>2
<1>19. CASE Restart
  <2>1. UNCHANGED <<stored, spc, rpc, req, kind, pos, eof, due, got, crashes>> /\ up' = TRUE
    BY <1>19 DEF Restart
  <2>2. DownloadTypes' BY <2>1 DEF DownloadTypes
  <2>3. DownloadInv' BY <2>1 DEF DownloadInv
  <2> QED BY <2>2, <2>3
<1>20. CASE UNCHANGED vars
  <2>1. UNCHANGED <<up, stored, spc, rpc, req, kind, pos, eof, due, got, crashes>>
    BY <1>20 DEF vars
  <2>2. DownloadTypes' BY <2>1 DEF DownloadTypes
  <2>3. DownloadInv' BY <2>1 DEF DownloadInv
  <2> QED BY <2>2, <2>3
<1>21. CASE ReadOvertaking
  <2>1. /\ rpc = "read" /\ spc = "header"
        /\ UNCHANGED <<up, disk, stored, spc, req, due, got, crashes>>
    BY <1>21 DEF ReadOvertaking, Overtaking
  <2>2. due = None BY <2>1 DEF DownloadInv
  <2>3. CASE NextRecipe BY <2>1, <2>2, <2>3, NextRecipeKeeps
  <2>4. CASE ~ NextRecipe
    <3>1. rpc' = "ack" /\ eof' \in BOOLEAN /\ UNCHANGED <<kind, pos>>
      BY <1>21, <2>4 DEF ReadOvertaking
    <3>2. DownloadTypes' BY <2>1, <3>1 DEF DownloadTypes
    <3> QED BY <2>1, <2>2, <3>2 DEF DownloadInv
  <2> QED BY <2>3, <2>4
<1>22. \A b \in Batches : b[1] \in Kind /\ b[2] \in Nat BY RecipeAssumption
<1> QED
  BY <1>3, <1>4, <1>5, <1>6, <1>7, <1>8, <1>9, <1>10, <1>11, <1>12, <1>13, <1>14, <1>15,
     <1>16, <1>17, <1>18, <1>19, <1>20, <1>21, <1>22 DEF Next, Upload, Download, HangUp, Crash

\* The invariant is what the property says: what was sent is a part of each recipe, and
\* the whole of it in the end.
LEMMA InvariantSuffices ==
    StreamInv /\ ClosedOnDisk /\ DownloadTypes /\ DownloadInv => RecipeRestored
<1> SUFFICES ASSUME StreamInv, ClosedOnDisk, DownloadTypes, DownloadInv PROVE RecipeRestored
  OBVIOUS
<1>1. TypeOK BY KindFacts DEF StreamInv, DownloadTypes, TypeOK, Positions, Entry
<1>2. ASSUME due # None, NEW k \in Kind
      PROVE  /\ IsPrefix(got[k], Whole(k))
             /\ rpc \in {"last", "done"} => got[k] = Whole(k)
  <2>1. PICK j \in 1 .. 3 : k = Kinds[j] BY KindFacts
  <2>2. due.ver \in 1 .. MaxFiles /\ due.n[k] \in 0 .. MaxEntries BY <1>2, DueFacts
  <2>3. Whole(k) = Part(due.ver, due.n[k]) BY DEF Whole, Part
  <2>4. kind \in 1 .. 3 /\ spc \in {"header", "join"} BY <1>2 DEF DownloadTypes, DownloadInv
  <2>5. \E m \in 0 .. due.n[k] : got[k] = Part(due.ver, m)
    <3>1. 0 \in 0 .. due.n[k] /\ due.n[k] \in 0 .. due.n[k] BY <2>2, RecipeAssumption
    <3>2. CASE j < kind BY <1>2, <2>1, <3>1, <3>2 DEF DownloadInv
    <3>3. CASE j > kind BY <1>2, <2>1, <3>1, <3>3 DEF DownloadInv
    <3>4. CASE j = kind /\ spc = "header" BY <1>2, <2>1, <3>1, <3>4 DEF DownloadInv
    <3>5. CASE j = kind /\ spc = "join" /\ rpc \in {"last", "done"}
      BY <1>2, <2>1, <3>1, <3>5 DEF DownloadInv
    <3>6. CASE j = kind /\ spc = "join" /\ rpc \in {"wait", "read", "ack"}
      <4>1. pos \in 1 .. 1 + due.n[k] /\ got[k] = Part(due.ver, pos - 1)
        BY <1>2, <2>1, <3>6 DEF DownloadInv
      <4>2. pos - 1 \in 0 .. due.n[k] BY <2>2, <4>1
      <4> QED BY <4>1, <4>2
    <3>7. spc = "join" => rpc \in {"wait", "read", "ack", "last", "done"} BY DEF DownloadTypes
    <3> QED BY <2>1, <2>4, <3>2, <3>3, <3>4, <3>5, <3>6, <3>7
  <2>6. PICK m \in 0 .. due.n[k] : got[k] = Part(due.ver, m) BY <2>5
  <2>7. IsPrefix(got[k], Whole(k)) BY <2>2, <2>3, <2>6, PartFacts
  <2>8. rpc \in {"last", "done"} => got[k] = Whole(k)
    <3> SUFFICES ASSUME rpc \in {"last", "done"} PROVE got[k] = Whole(k)
      OBVIOUS
    <3>1. kind = 3 /\ got[Kinds[kind]] = Part(due.ver, due.n[Kinds[kind]])
      BY <1>2 DEF DownloadInv
    <3>2. CASE j = 3 BY <2>1, <2>3, <3>1, <3>2
    <3>3. CASE j < 3 BY <1>2, <2>1, <2>3, <3>1, <3>3 DEF DownloadInv
    <3> QED BY <2>1, <3>2, <3>3
  <2> QED BY <2>7, <2>8
<1> QED BY <1>1, <1>2 DEF RecipeRestored

\* RecipeSender sends of every recipe the entries of the last upload of the name in order,
\* and all of them before CLOUD_SEND_RECIPE_END, whatever the number of entries and the
\* size of a batch, to an edge that asks for them when it has the response.
THEOREM RecipesRestored == Spec => []RecipeRestored
<1>1. Init => DownloadTypes /\ DownloadInv
  <2> SUFFICES ASSUME Init PROVE DownloadTypes /\ DownloadInv
    OBVIOUS
  <2>1. << >> \in Seq(Entry) OBVIOUS
  <2>2. got \in [Kind -> Seq(Entry)] BY <2>1 DEF Init, NothingYet
  <2>3. pos \in 0 .. MaxEntries + 1 /\ crashes \in 0 .. MaxCrashes BY RecipeAssumption DEF Init
  <2>4. due = None /\ due \in Given BY DEF Init, Given
  <2>5. kind \in 1 .. 3 BY DEF Init
  <2>6. eof \in BOOLEAN BY DEF Init
  <2>7. spc = "off" /\ rpc = "off" /\ req = None /\ up \in BOOLEAN BY DEF Init
  <2>8. DownloadTypes BY <2>2, <2>3, <2>4, <2>5, <2>6, <2>7 DEF DownloadTypes
  <2> QED BY <2>4, <2>8 DEF DownloadInv
<1>2. StreamInv /\ ClosedOnDisk /\ DownloadTypes /\ DownloadInv /\ [Next]_vars
      => DownloadTypes' /\ DownloadInv'
  BY DownloadStep
<1> QED BY <1>1, <1>2, StreamsKept, InvariantSuffices, PTL DEF Spec
=============================================================================
