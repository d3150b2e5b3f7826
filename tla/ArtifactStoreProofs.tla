------------------------ MODULE ArtifactStoreProofs ------------------------
(***************************************************************************)
(* Theorems about ArtifactStore, for every set of plans, kinds and writes,   *)
(* both backends and any number of faults, backups and restores.             *)
(***************************************************************************)
EXTENDS ArtifactStore, TLAPS

Contents == {"absent", "torn"} \cup Writers
Swept    == {n \in Names : TierFor(n) = "ephemeral"}
Durable  == Kinds \ Ephemeral

\* where the content of a name comes from: of a kind, from a write of it that was
\* stored; of a temporary file, from its own write
Came(c, p, n, S) ==
    c \in Writers => IF n \in Kinds THEN c \in S /\ PlaceOf[c] = p /\ KindOf[c] = n ELSE c = n

\* what is on disk, in the backup and in the hints was written for its place
DiskInv   == \A p \in Places, n \in Names : Came(files[p][n], p, n, stored)
BackupInv == \A p \in Places, n \in Names : Came(backup[p][n], p, n, stored)
HintInv   == \A p \in Places, k \in Kinds : Came(hint[p][k], p, k, stored)

\* a write that has still to put its artifact in place has stored nothing
WroteInv ==
    \A w \in Writers : /\ write[w] = "hint" => w \in stored
                       /\ write[w] \in {"idle", "open", "filled"} => w \notin stored

\* so was the file that a backup has read and not yet copied
CopyInv == copying.now # "none" => Came(copying.data, copying.at, copying.now, stored)

ContentInv == DiskInv /\ BackupInv /\ HintInv /\ WroteInv /\ CopyInv

\* the thread works on what cleanup_plan selects
CleanInv == cleaner.names \subseteq Swept /\ cleaner.half \in Swept \cup {"none"}

\* while a plan is restored nobody writes it or copies it, and what is still to be
\* restored is in the backup
RestoreInv ==
    /\ ~(copying.busy /\ restoring.busy)
    /\ copying.now # "none" => copying.busy
    /\ restoring.now # "none" => restoring.busy
    /\ restoring.busy =>
          /\ \A w \in Writers : PlaceOf[w] = restoring.at => write[w] \notin {"open", "filled"}
          /\ \A n \in restoring.names : backup[restoring.at][n] # "absent"
          /\ restoring.now # "none" => backup[restoring.at][restoring.now] # "absent"

\* every durable kind of the backup is to be restored, half restored, or there
ProgressInv ==
    restoring.busy => \A k \in Durable : Whole(backup[restoring.at][k]) =>
        \/ k \in restoring.names
        \/ k = restoring.now /\ files[restoring.at][k] # "absent"
        \/ Whole(files[restoring.at][k])

\* the temporary file of a write under way is there
TempInv ==
    \A w \in Writers : /\ write[w] \in {"open", "filled"} => files[PlaceOf[w]][w] # "absent"
                       /\ write[w] # "vanished"

StoreInv == TypeOK /\ ContentInv /\ CleanInv /\ RestoreInv /\ ProgressInv

-----------------------------------------------------------------------------
(* Files.                                                                   *)

\* a change of one name
LEMMA PutFile ==
  ASSUME TypeOK, NEW p \in Places, NEW n \in Names, NEW c \in Contents, Put(p, n, c)
  PROVE  /\ files' \in [Places -> [Names -> Contents]]
         /\ files'[p][n] = c
         /\ \A q \in Places, m \in Names : q # p \/ m # n => files'[q][m] = files[q][m]
<1>1. files \in [Places -> [Names -> Contents]]
  BY DEF TypeOK, Contents
<1>2. files' = [files EXCEPT ![p][n] = c]
  BY DEF Put
<1> QED BY <1>1, <1>2

\* a change of where a write is
LEMMA GoTo ==
  ASSUME TypeOK, NEW w \in Writers, NEW where, Goto(w, where)
  PROVE  write'[w] = where /\ \A v \in Writers \ {w} : write'[v] = write[v]
  BY DEF TypeOK, Goto

\* os.replace
LEMMA MoveFile ==
  ASSUME TypeOK, NEW w \in Writers, Replace(w), w \in Present(files, PlaceOf[w])
  PROVE  /\ files' \in [Places -> [Names -> Contents]]
         /\ files'[PlaceOf[w]][KindOf[w]] = files[PlaceOf[w]][w]
         /\ files'[PlaceOf[w]][w] = "absent"
         /\ \A q \in Places, m \in Names :
               q # PlaceOf[w] \/ m \notin {w, KindOf[w]} => files'[q][m] = files[q][m]
<1>1. files \in [Places -> [Names -> Contents]]
  BY DEF TypeOK, Contents
<1>2. PlaceOf[w] \in Places /\ KindOf[w] \in Kinds /\ w \in Names /\ KindOf[w] \in Names /\ w # KindOf[w]
  BY StoreAssumption DEF StoreAssumption, Names
<1>3. files' = [files EXCEPT ![PlaceOf[w]][KindOf[w]] = files[PlaceOf[w]][w], ![PlaceOf[w]][w] = "absent"]
  BY DEF Replace
<1>4. files[PlaceOf[w]][w] \in Contents /\ "absent" \in Contents
  BY <1>1, <1>2 DEF Contents
<1>5. files'[PlaceOf[w]] = [files[PlaceOf[w]] EXCEPT ![KindOf[w]] = files[PlaceOf[w]][w], ![w] = "absent"]
  BY <1>1, <1>2, <1>3
<1>6. \A q \in Places \ {PlaceOf[w]} : files'[q] = files[q]
  BY <1>1, <1>2, <1>3
<1>7. files[PlaceOf[w]] \in [Names -> Contents]
  BY <1>1, <1>2
<1>8. files'[PlaceOf[w]] \in [Names -> Contents]
  BY <1>2, <1>4, <1>5, <1>7
<1>9. files' \in [Places -> [Names -> Contents]]
  BY <1>1, <1>3, <1>6, <1>8
<1> QED BY <1>2, <1>5, <1>6, <1>7, <1>9

-----------------------------------------------------------------------------
(* Types.                                                                   *)

LEMMA Constants ==
  /\ Bare \in Places
  /\ \A w \in Writers : PlaceOf[w] \in Places /\ KindOf[w] \in Kinds /\ KindOf[w] \in Names /\ w \in Names
                        /\ w \notin Kinds /\ w \notin {"absent", "torn", "none"} /\ w \in Contents
  /\ \A k \in Kinds : k \in Names /\ k # "none" /\ k \notin Writers
  /\ \A n \in Names : n # "none"
  /\ "absent" \in Contents /\ "torn" \in Contents
  BY StoreAssumption DEF StoreAssumption, Names, Contents

LEMMA SweptNames == Swept \subseteq Names /\ Swept \cap Durable = {}
  BY DEF Swept, Durable, TierFor

\* a new place of a write, of the values write takes
LEMMA GoToType ==
  ASSUME TypeOK, NEW w \in Writers, Goto(w, AfterPut(w)) \/ Goto(w, "open") \/ Goto(w, "filled")
                 \/ Goto(w, "done") \/ Goto(w, "failed") \/ Goto(w, "vanished")
                 \/ Goto(w, "unhinted")
  PROVE  write' \in [Writers -> {"idle", "open", "filled", "hint", "done", "failed", "vanished",
                                 "unhinted", "crashed"}]
  BY DEF TypeOK, Goto, AfterPut

LEMMA SpendType ==
  ASSUME TypeOK, NEW e \in {"backups", "restores", "faults", "crashes"}, Spend(e)
  PROVE  spent' \in [{"backups", "restores", "faults", "crashes"} -> Nat] /\ (e # "crashes" => spent'.crashes = spent.crashes)
  BY DEF TypeOK, Spend

LEMMA WriteType == ASSUME TypeOK, NEW w \in Writers, Write(w) PROVE TypeOK'
<1>c. /\ PlaceOf[w] \in Places /\ KindOf[w] \in Kinds /\ KindOf[w] \in Names /\ w \in Names /\ w \in Contents
      /\ "absent" \in Contents /\ "torn" \in Contents
  BY Constants
<1>1. CASE OpenTemp(w)
  <2>1. files' \in [Places -> [Names -> Contents]]
    BY <1>c, <1>1, PutFile DEF OpenTemp
  <2> QED BY <1>1, <2>1, GoToType DEF OpenTemp, TypeOK, cleanVars, copyVars, Contents
<1>2. CASE FillTemp(w)
  <2>1. files' \in [Places -> [Names -> Contents]]
    BY <1>c, <1>2, PutFile DEF FillTemp, TypeOK, Contents
  <2> QED BY <1>2, <2>1, GoToType DEF FillTemp, TypeOK, cleanVars, copyVars, Contents
<1>3. CASE FillFails(w)
  <2>1. files' \in [Places -> [Names -> Contents]]
    BY <1>c, <1>3, PutFile DEF FillFails
  <2>2. spent' \in [{"backups", "restores", "faults", "crashes"} -> Nat]
    BY <1>3, SpendType DEF FillFails, Fault
  <2> QED BY <1>3, <2>1, <2>2, GoToType DEF FillFails, TypeOK, cleanVars, copyVars, Contents
<1>4. CASE Replace(w)
  <2>1. files' \in [Places -> [Names -> Contents]]
    BY <1>4, MoveFile DEF Replace, TypeOK, Contents
  <2>2. stored' \subseteq Writers
    BY <1>4 DEF Replace, TypeOK
  <2>3. Goto(w, AfterPut(w)) \/ Goto(w, "vanished")
    BY <1>4 DEF Replace
  <2> QED BY <1>4, <2>1, <2>2, <2>3, GoToType DEF Replace, TypeOK, cleanVars, copyVars, Contents
<1>5. CASE PutObject(w)
  <2>1. files' \in [Places -> [Names -> Contents]]
    BY <1>c, <1>5, PutFile DEF PutObject
  <2>2. stored' \subseteq Writers
    BY <1>5 DEF PutObject, TypeOK
  <2> QED BY <1>5, <2>1, <2>2, GoToType DEF PutObject, TypeOK, cleanVars, copyVars, Contents
<1>6. CASE PutFails(w)
  <2>2. spent' \in [{"backups", "restores", "faults", "crashes"} -> Nat]
    BY <1>6, SpendType DEF PutFails, Fault, TypeOK
  <2> QED BY <1>6, <2>2, GoToType DEF PutFails, TypeOK, cleanVars, copyVars
<1>7. CASE WriteHint(w)
  <2>1. hint' \in [Places -> [Kinds -> {"absent"} \cup Writers]]
    BY <1>c, <1>7 DEF WriteHint, TypeOK
  <2> QED BY <1>7, <2>1, GoToType DEF WriteHint, TypeOK, cleanVars, copyVars
<1>8. CASE HintFails(w)
  <2>1. spent' \in [{"backups", "restores", "faults", "crashes"} -> Nat]
    BY <1>8, SpendType DEF HintFails, Fault
  <2> QED BY <1>8, <2>1, GoToType DEF HintFails, TypeOK, cleanVars, copyVars
<1> QED BY <1>1, <1>2, <1>3, <1>4, <1>5, <1>6, <1>7, <1>8 DEF Write

\* a delete, which an object store may not carry out
LEMMA RemovedType ==
  ASSUME TypeOK, NEW p \in Places, NEW n \in Names, Removed(p, n)
  PROVE  /\ files' \in [Places -> [Names -> Contents]]
         /\ spent' \in [{"backups", "restores", "faults", "crashes"} -> Nat]
<1>1. CASE Put(p, n, "absent") /\ UNCHANGED spent
  BY <1>1, PutFile, Constants DEF TypeOK
<1>2. CASE Fault /\ UNCHANGED files
  BY <1>2, SpendType DEF Fault, TypeOK, Contents
<1> QED BY <1>1, <1>2 DEF Removed

LEMMA CleanType == ASSUME TypeOK, CleanInv, Clean PROVE TypeOK'
<1>c. Bare \in Places /\ "absent" \in Contents /\ Swept \subseteq Names
  BY Constants, SweptNames
<1>1. CASE LoopHead
  BY <1>c, <1>1 DEF LoopHead, TypeOK, Off, storeVars, copyVars
<1>2. CASE ListPlan
  <2>1. \A p \in Places : ListArtifacts(p) \subseteq Names
    BY DEF ListArtifacts, Present
  <2>2. PICK p \in cleaner.places : cleaner' =
           LET old == {n \in ListArtifacts(p) : TierFor(n) = "ephemeral"} IN
           [cleaner EXCEPT !.places = @ \ {p}, !.names = old, !.at = IF old = {} THEN Bare ELSE p]
    BY <1>2 DEF ListPlan
  <2> DEFINE old == {n \in ListArtifacts(p) : TierFor(n) = "ephemeral"}
             at  == IF old = {} THEN Bare ELSE p
  <2>3. p \in Places /\ cleaner.places \ {p} \subseteq Places
    BY DEF TypeOK
  <2>4. old \subseteq Names /\ at \in Places
    BY <1>c, <2>1, <2>3
  <2> HIDE DEF old, at
  <2>5. cleaner' = [cleaner EXCEPT !.places = @ \ {p}, !.names = old, !.at = at]
    BY <2>2 DEF old, at
  <2> QED BY <1>2, <2>3, <2>4, <2>5 DEF ListPlan, TypeOK, storeVars, copyVars
<1>3. CASE DeleteArtifact
  <2>1. PICK n \in cleaner.names : /\ Removed(cleaner.at, n)
                                   /\ cleaner' = [cleaner EXCEPT !.names = @ \ {n},
                                        !.half = IF cleaner.at # Bare THEN n ELSE "none"]
    BY <1>3 DEF DeleteArtifact
  <2>2. cleaner.at \in Places /\ n \in Names
    BY <2>1 DEF TypeOK
  <2>3. /\ files' \in [Places -> [Names -> Contents]]
        /\ spent' \in [{"backups", "restores", "faults", "crashes"} -> Nat]
    BY <2>1, <2>2, RemovedType
  <2> QED BY <1>3, <2>1, <2>2, <2>3 DEF DeleteArtifact, TypeOK, copyVars, Contents
<1>4. CASE DeleteLegacy
  <2>0. Second(cleaner.at) \in Places /\ cleaner.half \in Names
    BY <1>c, <1>4 DEF DeleteLegacy, CleanInv, Second, TypeOK
  <2>1. /\ files' \in [Places -> [Names -> Contents]]
        /\ spent' \in [{"backups", "restores", "faults", "crashes"} -> Nat]
    BY <1>4, <2>0, RemovedType DEF DeleteLegacy
  <2> QED BY <1>4, <2>1 DEF DeleteLegacy, TypeOK, copyVars, Contents
<1>5. CASE RoundEnds
  <2>1. spent' \in [{"backups", "restores", "faults", "crashes"} -> Nat]
    BY <1>5, SpendType DEF RoundEnds, Fault, TypeOK
  <2> QED BY <1>c, <1>5, <2>1 DEF RoundEnds, TypeOK, Off, storeVars, copyVars
<1> QED BY <1>1, <1>2, <1>3, <1>4, <1>5 DEF Clean

LEMMA CopyType == ASSUME TypeOK, Copy PROVE TypeOK'
<1>c. Bare \in Places /\ "absent" \in Contents /\ "torn" \in Contents
  BY Constants
<1>1. ASSUME NEW p \in Places, BackupStart(p) PROVE TypeOK'
  <2>1. spent' \in [{"backups", "restores", "faults", "crashes"} -> Nat]
    BY <1>1, SpendType DEF BackupStart
  <2>2. OnDisk(p) \subseteq Names
    BY DEF OnDisk, Present
  <2> QED BY <1>1, <2>1, <2>2 DEF BackupStart, NoCopy, TypeOK, storeVars, cleanVars
<1>2. ASSUME NEW p \in Places, RestoreStart(p) PROVE TypeOK'
  <2>1. spent' \in [{"backups", "restores", "faults", "crashes"} -> Nat]
    BY <1>2, SpendType DEF RestoreStart
  <2>2. Present(backup, p) \subseteq Names
    BY DEF Present
  <2> QED BY <1>2, <2>1, <2>2 DEF RestoreStart, NoRestore, TypeOK, storeVars, cleanVars
<1>3. CASE CopyOpen
  <2>1. PICK n \in copying.names :
           \/ /\ copying' = [copying EXCEPT !.names = @ \ {n}, !.failed = TRUE]
              /\ UNCHANGED backup
           \/ /\ copying' = [copying EXCEPT !.names = @ \ {n}, !.now = n,
                                             !.data = files[copying.at][n]]
              /\ backup' = [backup EXCEPT ![copying.at][n] = "torn"]
    BY <1>3 DEF CopyOpen
  <2>2. copying.at \in Places /\ n \in Names
    BY <2>1 DEF TypeOK
  <2>3. files[copying.at][n] \in Contents
    BY <2>2 DEF TypeOK, Contents
  <2>4. backup \in [Places -> [Names -> Contents]]
    BY DEF TypeOK, Contents
  <2>5. backup' \in [Places -> [Names -> Contents]]
    BY <1>c, <2>1, <2>2, <2>4
  <2>8. copying' \in [busy : BOOLEAN, at : Places, names : SUBSET Names,
                      now : Names \cup {"none"}, data : Contents, failed : BOOLEAN]
    <3> DEFINE content == files[copying.at][n]
    <3>1. content \in Contents
      BY <2>3
    <3> HIDE DEF content
    <3>2. \/ copying' = [copying EXCEPT !.names = @ \ {n}, !.failed = TRUE]
          \/ copying' = [copying EXCEPT !.names = @ \ {n}, !.now = n, !.data = content]
      BY <2>1 DEF content
    <3>3. copying \in [busy : BOOLEAN, at : Places, names : SUBSET Names,
                       now : Names \cup {"none"}, data : Contents, failed : BOOLEAN]
      BY DEF TypeOK, Contents
    <3> QED BY <2>2, <3>1, <3>2, <3>3
  <2> QED BY <1>3, <2>5, <2>8 DEF CopyOpen, TypeOK, storeVars, cleanVars, Contents
<1>8. CASE CopyFill
  <2>1. copying.at \in Places /\ copying.now \in Names /\ copying.data \in Contents
    BY <1>8 DEF CopyFill, TypeOK, Contents
  <2>2. backup \in [Places -> [Names -> Contents]]
    BY DEF TypeOK, Contents
  <2>3. backup' \in [Places -> [Names -> Contents]]
    BY <1>8, <2>1, <2>2 DEF CopyFill
  <2>4. copying' \in [busy : BOOLEAN, at : Places, names : SUBSET Names,
                      now : Names \cup {"none"}, data : Contents, failed : BOOLEAN]
    BY <1>8, <1>c DEF CopyFill, TypeOK, Contents
  <2> QED BY <1>8, <2>3, <2>4 DEF CopyFill, TypeOK, storeVars, cleanVars, Contents
<1>4. CASE BackupEnd
  <2>1. ListArtifacts(copying.at) \subseteq Names
    BY DEF ListArtifacts, Present
  <2> QED BY <1>c, <1>4, <2>1 DEF BackupEnd, NoCopy, TypeOK, storeVars, cleanVars
<1>5. CASE RestoreOpen
  <2>1. PICK n \in restoring.names :
           /\ restoring' = [restoring EXCEPT !.names = @ \ {n}, !.now = n]
           /\ Put(restoring.at, n, "torn")
    BY <1>5 DEF RestoreOpen
  <2>2. restoring.at \in Places /\ n \in Names
    BY <2>1 DEF TypeOK
  <2>3. files' \in [Places -> [Names -> Contents]]
    BY <1>c, <2>1, <2>2, PutFile
  <2> QED BY <1>5, <2>1, <2>2, <2>3 DEF RestoreOpen, TypeOK, cleanVars, Contents
<1>6. CASE RestoreFill
  <2>2. restoring.at \in Places /\ restoring.now \in Names
    BY <1>6 DEF TypeOK, RestoreFill
  <2>1. backup[restoring.at][restoring.now] \in Contents
    BY <2>2 DEF TypeOK, Contents
  <2>3. files' \in [Places -> [Names -> Contents]]
    BY <1>6, <2>1, <2>2, PutFile DEF RestoreFill, TypeOK, Contents
  <2> QED BY <1>6, <2>3 DEF RestoreFill, TypeOK, cleanVars, Contents
<1>7. CASE RestoreEnd
  BY <1>c, <1>7 DEF RestoreEnd, NoRestore, TypeOK, storeVars, cleanVars
<1> QED BY <1>1, <1>2, <1>3, <1>4, <1>5, <1>6, <1>7, <1>8 DEF Copy

LEMMA NoFilesType == NoFiles \in [Places -> [Names -> Contents]]
                     /\ \A p \in Places, n \in Names : NoFiles[p][n] = "absent"
  BY DEF NoFiles, Contents

LEMMA CrashSpent ==
  ASSUME TypeOK, Crash
  PROVE  /\ spent' \in [{"backups", "restores", "faults", "crashes"} -> Nat]
         /\ spent'.crashes # spent.crashes
<1> DEFINE once == [spent EXCEPT !.faults = @ + 1]
<1>1. spent \in [{"backups", "restores", "faults", "crashes"} -> Nat]
  BY DEF TypeOK
<1>2. once \in [{"backups", "restores", "faults", "crashes"} -> Nat] /\ once["crashes"] = spent["crashes"]
  BY <1>1
<1>3. spent' = [once EXCEPT !["crashes"] = @ + 1]
  BY <1>1 DEF Crash
<1> HIDE DEF once
<1> QED BY <1>1, <1>2, <1>3

LEMMA CrashType == ASSUME TypeOK, Crash PROVE TypeOK'
<1>1. /\ files' \in [Places -> [Names -> Contents]]
      /\ hint' \in [Places -> [Kinds -> {"absent"} \cup Writers]]
      /\ dirs' \subseteq Places
  BY NoFilesType DEF Crash, VolumeLost, NoHints, TypeOK, Contents
<1>2. spent' \in [{"backups", "restores", "faults", "crashes"} -> Nat]
  BY CrashSpent
<1> QED BY <1>1, <1>2, Constants DEF Crash, TypeOK, Off, NoCopy, NoRestore, Contents

LEMMA TypeNext == ASSUME TypeOK, CleanInv, [Next]_vars PROVE TypeOK'
<1>1. CASE Start \/ Stop \/ Joined
  <2>1. [Off EXCEPT !.phase = "head"] \in [phase : {"off", "head", "round"}, places : SUBSET Places,
                    at : Places, names : SUBSET Names, half : Names \cup {"none"}]
    BY Constants DEF Off
  <2> QED BY <1>1, <2>1 DEF Start, Stop, Joined, TypeOK, storeVars, copyVars
<1>2. CASE UNCHANGED vars
  BY <1>2 DEF TypeOK, vars, storeVars, cleanVars, copyVars
<1>3. CASE \E p \in Places : InitPlan(p)
  BY <1>3 DEF InitPlan, TypeOK, cleanVars, copyVars
<1> QED BY <1>1, <1>2, <1>3, WriteType, CleanType, CopyType, CrashType DEF Next

-----------------------------------------------------------------------------
(* Contents.                                                                *)

LEMMA PutContent ==
  ASSUME TypeOK, DiskInv, stored \subseteq stored', NEW p \in Places, NEW n \in Names,
         NEW c \in Contents, Put(p, n, c), Came(c, p, n, stored')
  PROVE  DiskInv'
<1>1. SUFFICES ASSUME NEW q \in Places, NEW m \in Names PROVE Came(files'[q][m], q, m, stored')
  BY DEF DiskInv
<1>2. Came(files[q][m], q, m, stored)
  BY DEF DiskInv
<1>3. CASE q = p /\ m = n
  BY <1>3, PutFile
<1>4. CASE q # p \/ m # n
  <2>1. files'[q][m] = files[q][m]
    BY <1>4, PutFile
  <2> QED BY <1>2, <2>1 DEF Came
<1> QED BY <1>3, <1>4

\* no content needs no origin
LEMMA Nothing == \A p, n, S : Came("absent", p, n, S) /\ Came("torn", p, n, S)
  BY Constants DEF Came

\* what was stored stays so
LEMMA ContentKept ==
  ASSUME stored \subseteq stored'
  PROVE  /\ BackupInv /\ UNCHANGED backup => BackupInv'
         /\ HintInv /\ UNCHANGED hint => HintInv'
         /\ DiskInv /\ UNCHANGED files => DiskInv'
         /\ CopyInv /\ UNCHANGED copying => CopyInv'
  BY DEF BackupInv, HintInv, DiskInv, CopyInv, Came

LEMMA WriteContent == ASSUME TypeOK, ContentInv, NEW w \in Writers, Write(w) PROVE ContentInv'
<1>c. /\ PlaceOf[w] \in Places /\ KindOf[w] \in Kinds /\ KindOf[w] \in Names /\ w \in Names /\ w \in Contents
      /\ w \notin Kinds /\ "absent" \in Contents /\ "torn" \in Contents
  BY Constants
<1>i. DiskInv /\ BackupInv /\ HintInv /\ WroteInv /\ CopyInv
  BY DEF ContentInv
<1>1. CASE OpenTemp(w)
  <2>1. DiskInv'
    BY <1>c, <1>i, <1>1, PutContent, Nothing DEF OpenTemp
  <2>2. WroteInv'
    BY <1>i, <1>1, GoTo DEF OpenTemp, MayWrite, WroteInv
  <2> QED BY <1>i, <1>1, <2>1, <2>2, ContentKept DEF OpenTemp, copyVars, ContentInv
<1>2. CASE FillTemp(w)
  <2>0. stored' = stored /\ backup' = backup /\ hint' = hint /\ copying' = copying
    BY <1>2 DEF FillTemp, copyVars
  <2>1. DiskInv'
    <3>1. CASE Put(PlaceOf[w], w, w)
      BY <1>c, <1>i, <2>0, <3>1, PutContent DEF Came
    <3>2. CASE UNCHANGED files
      BY <1>i, <2>0, <3>2, ContentKept
    <3> QED BY <1>2, <3>1, <3>2 DEF FillTemp
  <2>2. WroteInv'
    BY <1>i, <1>2, GoTo DEF FillTemp, WroteInv
  <2> QED BY <1>i, <2>0, <2>1, <2>2, ContentKept DEF ContentInv
<1>3. CASE FillFails(w)
  <2>1. DiskInv'
    BY <1>c, <1>i, <1>3, PutContent, Nothing DEF FillFails
  <2>2. WroteInv'
    BY <1>i, <1>3, GoTo DEF FillFails, WroteInv
  <2> QED BY <1>i, <1>3, <2>1, <2>2, ContentKept DEF FillFails, copyVars, ContentInv
<1>4. CASE Replace(w)
  <2>0. backup' = backup /\ hint' = hint /\ copying' = copying
    BY <1>4 DEF Replace, copyVars
  <2>1. CASE w \in Present(files, PlaceOf[w])
    <3>1. stored' = stored \cup {w} /\ Goto(w, AfterPut(w))
      BY <1>4, <2>1 DEF Replace
    <3>2. WroteInv'
      BY <1>i, <3>1, GoTo DEF WroteInv, AfterPut
    <3>3. ASSUME NEW q \in Places, NEW m \in Names PROVE Came(files'[q][m], q, m, stored')
      <4>1. Came(files[q][m], q, m, stored) /\ Came(files[PlaceOf[w]][w], PlaceOf[w], w, stored)
        BY <1>c, <1>i DEF DiskInv
      <4>2. CASE q = PlaceOf[w] /\ m = KindOf[w]
        <5>1. files'[q][m] = files[PlaceOf[w]][w]
          BY <1>4, <2>1, <4>2, MoveFile
        <5> QED BY <1>c, <3>1, <4>1, <4>2, <5>1 DEF Came
      <4>3. CASE q = PlaceOf[w] /\ m = w
        <5>1. files'[q][m] = "absent"
          BY <1>4, <2>1, <4>3, MoveFile
        <5> QED BY <5>1, Nothing
      <4>4. CASE q # PlaceOf[w] \/ m \notin {w, KindOf[w]}
        <5>1. files'[q][m] = files[q][m]
          BY <1>4, <2>1, <4>4, MoveFile
        <5> QED BY <3>1, <4>1, <5>1 DEF Came
      <4> QED BY <4>2, <4>3, <4>4
    <3>4. DiskInv'
      BY <3>3 DEF DiskInv
    <3> QED BY <1>i, <2>0, <3>1, <3>2, <3>4, ContentKept DEF ContentInv
  <2>2. CASE w \notin Present(files, PlaceOf[w])
    <3>1. stored' = stored /\ files' = files /\ Goto(w, "vanished")
      BY <1>4, <2>2 DEF Replace
    <3>2. WroteInv'
      BY <1>i, <3>1, GoTo DEF WroteInv
    <3> QED BY <1>i, <2>0, <3>1, <3>2, ContentKept DEF ContentInv
  <2> QED BY <2>1, <2>2
<1>5. CASE PutObject(w)
  <2>1. stored' = stored \cup {w} /\ Goto(w, AfterPut(w))
    BY <1>5 DEF PutObject
  <2>2. DiskInv'
    BY <1>c, <1>i, <1>5, PutContent DEF PutObject, Came
  <2>3. WroteInv'
    BY <1>i, <2>1, GoTo DEF WroteInv, AfterPut
  <2> QED BY <1>i, <1>5, <2>1, <2>2, <2>3, ContentKept DEF PutObject, copyVars, ContentInv
<1>6. CASE PutFails(w)
  <2>1. WroteInv'
    BY <1>i, <1>6, GoTo DEF PutFails, WroteInv
  <2> QED BY <1>i, <1>6, <2>1, ContentKept DEF PutFails, copyVars, ContentInv
<1>7. CASE WriteHint(w)
  <2>1. w \in stored
    BY <1>i, <1>7 DEF WriteHint, WroteInv
  <2>2. HintInv'
    <3>1. SUFFICES ASSUME NEW q \in Places, NEW k \in Kinds PROVE Came(hint'[q][k], q, k, stored')
      BY DEF HintInv
    <3>2. Came(hint[q][k], q, k, stored)
      BY <1>i DEF HintInv
    <3>3. hint'[q][k] = IF q = PlaceOf[w] /\ k = KindOf[w] THEN w ELSE hint[q][k]
      BY <1>7 DEF WriteHint, TypeOK
    <3>4. stored' = stored
      BY <1>7 DEF WriteHint
    <3> QED BY <2>1, <3>2, <3>3, <3>4 DEF Came
  <2>3. WroteInv'
    BY <1>i, <1>7, GoTo DEF WriteHint, WroteInv
  <2> QED BY <1>i, <1>7, <2>2, <2>3, ContentKept DEF WriteHint, copyVars, ContentInv
<1>8. CASE HintFails(w)
  <2>1. WroteInv'
    BY <1>i, <1>8, GoTo DEF HintFails, WroteInv
  <2> QED BY <1>i, <1>8, <2>1, ContentKept DEF HintFails, copyVars, ContentInv
<1> QED BY <1>1, <1>2, <1>3, <1>4, <1>5, <1>6, <1>7, <1>8 DEF Write

LEMMA CleanContent == ASSUME TypeOK, CleanInv, ContentInv, Clean PROVE ContentInv'
<1>c. Bare \in Places /\ "absent" \in Contents /\ Swept \subseteq Names
  BY Constants, SweptNames
<1>i. DiskInv /\ BackupInv /\ HintInv /\ WroteInv /\ CopyInv
  BY DEF ContentInv
<1>1. /\ stored' = stored /\ hint' = hint /\ backup' = backup /\ write' = write
      /\ copying' = copying
  BY DEF Clean, LoopHead, ListPlan, DeleteArtifact, DeleteLegacy, RoundEnds, storeVars, copyVars
<1>2. DiskInv'
  <2>1. CASE UNCHANGED files
    BY <1>i, <1>1, <2>1, ContentKept
  <2>2. CASE DeleteArtifact
    <3>1. PICK n \in cleaner.names : Put(cleaner.at, n, "absent") \/ UNCHANGED files
      BY <2>2 DEF DeleteArtifact, Removed
    <3>2. cleaner.at \in Places /\ n \in Names
      BY DEF TypeOK
    <3> QED BY <1>c, <1>i, <1>1, <2>1, <3>1, <3>2, PutContent, Nothing
  <2>3. CASE DeleteLegacy
    <3>1. cleaner.half \in Names /\ Second(cleaner.at) \in Places
      BY <1>c, <2>3 DEF DeleteLegacy, CleanInv, Second, TypeOK
    <3>2. Put(Second(cleaner.at), cleaner.half, "absent") \/ UNCHANGED files
      BY <2>3 DEF DeleteLegacy, Removed
    <3> QED BY <1>c, <1>i, <1>1, <2>1, <3>1, <3>2, PutContent, Nothing
  <2> QED BY <2>1, <2>2, <2>3 DEF Clean, LoopHead, ListPlan, RoundEnds, storeVars
<1>3. WroteInv'
  BY <1>i, <1>1 DEF WroteInv
<1> QED BY <1>i, <1>1, <1>2, <1>3, ContentKept DEF ContentInv

LEMMA CopyContent == ASSUME TypeOK, ContentInv, Copy PROVE ContentInv'
<1>c. "torn" \in Contents
  BY Constants
<1>i. DiskInv /\ BackupInv /\ HintInv /\ WroteInv /\ CopyInv
  BY DEF ContentInv
<1>1. stored' = stored /\ hint' = hint /\ write' = write
  BY DEF Copy, BackupStart, RestoreStart, CopyOpen, CopyFill, BackupEnd, RestoreOpen, RestoreFill,
         RestoreEnd, storeVars
<1>2. DiskInv'
  <2>1. CASE UNCHANGED files
    BY <1>i, <1>1, <2>1, ContentKept
  <2>2. CASE RestoreOpen
    <3>1. PICK n \in restoring.names : Put(restoring.at, n, "torn")
      BY <2>2 DEF RestoreOpen
    <3>2. restoring.at \in Places /\ n \in Names
      BY DEF TypeOK
    <3> QED BY <1>c, <1>i, <1>1, <3>1, <3>2, PutContent, Nothing
  <2>3. CASE RestoreFill /\ ~UNCHANGED files
    <3>1. restoring.at \in Places /\ restoring.now \in Names
      BY <2>3 DEF TypeOK, RestoreFill
    <3> DEFINE c == backup[restoring.at][restoring.now]
    <3>2. c \in Contents /\ Came(c, restoring.at, restoring.now, stored)
      BY <1>i, <3>1 DEF TypeOK, Contents, BackupInv
    <3>3. Put(restoring.at, restoring.now, c)
      BY <2>3 DEF RestoreFill
    <3> HIDE DEF c
    <3> QED BY <1>i, <1>1, <3>1, <3>2, <3>3, PutContent
  <2> QED BY <2>1, <2>2, <2>3 DEF Copy, BackupStart, RestoreStart, CopyOpen, CopyFill, BackupEnd,
                                   RestoreEnd, storeVars
<1>3. BackupInv'
  <2>1. CASE UNCHANGED backup
    BY <1>i, <1>1, <2>1, ContentKept
  <2>2. ASSUME NEW n \in Names, NEW c, copying.at \in Places, Came(c, copying.at, n, stored),
               backup' = [backup EXCEPT ![copying.at][n] = c]
        PROVE  BackupInv'
    <3>1. SUFFICES ASSUME NEW q \in Places, NEW m \in Names PROVE Came(backup'[q][m], q, m, stored')
      BY DEF BackupInv
    <3>2. backup'[q][m] = IF q = copying.at /\ m = n THEN c ELSE backup[q][m]
      BY <2>2 DEF TypeOK
    <3>3. Came(backup[q][m], q, m, stored)
      BY <1>i DEF BackupInv
    <3> QED BY <1>1, <2>2, <3>2, <3>3
  <2>3. CASE CopyOpen /\ ~UNCHANGED backup
    <3>1. PICK n \in copying.names : backup' = [backup EXCEPT ![copying.at][n] = "torn"]
      BY <2>3 DEF CopyOpen
    <3>2. copying.at \in Places /\ n \in Names
      BY DEF TypeOK
    <3> QED BY <2>2, <3>1, <3>2, Nothing
  <2>4. CASE CopyFill
    <3>1. /\ copying.at \in Places /\ copying.now \in Names
          /\ Came(copying.data, copying.at, copying.now, stored)
          /\ backup' = [backup EXCEPT ![copying.at][copying.now] = copying.data]
      BY <1>i, <2>4 DEF CopyFill, CopyInv, TypeOK
    <3> QED BY <2>2, <3>1
  <2> QED BY <2>1, <2>3, <2>4 DEF Copy, BackupStart, RestoreStart, BackupEnd, RestoreOpen,
                            RestoreFill, RestoreEnd
<1>5. CopyInv'
  <2>1. CASE copying'.now = "none"
    BY <2>1 DEF CopyInv
  <2>2. CASE UNCHANGED copying
    BY <1>i, <1>1, <2>2, ContentKept
  <2>3. CASE CopyOpen /\ ~UNCHANGED copying /\ copying'.now # "none"
    <3>1. PICK n \in copying.names :
             \/ copying' = [copying EXCEPT !.names = @ \ {n}, !.failed = TRUE]
             \/ copying' = [copying EXCEPT !.names = @ \ {n}, !.now = n,
                                           !.data = files[copying.at][n]]
      BY <2>3 DEF CopyOpen
    <3>2. copying.at \in Places /\ n \in Names /\ copying.now = "none"
      BY <2>3 DEF TypeOK, CopyOpen
    <3>3. /\ copying'.at = copying.at /\ copying'.now = n
          /\ copying'.data = files[copying.at][n]
      BY <2>3, <3>1, <3>2 DEF TypeOK
    <3>4. Came(files[copying.at][n], copying.at, n, stored)
      BY <1>i, <3>2 DEF DiskInv
    <3> QED BY <1>1, <3>3, <3>4 DEF CopyInv
  <2>4. CASE CopyFill \/ BackupEnd \/ \E p \in Places : BackupStart(p)
    <3>1. CASE CopyFill
      BY <2>1, <3>1 DEF CopyFill, TypeOK
    <3>2. CASE BackupEnd
      BY <2>1, <3>2 DEF BackupEnd, NoCopy
    <3>3. ASSUME NEW p \in Places, BackupStart(p) PROVE CopyInv'
      BY <2>1, <3>3 DEF BackupStart, NoCopy
    <3> QED BY <2>4, <3>1, <3>2, <3>3
  <2> QED BY <2>1, <2>2, <2>3, <2>4 DEF Copy, RestoreStart, RestoreOpen, RestoreFill, RestoreEnd
<1>4. WroteInv'
  BY <1>i, <1>1 DEF WroteInv
<1> QED BY <1>i, <1>1, <1>2, <1>3, <1>4, <1>5, ContentKept DEF ContentInv

LEMMA CrashContent == ASSUME TypeOK, ContentInv, Crash PROVE ContentInv'
<1>i. DiskInv /\ BackupInv /\ HintInv /\ WroteInv /\ CopyInv
  BY DEF ContentInv
<1>1. stored' = stored /\ backup' = backup /\ CopyInv'
  BY DEF Crash, CopyInv, NoCopy
<1>2. DiskInv'
  <2>1. CASE files' = NoFiles
    BY <2>1, NoFilesType, Nothing DEF DiskInv
  <2> QED BY <1>i, <1>1, <2>1, ContentKept DEF Crash, VolumeLost
<1>4. HintInv'
  <2>1. CASE hint' = NoHints
    BY <2>1, Nothing DEF HintInv, NoHints
  <2> QED BY <1>i, <1>1, <2>1, ContentKept DEF Crash, VolumeLost
<1>3. WroteInv'
  <2>1. \A w \in Writers : write'[w] = write[w] \/ write'[w] = "crashed"
    BY DEF Crash
  <2> QED BY <1>i, <1>1, <2>1 DEF WroteInv
<1> QED BY <1>i, <1>1, <1>2, <1>3, <1>4, ContentKept DEF ContentInv

LEMMA ContentNext == ASSUME TypeOK, CleanInv, ContentInv, [Next]_vars PROVE ContentInv'
<1>1. CASE Start \/ Stop \/ Joined \/ UNCHANGED vars
  BY <1>1, ContentKept DEF Start, Stop, Joined, vars, storeVars, copyVars, ContentInv, WroteInv
<1>2. CASE \E p \in Places : InitPlan(p)
  BY <1>2, ContentKept DEF InitPlan, copyVars, ContentInv, WroteInv
<1> QED BY <1>1, <1>2, WriteContent, CleanContent, CopyContent, CrashContent DEF Next

-----------------------------------------------------------------------------
(* The clean-up and the restore.                                            *)

LEMMA CleanNext == ASSUME TypeOK, CleanInv, [Next]_vars PROVE CleanInv'
<1>1. CASE UNCHANGED cleaner
  BY <1>1 DEF CleanInv
<1>2. CASE cleaner'.names = {} /\ cleaner'.half = "none"
  BY <1>2 DEF CleanInv
<1>3. CASE Start \/ Crash \/ LoopHead \/ RoundEnds
  <2>1. \/ UNCHANGED cleaner \/ cleaner' = Off \/ cleaner' = [Off EXCEPT !.phase = "head"]
        \/ cleaner' = [Off EXCEPT !.phase = "round", !.places = Scanned \cap dirs]
    BY <1>3 DEF Start, Crash, LoopHead, RoundEnds
  <2>2. CASE cleaner' # cleaner
    <3>1. cleaner'.names = {} /\ cleaner'.half = "none"
      <4>1. CASE cleaner' = Off
        BY <4>1 DEF Off
      <4>2. CASE cleaner' = [Off EXCEPT !.phase = "head"]
        BY <4>2 DEF Off
      <4>3. CASE cleaner' = [Off EXCEPT !.phase = "round", !.places = Scanned \cap dirs]
        BY <4>3 DEF Off
      <4> QED BY <2>1, <2>2, <4>1, <4>2, <4>3
    <3> QED BY <3>1 DEF CleanInv
  <2> QED BY <1>1, <2>2
<1>4. CASE ListPlan
  <2>1. PICK p \in cleaner.places : cleaner' =
           LET old == {n \in ListArtifacts(p) : TierFor(n) = "ephemeral"} IN
           [cleaner EXCEPT !.places = @ \ {p}, !.names = old, !.at = IF old = {} THEN Bare ELSE p]
    BY <1>4 DEF ListPlan
  <2>2. ListArtifacts(p) \subseteq Names
    BY DEF ListArtifacts, Present
  <2> DEFINE old == {n \in ListArtifacts(p) : TierFor(n) = "ephemeral"}
  <2>3. old \subseteq Swept
    BY <2>2 DEF Swept
  <2> HIDE DEF old
  <2>4. cleaner'.names = old /\ cleaner'.half = cleaner.half
    BY <2>1 DEF old, TypeOK
  <2> QED BY <2>3, <2>4 DEF CleanInv
<1>5. CASE DeleteArtifact
  BY <1>5 DEF DeleteArtifact, CleanInv, TypeOK
<1>6. CASE DeleteLegacy
  BY <1>6 DEF DeleteLegacy, CleanInv, TypeOK
<1>7. CASE Copy \/ \E w \in Writers : Write(w)
  BY <1>1, <1>7 DEF Copy, BackupStart, RestoreStart, CopyOpen, CopyFill, BackupEnd, RestoreOpen,
     RestoreFill, RestoreEnd, Write, OpenTemp, FillTemp, FillFails, Replace, PutObject,
     PutFails, WriteHint, HintFails, cleanVars
<1>8. CASE Stop \/ Joined \/ (\E p \in Places : InitPlan(p)) \/ UNCHANGED vars
  BY <1>1, <1>8 DEF Stop, Joined, InitPlan, vars, cleanVars
<1> QED BY <1>3, <1>4, <1>5, <1>6, <1>7, <1>8 DEF Next, Clean

\* the part of a step that a restore under way can see
LEMMA RestoreNext == ASSUME TypeOK, RestoreInv, [Next]_vars PROVE RestoreInv'
<1>1. CASE UNCHANGED <<copying, restoring, backup, write>>
  BY <1>1 DEF RestoreInv
<1>2. ASSUME NEW w \in Writers, Write(w) PROVE RestoreInv'
  <2>1. UNCHANGED <<copying, restoring, backup>>
    BY <1>2 DEF Write, OpenTemp, FillTemp, FillFails, Replace, PutObject, PutFails, WriteHint, HintFails, copyVars
  <2>2. \A v \in Writers \ {w} : write'[v] = write[v]
    BY <1>2, GoTo DEF Write, OpenTemp, FillTemp, FillFails, Replace, PutObject, PutFails, WriteHint, HintFails
  <2>3. restoring.busy /\ PlaceOf[w] = restoring.at => write'[w] \notin {"open", "filled"}
    <3>1. SUFFICES ASSUME restoring.busy, PlaceOf[w] = restoring.at
                   PROVE  write'[w] \notin {"open", "filled"}
      OBVIOUS
    <3>2. write[w] \notin {"open", "filled"} /\ ~MayWrite(w)
      BY <3>1 DEF RestoreInv, MayWrite
    <3>3. WriteHint(w) \/ HintFails(w)
      BY <1>2, <3>2 DEF Write, OpenTemp, FillTemp, FillFails, Replace, PutObject, PutFails
    <3> QED BY <3>3, GoTo DEF WriteHint, HintFails
  <2> QED BY <2>1, <2>2, <2>3 DEF RestoreInv
<1>3. CASE Copy
  <2>1. CASE \E p \in Places : BackupStart(p)
    BY <2>1 DEF BackupStart, RestoreInv, storeVars
  <2>2. CASE \E p \in Places : RestoreStart(p)
    BY <2>2 DEF RestoreStart, NoRestore, RestoreInv, Present, storeVars
  <2>3. CASE CopyOpen \/ CopyFill
    <3>1. /\ copying.busy /\ ~restoring.busy /\ restoring' = restoring
          /\ copying'.busy = copying.busy
      BY <2>3 DEF CopyOpen, CopyFill, RestoreInv, TypeOK
    <3> QED BY <3>1 DEF RestoreInv
  <2>4. CASE BackupEnd
    BY <2>4 DEF BackupEnd, NoCopy, RestoreInv, storeVars
  <2>5. CASE RestoreOpen
    <3>1. PICK n \in restoring.names : restoring' = [restoring EXCEPT !.names = @ \ {n}, !.now = n]
      BY <2>5 DEF RestoreOpen
    <3>2. /\ restoring'.busy = restoring.busy /\ restoring'.at = restoring.at
          /\ restoring'.names = restoring.names \ {n} /\ restoring'.now = n
      BY <3>1 DEF TypeOK
    <3> QED BY <2>5, <3>2 DEF RestoreOpen, RestoreInv
  <2>6. CASE RestoreFill
    <3>1. /\ restoring'.busy = restoring.busy /\ restoring'.at = restoring.at
          /\ restoring'.names = restoring.names /\ restoring'.now = "none"
      BY <2>6 DEF RestoreFill, TypeOK
    <3> QED BY <2>6, <3>1 DEF RestoreFill, RestoreInv
  <2>7. CASE RestoreEnd
    BY <2>7 DEF RestoreEnd, NoRestore, RestoreInv
  <2> QED BY <1>3, <2>1, <2>2, <2>3, <2>4, <2>5, <2>6, <2>7 DEF Copy
<1>4. CASE Crash
  BY <1>4 DEF Crash, NoCopy, NoRestore, RestoreInv
<1>5. CASE Start \/ Stop \/ Joined \/ Clean \/ (\E p \in Places : InitPlan(p)) \/ UNCHANGED vars
  BY <1>1, <1>5 DEF InitPlan, Start, Stop, Joined, Clean, LoopHead, ListPlan, DeleteArtifact, DeleteLegacy,
     RoundEnds, vars, storeVars, copyVars
<1> QED BY <1>2, <1>3, <1>4, <1>5 DEF Next

\* the clean-up takes nothing durable
LEMMA CleanKeeps ==
  ASSUME TypeOK, CleanInv, Clean
  PROVE  /\ files' \in [Places -> [Names -> Contents]]
         /\ \A p \in Places, n \in Names \ Swept : files'[p][n] = files[p][n]
<1>1. CASE UNCHANGED files
  BY <1>1 DEF TypeOK, Contents
<1>2. CASE DeleteArtifact
  <2>1. PICK n \in cleaner.names : Put(cleaner.at, n, "absent") \/ UNCHANGED files
    BY <1>2 DEF DeleteArtifact, Removed
  <2>2. cleaner.at \in Places /\ n \in Names /\ n \in Swept
    BY DEF TypeOK, CleanInv
  <2> QED BY <1>1, <2>1, <2>2, PutFile, Constants
<1>3. CASE DeleteLegacy
  <2>1. cleaner.half \in Swept /\ Second(cleaner.at) \in Places
    BY <1>3, Constants DEF DeleteLegacy, CleanInv, Second, TypeOK
  <2>2. Put(Second(cleaner.at), cleaner.half, "absent") \/ UNCHANGED files
    BY <1>3 DEF DeleteLegacy, Removed
  <2> QED BY <1>1, <2>1, <2>2, PutFile, Constants, SweptNames
<1> QED BY <1>1, <1>2, <1>3 DEF Clean, LoopHead, ListPlan, RoundEnds, storeVars

\* a write touches no plan that is being restored
LEMMA WriteElsewhere ==
  ASSUME TypeOK, RestoreInv, restoring.busy, NEW w \in Writers, Write(w)
  PROVE  \A n \in Names : files'[restoring.at][n] = files[restoring.at][n]
<1>1. CASE PlaceOf[w] = restoring.at
  <2>1. write[w] \notin {"open", "filled"} /\ ~MayWrite(w)
    BY <1>1 DEF RestoreInv, MayWrite
  <2>2. WriteHint(w) \/ HintFails(w)
    BY <2>1 DEF Write, OpenTemp, FillTemp, FillFails, Replace, PutObject, PutFails
  <2> QED BY <2>2 DEF WriteHint, HintFails
<1>2. CASE PlaceOf[w] # restoring.at
  <2>1. restoring.at \in Places /\ PlaceOf[w] \in Places
    BY Constants DEF TypeOK
  <2>2. \A n \in Names, c \in Contents : Put(PlaceOf[w], n, c) =>
           \A m \in Names : files'[restoring.at][m] = files[restoring.at][m]
    BY <1>2, <2>1, PutFile
  <2>3. CASE Replace(w)
    <3>1. CASE w \in Present(files, PlaceOf[w])
      BY <1>2, <2>1, <2>3, <3>1, MoveFile
    <3> QED BY <2>3, <3>1 DEF Replace
  <2> QED BY <2>2, <2>3, Constants DEF Write, OpenTemp, FillTemp, FillFails, PutObject, PutFails, WriteHint, HintFails
<1> QED BY <1>1, <1>2

LEMMA ReadsWhole ==
  /\ \A c : Whole(c) => c \in Writers /\ c # "absent"
  /\ UNCHANGED backend => \A c : Whole(c)' <=> Whole(c)
  BY Constants DEF Whole, TooLarge

\* what every action but a crash and those of the restore leaves as it was
LEMMA ProgressKept ==
  ASSUME ProgressInv, UNCHANGED <<backend, backup, restoring>>,
         restoring.busy => \A k \in Durable : files'[restoring.at][k] = files[restoring.at][k]
  PROVE  ProgressInv'
  BY DEF ProgressInv, Whole, TooLarge

LEMMA ProgressNext == ASSUME StoreInv, [Next]_vars PROVE ProgressInv'
<1>i. TypeOK /\ CleanInv /\ RestoreInv /\ ProgressInv
  BY DEF StoreInv
<1>d. Durable \subseteq Names \ Swept /\ \A k \in Durable : k # "none" /\ k \in Names
  BY Constants, SweptNames DEF Durable
<1>1. ASSUME NEW w \in Writers, Write(w) PROVE ProgressInv'
  <2>1. UNCHANGED <<backend, backup, restoring>>
    BY <1>1 DEF Write, OpenTemp, FillTemp, FillFails, Replace, PutObject, PutFails, WriteHint, HintFails, copyVars
  <2> QED BY <1>i, <1>d, <1>1, <2>1, WriteElsewhere, ProgressKept
<1>2. CASE Clean
  <2>1. UNCHANGED <<backend, backup, restoring>>
    BY <1>2 DEF Clean, LoopHead, ListPlan, DeleteArtifact, DeleteLegacy, RoundEnds, copyVars
  <2>2. restoring.busy => \A k \in Durable : files'[restoring.at][k] = files[restoring.at][k]
    BY <1>i, <1>d, <1>2, CleanKeeps DEF TypeOK
  <2> QED BY <1>i, <2>1, <2>2, ProgressKept
<1>3. CASE Start \/ Stop \/ Joined \/ BackupEnd \/ (\E p \in Places : InitPlan(p)) \/ UNCHANGED vars
  BY <1>i, <1>3, ProgressKept DEF InitPlan, Start, Stop, Joined, BackupEnd, vars, storeVars, copyVars
<1>4. CASE \E p \in Places : BackupStart(p)
  BY <1>i, <1>4, ProgressKept DEF BackupStart, storeVars
<1>5. CASE CopyOpen \/ CopyFill \/ RestoreEnd \/ Crash
  <2>1. \/ restoring' = NoRestore
        \/ copying.busy /\ restoring' = restoring
    BY <1>i, <1>5 DEF CopyOpen, CopyFill, RestoreEnd, RestoreInv, Crash
  <2>2. ~restoring'.busy
    BY <1>i, <2>1 DEF NoRestore, RestoreInv
  <2> QED BY <2>2 DEF ProgressInv
<1>6. ASSUME NEW p \in Places, RestoreStart(p) PROVE ProgressInv'
  <2>1. UNCHANGED <<backend, backup>> /\ restoring'.at = p /\ restoring'.names = Present(backup, p)
    BY <1>6 DEF RestoreStart, NoRestore
  <2>2. \A k \in Durable : Whole(backup[p][k]) => k \in Present(backup, p)
    BY <1>d, ReadsWhole DEF Present
  <2> QED BY <2>1, <2>2, ReadsWhole DEF ProgressInv
<1>7. CASE RestoreOpen
  <2>1. PICK n \in restoring.names : /\ restoring' = [restoring EXCEPT !.names = @ \ {n}, !.now = n]
                                     /\ Put(restoring.at, n, "torn")
    BY <1>7 DEF RestoreOpen
  <2>2. /\ restoring'.busy = restoring.busy /\ restoring'.at = restoring.at
        /\ restoring'.names = restoring.names \ {n} /\ restoring'.now = n
    BY <1>i, <2>1 DEF TypeOK
  <2>3. restoring.at \in Places /\ n \in Names /\ restoring.now = "none"
    BY <1>i, <1>7 DEF TypeOK, RestoreOpen
  <2>4. /\ files'[restoring.at][n] = "torn"
        /\ \A m \in Names \ {n} : files'[restoring.at][m] = files[restoring.at][m]
    BY <1>i, <2>1, <2>3, PutFile, Constants
  <2>5. UNCHANGED <<backend, backup>>
    BY <1>7 DEF RestoreOpen
  <2>6. SUFFICES ASSUME restoring.busy, NEW k \in Durable, Whole(backup[restoring.at][k])
                 PROVE  \/ k \in restoring'.names
                        \/ k = restoring'.now /\ files'[restoring.at][k] # "absent"
                        \/ Whole(files'[restoring.at][k])
    BY <2>2, <2>5, ReadsWhole DEF ProgressInv
  <2>7. k \in restoring.names \/ Whole(files[restoring.at][k])
    BY <1>i, <1>d, <2>3, <2>6 DEF ProgressInv
  <2> QED BY <1>d, <2>2, <2>4, <2>7
<1>8. CASE RestoreFill
  <2>1. /\ restoring'.busy = restoring.busy /\ restoring'.at = restoring.at
        /\ restoring'.names = restoring.names /\ restoring'.now = "none"
    BY <1>i, <1>8 DEF RestoreFill, TypeOK
  <2>2. restoring.at \in Places /\ restoring.now \in Names
    BY <1>i, <1>8 DEF TypeOK, RestoreFill
  <2>3. backup[restoring.at][restoring.now] \in Contents
    BY <1>i, <2>2 DEF TypeOK, Contents
  <2>4. /\ \A m \in Names \ {restoring.now} : files'[restoring.at][m] = files[restoring.at][m]
        /\ files[restoring.at][restoring.now] # "absent" =>
              files'[restoring.at][restoring.now] = backup[restoring.at][restoring.now]
    BY <1>i, <1>8, <2>2, <2>3, PutFile DEF RestoreFill, Present
  <2>5. UNCHANGED <<backend, backup>>
    BY <1>8 DEF RestoreFill
  <2>6. SUFFICES ASSUME restoring.busy, NEW k \in Durable, Whole(backup[restoring.at][k])
                 PROVE  k \in restoring.names \/ Whole(files'[restoring.at][k])
    BY <2>1, <2>5, ReadsWhole DEF ProgressInv
  <2>7. CASE k = restoring.now /\ files[restoring.at][k] # "absent"
    BY <2>4, <2>6, <2>7
  <2>8. CASE k = restoring.now /\ files[restoring.at][k] = "absent"
    BY <1>i, <2>6, <2>8, ReadsWhole DEF ProgressInv
  <2>9. CASE k # restoring.now
    BY <1>i, <1>d, <2>4, <2>6, <2>9 DEF ProgressInv
  <2> QED BY <2>7, <2>8, <2>9
<1> QED BY <1>1, <1>2, <1>3, <1>4, <1>5, <1>6, <1>7, <1>8 DEF Next, Copy

LEMMA StoreNext == ASSUME StoreInv, [Next]_vars PROVE StoreInv'
  BY TypeNext, ContentNext, CleanNext, RestoreNext, ProgressNext DEF StoreInv

\* the temporary files, if their names are not of the ephemeral tier
LEMMA TempNext == ASSUME StoreInv, TempInv, DefaultTier # "ephemeral", [Next]_vars PROVE TempInv'
<1>i. TypeOK /\ CleanInv /\ RestoreInv
  BY DEF StoreInv
<1>t. \A w \in Writers : w \in Names \ Swept /\ PlaceOf[w] \in Places
  BY StoreAssumption, Constants DEF StoreAssumption, Swept, TierFor
<1>1. ASSUME NEW w \in Writers, Write(w) PROVE TempInv'
  <2>c. /\ PlaceOf[w] \in Places /\ KindOf[w] \in Names /\ w \in Names /\ w \in Contents
        /\ "absent" \in Contents /\ "torn" \in Contents
    BY Constants
  <2>w. write[w] # "vanished" /\ (write[w] \in {"open", "filled"} => w \in Present(files, PlaceOf[w]))
    BY <1>t DEF TempInv, Present
  <2>1. \A v \in Writers \ {w} : write'[v] = write[v]
    BY <1>i, <1>1, GoTo DEF Write, OpenTemp, FillTemp, FillFails, Replace, PutObject, PutFails, WriteHint, HintFails
  <2>2. /\ write'[w] \in {"open", "filled"} => files'[PlaceOf[w]][w] # "absent"
        /\ write'[w] # "vanished"
    <3>1. CASE OpenTemp(w)
      BY <1>i, <2>c, <3>1, PutFile, GoTo DEF OpenTemp
    <3>2. CASE FillTemp(w)
      BY <1>i, <2>c, <2>w, <3>2, PutFile, GoTo, Constants DEF FillTemp
    <3>3. CASE FillFails(w) \/ PutFails(w) \/ WriteHint(w) \/ HintFails(w)
      BY <1>i, <3>3, GoTo DEF FillFails, PutFails, WriteHint, HintFails
    <3>4. CASE Replace(w)
      BY <1>i, <2>w, <3>4, GoTo DEF Replace, AfterPut
    <3>5. CASE PutObject(w)
      BY <1>i, <3>5, GoTo DEF PutObject, AfterPut
    <3> QED BY <1>1, <3>1, <3>2, <3>3, <3>4, <3>5 DEF Write
  <2>3. \A v \in Writers \ {w} : files'[PlaceOf[v]][v] = files[PlaceOf[v]][v]
    <3>1. SUFFICES ASSUME NEW v \in Writers \ {w} PROVE files'[PlaceOf[v]][v] = files[PlaceOf[v]][v]
      OBVIOUS
    <3>2. PlaceOf[v] \in Places /\ v \in Names /\ v \notin {w, KindOf[w]}
      BY Constants
    <3>3. \A c \in Contents, n \in {w, KindOf[w]} : Put(PlaceOf[w], n, c) =>
             files'[PlaceOf[v]][v] = files[PlaceOf[v]][v]
      BY <1>i, <2>c, <3>2, PutFile
    <3>4. CASE Replace(w)
      BY <1>i, <2>c, <3>2, <3>4, MoveFile DEF Replace
    <3> QED BY <1>1, <2>c, <3>3, <3>4 DEF Write, OpenTemp, FillTemp, FillFails, PutObject, PutFails, WriteHint, HintFails
  <2> QED BY <2>1, <2>2, <2>3 DEF TempInv
<1>2. CASE Clean
  <2>1. write' = write
    BY <1>2 DEF Clean, LoopHead, ListPlan, DeleteArtifact, DeleteLegacy, RoundEnds, storeVars
  <2> QED BY <1>i, <1>t, <1>2, <2>1, CleanKeeps DEF TempInv
<1>3. CASE UNCHANGED <<write, files>>
  BY <1>3 DEF TempInv
<1>4. CASE RestoreOpen
  <2>1. PICK n \in restoring.names : Put(restoring.at, n, "torn")
    BY <1>4 DEF RestoreOpen
  <2>2. restoring.at \in Places /\ n \in Names /\ "torn" \in Contents
    BY <1>i, <2>1, Constants DEF TypeOK
  <2>3. \A w \in Writers : files'[PlaceOf[w]][w] \in {files[PlaceOf[w]][w], "torn"}
    BY <1>i, <1>t, <2>1, <2>2, PutFile
  <2>4. write' = write
    BY <1>4 DEF RestoreOpen
  <2> QED BY <2>3, <2>4 DEF TempInv
<1>5. CASE RestoreFill /\ ~UNCHANGED files
  <2> DEFINE c == backup[restoring.at][restoring.now]
  <2>1. restoring.at \in Places /\ restoring.now \in Names /\ c # "absent" /\ c \in Contents
    BY <1>i, <1>5 DEF TypeOK, RestoreFill, RestoreInv, Contents
  <2>2. Put(restoring.at, restoring.now, c) /\ write' = write
    BY <1>5 DEF RestoreFill
  <2> HIDE DEF c
  <2>3. \A w \in Writers : files'[PlaceOf[w]][w] \in {files[PlaceOf[w]][w], c}
    BY <1>i, <1>t, <2>1, <2>2, PutFile
  <2> QED BY <2>1, <2>2, <2>3 DEF TempInv
<1>6. CASE Crash
  <2>1. \A w \in Writers : write'[w] \notin {"open", "filled"} /\ (write'[w] = "vanished" => write[w] = "vanished")
    BY <1>6 DEF Crash
  <2> QED BY <2>1 DEF TempInv
<1>7. CASE Start \/ Stop \/ Joined \/ (\E p \in Places : InitPlan(p)) \/ UNCHANGED vars
  BY <1>3, <1>7 DEF InitPlan, Start, Stop, Joined, vars, storeVars
<1>8. CASE Copy
  BY <1>3, <1>4, <1>5, <1>8 DEF Copy, BackupStart, RestoreStart, CopyOpen, CopyFill, BackupEnd, RestoreFill,
     RestoreEnd, storeVars
<1> QED BY <1>1, <1>2, <1>6, <1>7, <1>8 DEF Next

-----------------------------------------------------------------------------
(* The initial state.                                                       *)

LEMMA OldFilesAre ==
  /\ OldFiles \in [Places -> [Names -> Contents]]
  /\ \A p \in Places, n \in Names : OldFiles[p][n] \in Writers =>
        OldFiles[p][n] \in Earlier /\ PlaceOf[OldFiles[p][n]] = p /\ KindOf[OldFiles[p][n]] = n
<1>1. SUFFICES ASSUME NEW p \in Places, NEW n \in Names
      PROVE  /\ OldFiles[p][n] \in Contents
             /\ OldFiles[p][n] \in Writers =>
                  OldFiles[p][n] \in Earlier /\ PlaceOf[OldFiles[p][n]] = p /\ KindOf[OldFiles[p][n]] = n
  BY DEF OldFiles
<1> DEFINE old == CHOOSE w \in Earlier : PlaceOf[w] = p /\ KindOf[w] = n
<1>2. OldFiles[p][n] = IF \E w \in Earlier : PlaceOf[w] = p /\ KindOf[w] = n THEN old ELSE "absent"
  BY DEF OldFiles
<1>3. CASE \E w \in Earlier : PlaceOf[w] = p /\ KindOf[w] = n
  <2>1. old \in Earlier /\ PlaceOf[old] = p /\ KindOf[old] = n
    BY <1>3
  <2>2. old \in Writers
    BY <2>1, StoreAssumption DEF StoreAssumption
  <2> HIDE DEF old
  <2> QED BY <1>2, <1>3, <2>1, <2>2 DEF Contents
<1>4. CASE ~ \E w \in Earlier : PlaceOf[w] = p /\ KindOf[w] = n
  BY <1>2, <1>4, Constants
<1> QED BY <1>3, <1>4

LEMMA StoreStart == Init => StoreInv /\ TempInv
<1>1. SUFFICES ASSUME Init PROVE StoreInv /\ TempInv
  OBVIOUS
<1>2. TypeOK
  <2>1. Earlier \subseteq Writers
    BY StoreAssumption DEF StoreAssumption
  <2>2. /\ files \in [Places -> [Names -> Contents]] /\ backup \in [Places -> [Names -> Contents]]
        /\ hint \in [Places -> [Kinds -> {"absent"} \cup Writers]]
        /\ report \in [Places -> SUBSET Names]
    BY <1>1, OldFilesAre, NoFilesType DEF Init, NoHints
  <2>6. dirs \subseteq Places
    BY <1>1, <2>1, Constants DEF Init
  <2>3. cleaner \in [phase : {"off", "head", "round"}, places : SUBSET Places,
                     at : Places, names : SUBSET Names, half : Names \cup {"none"}]
    BY <1>1, Constants DEF Init, Off
  <2>4. /\ copying \in [busy : BOOLEAN, at : Places, names : SUBSET Names,
                       now : Names \cup {"none"}, data : Contents, failed : BOOLEAN]
        /\ restoring \in [busy : BOOLEAN, at : Places, names : SUBSET Names,
                           now : Names \cup {"none"}]
    BY <1>1, Constants DEF Init, NoCopy, NoRestore
  <2>5. spent \in [{"backups", "restores", "faults", "crashes"} -> Nat]
    BY <1>1 DEF Init
  <2> QED BY <1>1, <2>1, <2>2, <2>3, <2>4, <2>5, <2>6 DEF Init, TypeOK, Contents
<1>3. ContentInv
  <2>1. DiskInv
    <3>1. SUFFICES ASSUME NEW p \in Places, NEW n \in Names, files[p][n] \in Writers
                   PROVE  Came(files[p][n], p, n, stored)
      BY DEF DiskInv, Came
    <3>2. files = OldFiles /\ stored = Earlier
      BY <1>1 DEF Init
    <3>3. files[p][n] \in Earlier /\ PlaceOf[files[p][n]] = p /\ KindOf[files[p][n]] = n
      BY <3>1, <3>2, OldFilesAre
    <3> QED BY <3>1, <3>2, <3>3, Constants DEF Came
  <2>2. BackupInv
    BY <1>1, NoFilesType, Nothing DEF Init, BackupInv
  <2>3. HintInv
    BY <1>1, Nothing DEF Init, HintInv, NoHints
  <2>4. WroteInv
    BY <1>1 DEF Init, WroteInv
  <2>5. CopyInv
    BY <1>1 DEF Init, CopyInv, NoCopy
  <2> QED BY <2>1, <2>2, <2>3, <2>4, <2>5 DEF ContentInv
<1>4. CleanInv /\ RestoreInv /\ ProgressInv
  BY <1>1 DEF Init, CleanInv, RestoreInv, ProgressInv, Off, NoCopy, NoRestore
<1>5. TempInv
  BY <1>1 DEF Init, TempInv
<1> QED BY <1>2, <1>3, <1>4, <1>5 DEF StoreInv

-----------------------------------------------------------------------------
(* Theorems.                                                                *)

\* All of the following holds in every state (artifact/backend.py, lifecycle.py, backup.py).
THEOREM StoreInvariant == Spec => []StoreInv
<1>1. Init => StoreInv
  BY StoreStart
<1>2. StoreInv /\ [Next]_vars => StoreInv'
  BY StoreNext
<1> QED BY <1>1, <1>2, PTL DEF Spec

\* The variables keep their types, for both backends.
THEOREM StoreTypeCorrect == Spec => []TypeOK
<1>1. StoreInv => TypeOK
  BY DEF StoreInv
<1> QED BY <1>1, StoreInvariant, PTL

\* What is read, mirrored or hinted under a place and kind was written for them by a
\* write that had stored it, whatever the crashes, clean-ups and restores between.
THEOREM ContentsCorrect == Spec => []ContentsAreStored
<1>1. StoreInv => ContentsAreStored
  <2>1. SUFFICES ASSUME StoreInv, NEW p \in Places, NEW k \in Kinds,
                        NEW w \in {files[p][k], hint[p][k], backup[p][k]} \cap Writers
                 PROVE  w \in stored /\ PlaceOf[w] = p /\ KindOf[w] = k
    BY DEF ContentsAreStored
  <2>2. Came(files[p][k], p, k, stored) /\ Came(hint[p][k], p, k, stored) /\ Came(backup[p][k], p, k, stored)
    BY <2>1, Constants DEF StoreInv, ContentInv, DiskInv, HintInv, BackupInv
  <2> QED BY <2>2 DEF Came
<1> QED BY <1>1, StoreInvariant, PTL

\* If unregistered names are not of the ephemeral tier, the clean-up never takes the
\* temporary file of a write (lifecycle.py tier_for, backend.py write).
THEOREM WritesAreKept == DefaultTier # "ephemeral" => (Spec => []NoWriteIsSwept)
<1> SUFFICES ASSUME DefaultTier # "ephemeral" PROVE Spec => []NoWriteIsSwept
  OBVIOUS
<1>1. Init => TempInv
  BY StoreStart
<1>2. StoreInv /\ TempInv /\ [Next]_vars => TempInv'
  BY TempNext
<1>3. TempInv => NoWriteIsSwept
  BY DEF TempInv, NoWriteIsSwept
<1> QED BY <1>1, <1>2, <1>3, StoreInvariant, PTL DEF Spec

\* A restore that returns has brought back every durable artifact of the backup, although
\* the clean-up runs all the while (backup.py restore_plan).
THEOREM RestoresComplete == Spec => RestoreIsComplete
<1> DEFINE complete ==
      restoring.busy /\ ~restoring'.busy /\ spent'.crashes = spent.crashes =>
          \A k \in Kinds \ Ephemeral :
              Whole(backup[restoring.at][k]) => Read(restoring.at, k) # "absent"
<1>1. ASSUME StoreInv, [Next]_vars PROVE [complete]_vars
  <2>1. SUFFICES ASSUME restoring.busy, ~restoring'.busy, spent'.crashes = spent.crashes,
                        NEW k \in Kinds \ Ephemeral, Whole(backup[restoring.at][k])
                 PROVE  Read(restoring.at, k) # "absent"
    OBVIOUS
  <2>2. TypeOK /\ RestoreInv /\ ProgressInv
    BY <1>1 DEF StoreInv
  <2>3. ~Crash
    BY <2>1, <2>2, CrashSpent
  <2>4. CASE RestoreEnd
    <3>1. Whole(files[restoring.at][k])
      BY <2>1, <2>2, <2>4, Constants DEF RestoreEnd, ProgressInv, Durable
    <3> QED BY <3>1, ReadsWhole DEF Read
  <2>5. CASE RestoreOpen \/ RestoreFill
    BY <2>1, <2>2, <2>5 DEF RestoreOpen, RestoreFill, TypeOK
  <2>6. CASE \E p \in Places : RestoreStart(p)
    BY <2>1, <2>6 DEF RestoreStart
  <2>7. CASE UNCHANGED restoring
    BY <2>1, <2>7
  <2> QED BY <1>1, <2>3, <2>4, <2>5, <2>6, <2>7
          DEF Next, Write, OpenTemp, FillTemp, FillFails, Replace, PutObject, PutFails, WriteHint, HintFails,
              InitPlan, Start, Stop, Joined, Clean, LoopHead, ListPlan, DeleteArtifact, DeleteLegacy, RoundEnds,
              Copy, BackupStart, CopyOpen, CopyFill, BackupEnd, vars, copyVars
<1> QED BY <1>1, StoreInvariant, PTL DEF Spec, RestoreIsComplete

-----------------------------------------------------------------------------
(* The refinement.                                                          *)

Mapped == <<Value, Open, Where>>

LEMMA SameValue ==
  ASSUME UNCHANGED backend, \A p \in Places, k \in Kinds : files'[p][k] = files[p][k]
  PROVE  Value' = Value
  BY DEF Value, Whole, TooLarge

\* a kind that changes
LEMMA OneValue ==
  ASSUME UNCHANGED backend, NEW p \in Places, NEW k \in Kinds, NEW v,
         \A q \in Places, m \in Kinds : q # p \/ m # k => files'[q][m] = files[q][m],
         v = IF Whole(files'[p][k]) THEN files'[p][k] ELSE "absent"
  PROVE  Value' = [Value EXCEPT ![p][k] = v]
<1> DEFINE Kept(q) == [Value[q] EXCEPT ![k] = v]
<1>1. Value' = [q \in Places |-> [m \in Kinds |-> IF Whole(files'[q][m]) THEN files'[q][m] ELSE "absent"]]
  BY DEF Value, Whole, TooLarge
<1>2. [Value EXCEPT ![p][k] = v] = [q \in Places |-> [m \in Kinds |-> IF q = p /\ m = k THEN v ELSE Value[q][m]]]
  BY DEF Value
<1>3. \A q \in Places, m \in Kinds :
         (IF Whole(files'[q][m]) THEN files'[q][m] ELSE "absent") = IF q = p /\ m = k THEN v ELSE Value[q][m]
  BY DEF Value
<1> QED BY <1>1, <1>2, <1>3

\* a write that moves on
LEMMA OneWrite ==
  ASSUME TypeOK, NEW w \in Writers, \A v \in Writers \ {w} : write'[v] = write[v] /\ (v \in stored') = (v \in stored)
  PROVE  Open' = [Open EXCEPT ![w] = State(w)']
<1>1. \A v \in Writers : State(v)' = IF v = w THEN State(w)' ELSE State(v)
  BY DEF State
<1> QED BY <1>1 DEF Open

LEMMA SameWrites ==
  ASSUME \A w \in Writers : State(w)' = State(w)
  PROVE  Open' = Open
  BY DEF Open

MapStep == Map!Next \/ UNCHANGED Mapped

\* steps on the writes alone
LEMMA RefineFail ==
  ASSUME TypeOK, WroteInv, NEW w \in Writers, UNCHANGED <<stored, restoring>>, Value' = Value,
         write[w] \in {"idle", "open", "filled"}, Goto(w, "failed") \/ Goto(w, "vanished")
  PROVE  MapStep
<1>1. State(w) \in {"idle", "open"} /\ State(w)' = "failed"
  BY GoTo DEF WroteInv, State
<1>2. \A v \in Writers : State(v)' = IF v \in {w} THEN "failed" ELSE State(v)
  BY <1>1, GoTo DEF State
<1>3. Open' = [v \in Writers |-> IF v \in {w} THEN "failed" ELSE Open[v]]
  BY <1>2 DEF Open
<1>4. {w} \in SUBSET {v \in Writers : Open[v] \in {"idle", "open"}}
  BY <1>1 DEF Open
<1>5. Where' = Where
  BY DEF Where
<1> QED BY <1>3, <1>4, <1>5 DEF MapStep, Map!Next, Map!Fail

LEMMA RefineWrite == ASSUME StoreInv, NEW w \in Writers, Write(w) PROVE MapStep
<1>c. /\ PlaceOf[w] \in Places /\ KindOf[w] \in Kinds /\ KindOf[w] \in Names /\ w \in Names
      /\ w \in Contents /\ w \notin Kinds /\ "absent" \in Contents /\ "torn" \in Contents
  BY Constants
<1>k. \A k \in Kinds : k \in Names /\ k # w
  BY Constants
<1>i. TypeOK /\ WroteInv /\ DiskInv
  BY DEF StoreInv, ContentInv
<1>r. Where' = Where /\ UNCHANGED <<backend, restoring>>
  BY DEF Write, OpenTemp, FillTemp, FillFails, Replace, PutObject, PutFails, WriteHint, HintFails, copyVars, Where
<1>1. CASE OpenTemp(w)
  <2>1. Value' = Value
    BY <1>c, <1>k, <1>i, <1>r, <1>1, PutFile, SameValue DEF OpenTemp
  <2>2. State(w) = "idle" /\ State(w)' = "open"
    BY <1>i, <1>1, GoTo DEF OpenTemp, MayWrite, WroteInv, State
  <2>3. Open' = [Open EXCEPT ![w] = "open"]
    BY <1>i, <1>1, <2>2, GoTo, OneWrite DEF OpenTemp
  <2> QED BY <1>r, <2>1, <2>2, <2>3 DEF MapStep, Map!Next, Map!Begin, Open
<1>2. CASE FillTemp(w)
  <2>1. Value' = Value
    BY <1>c, <1>k, <1>i, <1>r, <1>2, PutFile, SameValue DEF FillTemp
  <2>2. \A v \in Writers : State(v)' = State(v)
    BY <1>i, <1>2, GoTo DEF FillTemp, State
  <2> QED BY <1>r, <2>1, <2>2, SameWrites DEF MapStep, Mapped
<1>3. CASE FillFails(w)
  <2>1. Value' = Value
    BY <1>c, <1>k, <1>i, <1>r, <1>3, PutFile, SameValue DEF FillFails
  <2> QED BY <1>i, <1>r, <1>3, <2>1, RefineFail DEF FillFails
<1>4. CASE PutFails(w)
  <2>1. Value' = Value
    BY <1>r, <1>4, SameValue DEF PutFails
  <2> QED BY <1>i, <1>r, <1>4, <2>1, RefineFail DEF PutFails, MayWrite
<1>5. CASE Replace(w) /\ w \notin Present(files, PlaceOf[w])
  <2>1. Value' = Value
    BY <1>r, <1>5, SameValue DEF Replace
  <2> QED BY <1>i, <1>r, <1>5, <2>1, RefineFail DEF Replace
<1>6. CASE Replace(w) /\ w \in Present(files, PlaceOf[w])
  <2> DEFINE c == files[PlaceOf[w]][w]
             v == IF Whole(c) THEN c ELSE "absent"
  <2>1. v \in {w, "absent"}
    BY <1>c, <1>i, ReadsWhole DEF DiskInv, Came
  <2>2. v = IF Whole(files'[PlaceOf[w]][KindOf[w]]) THEN files'[PlaceOf[w]][KindOf[w]] ELSE "absent"
    BY <1>i, <1>6, MoveFile
  <2>3. \A q \in Places, m \in Kinds : q # PlaceOf[w] \/ m # KindOf[w] => files'[q][m] = files[q][m]
    BY <1>k, <1>i, <1>6, MoveFile
  <2> HIDE DEF v
  <2>4. Value' = [Value EXCEPT ![PlaceOf[w]][KindOf[w]] = v]
    BY <1>c, <1>r, <2>2, <2>3, OneValue
  <2>5. State(w) = "open" /\ State(w)' = "stored" /\ stored' = stored \cup {w}
    BY <1>i, <1>6 DEF Replace, WroteInv, State
  <2>6. Open' = [Open EXCEPT ![w] = "stored"]
    BY <1>i, <1>6, <2>5, GoTo, OneWrite DEF Replace
  <2>7. Open[w] = "open"
    BY <2>5 DEF Open
  <2> QED BY <1>r, <2>1, <2>4, <2>6, <2>7 DEF MapStep, Map!Next, Map!Store
<1>7. CASE PutObject(w)
  <2> DEFINE v == IF Whole(w) THEN w ELSE "absent"
  <2>1. v \in {w, "absent"}
    OBVIOUS
  <2>2. v = IF Whole(files'[PlaceOf[w]][KindOf[w]]) THEN files'[PlaceOf[w]][KindOf[w]] ELSE "absent"
    BY <1>c, <1>i, <1>7, PutFile DEF PutObject
  <2>3. \A q \in Places, m \in Kinds : q # PlaceOf[w] \/ m # KindOf[w] => files'[q][m] = files[q][m]
    BY <1>c, <1>k, <1>i, <1>7, PutFile DEF PutObject
  <2> HIDE DEF v
  <2>4. Value' = [Value EXCEPT ![PlaceOf[w]][KindOf[w]] = v]
    BY <1>c, <1>r, <2>2, <2>3, OneValue
  <2>5. State(w) = "idle" /\ State(w)' = "stored" /\ stored' = stored \cup {w}
    BY <1>i, <1>7 DEF PutObject, MayWrite, WroteInv, State
  <2>6. Open' = [Open EXCEPT ![w] = "stored"]
    BY <1>i, <1>7, <2>5, GoTo, OneWrite DEF PutObject
  <2>7. Open[w] = "idle"
    BY <2>5 DEF Open
  <2> QED BY <1>r, <2>1, <2>4, <2>6, <2>7 DEF MapStep, Map!Next, Map!Store
<1>8. CASE WriteHint(w) \/ HintFails(w)
  <2>1. Value' = Value
    BY <1>r, <1>8, SameValue DEF WriteHint, HintFails
  <2>2. \A v \in Writers : State(v)' = State(v)
    BY <1>i, <1>8, GoTo DEF WriteHint, HintFails, WroteInv, State
  <2> QED BY <1>r, <2>1, <2>2, SameWrites DEF MapStep, Mapped
<1> QED BY <1>1, <1>2, <1>3, <1>4, <1>5, <1>6, <1>7, <1>8 DEF Write

\* a name that is deleted
LEMMA RefineDelete ==
  ASSUME TypeOK, UNCHANGED <<backend, write, stored, restoring>>,
         NEW p \in Places, NEW n \in Swept, Put(p, n, "absent")
  PROVE  MapStep
<1>1. n \in Names /\ "absent" \in Contents /\ \A k \in Kinds : k \in Names
  BY SweptNames, Constants
<1>2. Open' = Open /\ Where' = Where
  BY SameWrites DEF State, Where
<1>3. CASE n \notin Kinds
  <2>1. Value' = Value
    BY <1>1, <1>3, PutFile, SameValue
  <2> QED BY <1>2, <2>1 DEF MapStep, Mapped
<1>4. CASE n \in Kinds
  <2>1. n \in Ephemeral
    BY <1>4, SweptNames DEF Durable
  <2>2. files'[p][n] = "absent"
        /\ \A q \in Places, m \in Kinds : q # p \/ m # n => files'[q][m] = files[q][m]
    BY <1>1, PutFile
  <2>3. Value' = [Value EXCEPT ![p][n] = "absent"]
    BY <1>4, <2>2, OneValue
  <2> QED BY <1>2, <2>1, <2>3 DEF MapStep, Map!Next, Map!Remove
<1> QED BY <1>3, <1>4

\* steps that no read, no write and no restore can see
LEMMA RefineStutter ==
  ASSUME UNCHANGED <<backend, files, write, stored>>, restoring'.busy = restoring.busy,
         restoring'.at = restoring.at
  PROVE  MapStep
<1>1. Value' = Value
  BY SameValue
<1>2. Open' = Open /\ Where' = Where
  BY SameWrites DEF State, Where
<1> QED BY <1>1, <1>2 DEF MapStep, Mapped

LEMMA RefineClean == ASSUME StoreInv, Clean PROVE MapStep
<1>i. TypeOK /\ CleanInv
  BY DEF StoreInv
<1>1. UNCHANGED <<backend, write, stored, restoring>>
  BY DEF Clean, LoopHead, ListPlan, DeleteArtifact, DeleteLegacy, RoundEnds, storeVars, copyVars
<1>4. CASE UNCHANGED files
  BY <1>1, <1>4, RefineStutter
<1>2. CASE DeleteArtifact
  <2>1. PICK n \in cleaner.names : Put(cleaner.at, n, "absent") \/ UNCHANGED files
    BY <1>2 DEF DeleteArtifact, Removed
  <2>2. cleaner.at \in Places /\ n \in Swept
    BY <1>i, <2>1 DEF TypeOK, CleanInv
  <2> QED BY <1>i, <1>1, <1>4, <2>1, <2>2, RefineDelete
<1>3. CASE DeleteLegacy
  <2>1. cleaner.half \in Swept /\ Second(cleaner.at) \in Places
    BY <1>i, <1>3, Constants DEF DeleteLegacy, CleanInv, Second, TypeOK
  <2>2. Put(Second(cleaner.at), cleaner.half, "absent") \/ UNCHANGED files
    BY <1>3 DEF DeleteLegacy, Removed
  <2> QED BY <1>i, <1>1, <1>4, <2>1, <2>2, RefineDelete
<1> QED BY <1>1, <1>2, <1>3, <1>4, RefineStutter DEF Clean, LoopHead, ListPlan, RoundEnds, storeVars

LEMMA RefineCopy == ASSUME StoreInv, Copy PROVE MapStep
<1>i. TypeOK /\ RestoreInv /\ BackupInv
  BY DEF StoreInv, ContentInv
<1>k. \A k \in Kinds : k \in Names
  BY Constants
<1>1. UNCHANGED <<backend, write, stored>>
  BY DEF Copy, BackupStart, RestoreStart, CopyOpen, CopyFill, BackupEnd, RestoreOpen, RestoreFill,
         RestoreEnd, storeVars
<1>2. Open' = Open
  BY <1>1, SameWrites DEF State
<1>3. CASE BackupEnd \/ CopyOpen \/ CopyFill \/ \E p \in Places : BackupStart(p)
  BY <1>1, <1>3, RefineStutter DEF BackupEnd, CopyOpen, CopyFill, BackupStart, storeVars
<1>4. ASSUME NEW p \in Places, RestoreStart(p) PROVE MapStep
  <2>1. Where = {} /\ Where' = {p}
    BY <1>4 DEF RestoreStart, NoRestore, Where
  <2>2. Value' = Value
    BY <1>1, <1>4, SameValue DEF RestoreStart
  <2> QED BY <1>2, <2>1, <2>2 DEF MapStep, Map!Next, Map!BeginRestore
<1>5. CASE RestoreEnd
  <2>1. Where = {restoring.at} /\ Where' = {} /\ restoring.at \in Places
    BY <1>i, <1>5 DEF RestoreEnd, NoRestore, Where, TypeOK
  <2>2. Value' = Value
    BY <1>1, <1>5, SameValue DEF RestoreEnd, storeVars
  <2> QED BY <1>2, <2>1, <2>2 DEF MapStep, Map!Next, Map!EndRestore
<1>6. ASSUME NEW n \in Names, NEW c \in Contents, Put(restoring.at, n, c), restoring.busy,
             Where' = Where, Came(c, restoring.at, n, stored)
      PROVE  MapStep
  <2>1. restoring.at \in Places /\ Where = {restoring.at}
    BY <1>i, <1>6 DEF TypeOK, Where
  <2>2. CASE n \notin Kinds
    <3>1. Value' = Value
      BY <1>i, <1>k, <1>1, <1>6, <2>1, <2>2, PutFile, SameValue
    <3> QED BY <1>2, <1>6, <3>1 DEF MapStep, Mapped
  <2>3. CASE n \in Kinds
    <3> DEFINE v == IF Whole(c) THEN c ELSE "absent"
    <3>1. v = IF Whole(files'[restoring.at][n]) THEN files'[restoring.at][n] ELSE "absent"
      BY <1>i, <1>6, <2>1, PutFile
    <3>2. \A q \in Places, m \in Kinds : q # restoring.at \/ m # n => files'[q][m] = files[q][m]
      BY <1>i, <1>k, <1>6, <2>1, PutFile
    <3>3. v \in {w \in Writers : Open[w] = "stored" /\ PlaceOf[w] = restoring.at /\ KindOf[w] = n}
               \cup {"absent"}
      <4>1. CASE Whole(c)
        <5>1. c \in Writers /\ c \in stored /\ PlaceOf[c] = restoring.at /\ KindOf[c] = n
          BY <1>6, <2>3, <4>1, ReadsWhole DEF Came
        <5>2. Open[c] = "stored"
          BY <5>1 DEF Open, State
        <5> QED BY <4>1, <5>1, <5>2
      <4> QED BY <4>1
    <3> HIDE DEF v
    <3>4. Value' = [Value EXCEPT ![restoring.at][n] = v]
      BY <1>1, <2>1, <2>3, <3>1, <3>2, OneValue
    <3> QED BY <1>2, <1>6, <2>1, <2>3, <3>3, <3>4 DEF MapStep, Map!Next, Map!Restore
  <2> QED BY <2>2, <2>3
<1>7. CASE RestoreOpen
  <2>1. PICK n \in restoring.names : /\ restoring' = [restoring EXCEPT !.names = @ \ {n}, !.now = n]
                                     /\ Put(restoring.at, n, "torn")
    BY <1>7 DEF RestoreOpen
  <2>2. restoring'.busy = restoring.busy /\ restoring'.at = restoring.at /\ n \in Names
    BY <1>i, <2>1 DEF TypeOK
  <2>3. Where' = Where
    BY <2>2 DEF Where
  <2> QED BY <1>6, <1>7, <2>1, <2>2, <2>3, Constants, Nothing DEF RestoreOpen
<1>8. CASE RestoreFill
  <2> DEFINE c == backup[restoring.at][restoring.now]
  <2>1. restoring'.busy = restoring.busy /\ restoring'.at = restoring.at
    BY <1>i, <1>8 DEF RestoreFill, TypeOK
  <2>2. CASE UNCHANGED files
    BY <1>1, <2>1, <2>2, RefineStutter
  <2>3. CASE Put(restoring.at, restoring.now, c)
    <3>1. restoring.busy /\ restoring.at \in Places /\ restoring.now \in Names
      BY <1>i, <1>8 DEF RestoreFill, RestoreInv, TypeOK
    <3>2. c \in Contents /\ Came(c, restoring.at, restoring.now, stored)
      BY <1>i, <3>1 DEF TypeOK, Contents, BackupInv
    <3>3. Where' = Where
      BY <2>1 DEF Where
    <3> HIDE DEF c
    <3> QED BY <1>6, <2>3, <3>1, <3>2, <3>3
  <2> QED BY <1>8, <2>2, <2>3 DEF RestoreFill
<1> QED BY <1>3, <1>4, <1>5, <1>7, <1>8 DEF Copy

LEMMA RefineCrash == ASSUME StoreInv, Crash PROVE MapStep
<1>i. TypeOK /\ WroteInv
  BY DEF StoreInv, ContentInv
<1> DEFINE W == {w \in Writers : write[w] \in {"open", "filled"}}
<1>1. \A w \in Writers : State(w)' = IF w \in W THEN "failed" ELSE State(w)
  BY <1>i DEF Crash, State, WroteInv
<1>2. W \in SUBSET {w \in Writers : Open[w] \in {"idle", "open"}}
  BY <1>i DEF Open, State, WroteInv
<1>3. Open' = [w \in Writers |-> IF w \in W THEN "failed" ELSE Open[w]]
  BY <1>1 DEF Open
<1>4. Where' = {}
  BY DEF Crash, NoRestore, Where
<1>5. Value' \in {Value, [p \in Places |-> [k \in Kinds |-> "absent"]]}
  <2>1. backend' = backend
    BY DEF Crash
  <2>2. CASE files' = files
    BY <2>1, <2>2, SameValue
  <2>3. CASE files' = NoFiles
    <3>1. \A p \in Places, k \in Kinds : files'[p][k] = "absent"
      BY <2>3, NoFilesType, Constants
    <3> QED BY <3>1 DEF Value
  <2> QED BY <2>2, <2>3 DEF Crash, VolumeLost
<1> HIDE DEF W
<1> QED BY <1>2, <1>3, <1>4, <1>5 DEF MapStep, Map!Next, Map!Fail

LEMMA RefineInit == Init => Map!Init
<1>1. SUFFICES ASSUME Init PROVE Map!Init
  OBVIOUS
<1>2. files = OldFiles /\ stored = Earlier
  BY <1>1 DEF Init
<1>3. \A p \in Places, k \in Kinds : Value[p][k] \in Earlier \cup {"absent"}
  BY <1>2, OldFilesAre, ReadsWhole, Constants DEF Value
<1>4. ASSUME NEW w \in Earlier PROVE Value[PlaceOf[w]][KindOf[w]] = w
  <2>1. w \in Writers /\ w \notin Oversized /\ PlaceOf[w] \in Places /\ KindOf[w] \in Kinds /\ KindOf[w] \in Names
    BY Constants, StoreAssumption DEF StoreAssumption
  <2> DEFINE old == CHOOSE v \in Earlier : PlaceOf[v] = PlaceOf[w] /\ KindOf[v] = KindOf[w]
  <2>2. files[PlaceOf[w]][KindOf[w]] = old
    BY <1>2, <2>1 DEF OldFiles
  <2>3. old \in Earlier /\ PlaceOf[old] = PlaceOf[w] /\ KindOf[old] = KindOf[w]
    OBVIOUS
  <2>4. old = w
    BY <2>3, StoreAssumption DEF StoreAssumption
  <2> QED BY <2>1, <2>2, <2>4 DEF Value, Whole, TooLarge
<1>5. Open = [w \in Writers |-> IF w \in Earlier THEN "stored" ELSE "idle"]
  BY <1>1 DEF Init, Open, State
<1>6. Where = {}
  BY <1>1 DEF Init, NoRestore, Where
<1>7. Value \in [Places -> [Kinds -> Earlier \cup {"absent"}]]
  BY <1>3 DEF Value
<1> QED BY <1>4, <1>5, <1>6, <1>7 DEF Map!Init

\* Temporary files, hints, half copied files, crashes and the clean-up thread are not
\* seen by readers: the store is a map of values stored at once and at most once
\* (artifact/store.py, backend.py, lifecycle.py, backup.py).
THEOREM StoreRefines == Spec => ImplementsMap
<1>1. Init => Map!Init
  BY RefineInit
<1>2. StoreInv /\ [Next]_vars => [Map!Next]_Mapped
  <2> SUFFICES ASSUME StoreInv, [Next]_vars PROVE MapStep
    BY DEF MapStep
  <2>1. CASE UNCHANGED vars \/ Start \/ Stop \/ Joined \/ \E p \in Places : InitPlan(p)
    BY <2>1, RefineStutter DEF vars, InitPlan, Start, Stop, Joined, storeVars, copyVars
  <2> QED BY <2>1, RefineWrite, RefineClean, RefineCopy, RefineCrash DEF Next
<1> QED BY <1>1, <1>2, StoreInvariant, PTL DEF Spec, Map!Spec, ImplementsMap, Mapped
=============================================================================
