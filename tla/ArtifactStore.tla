--------------------------- MODULE ArtifactStore ---------------------------
(***************************************************************************)
(* casa/artifact and casa/lifecycle.py: the artifact files of the plans of  *)
(* one job, on disk or in an object store, with the writers, the clean-up   *)
(* thread and the backup and restore calls that share them. Each file       *)
(* operation is a step; a process may die between any two.                  *)
(***************************************************************************)
EXTENDS Naturals, FiniteSets

CONSTANTS
    Backends,      \* the deployments considered, of {"local", "s3"}
    Places,        \* plan directories: one per tenant, and Bare
    Bare,          \* the layout without a tenant, which S3 still reads
    Kinds,         \* artifact kinds
    Writers,       \* calls of ArtifactStore.write; each stands for its data
    PlaceOf,       \* the store of each call
    KindOf,        \* the kind it writes
    Earlier,       \* the calls that ended before, at most one for a place and kind
    Hinted,        \* the calls that pass a coordination hint
    Oversized,     \* the calls whose data exceeds _MAX_ARTIFACT_SIZE
    Ephemeral,     \* the kinds registered as ephemeral
    DefaultTier,   \* the tier of every other name
    Scanned,       \* the places of the tenant the clean-up is for, all if for none
    MaxFaults,     \* bound on crashes and I/O errors
    MaxBackups, MaxRestores

ASSUME StoreAssumption ==
    /\ Bare \in Places
    /\ PlaceOf \in [Writers -> Places]
    /\ KindOf \in [Writers -> Kinds]
    /\ Earlier \subseteq Writers \ Oversized
    /\ \A v, w \in Earlier : PlaceOf[v] = PlaceOf[w] /\ KindOf[v] = KindOf[w] => v = w
    /\ Hinted \subseteq Writers /\ Oversized \subseteq Writers
    /\ Ephemeral \subseteq Kinds /\ Scanned \subseteq Places
    /\ {MaxFaults, MaxBackups, MaxRestores} \subseteq Nat
    /\ Kinds \cap Writers = {}
    /\ {"absent", "torn", "none"} \cap Writers = {} /\ "none" \notin Kinds

VARIABLES
    backend,       \* the backend _resolve_backend returned
    files,         \* the content of every name in every plan directory
    hint,          \* the hint files, in the reports directory
    dirs,          \* the places with a plan directory on the local disk
    write,         \* where each call of write is
    stored,        \* the calls whose backend write has taken effect
    cleaner,       \* the clean-up thread
    stop,          \* its stop event
    client,        \* the last call of start or stop: "started", "unheeded" (a start that
                   \* did nothing), "stopping", "stopped"
    backup,        \* the mirrored files
    mirrored,      \* the places with a directory in the backup
    copying,       \* the call of backup_plan under way
    restoring,     \* the call of restore_plan under way
    report,        \* the artifact_kinds the last backup_plan of a place returned
    spent          \* how often each bounded event has happened

storeVars == <<files, hint, dirs, write, stored>>
cleanVars == <<cleaner, stop, client>>
copyVars  == <<backup, mirrored, copying, restoring, report>>
vars == <<backend, storeVars, cleanVars, copyVars, spent>>

(* A directory holds artifacts under the names of their kinds and, beside   *)
(* them, the temporary file of each write, named here after the call.       *)
Names   == Kinds \cup Writers
NoFiles == [p \in Places |-> [n \in Names |-> "absent"]]
NoHints == [p \in Places |-> [k \in Kinds |-> "absent"]]
OldFiles == [p \in Places |-> [n \in Names |->
    IF \E w \in Earlier : PlaceOf[w] = p /\ KindOf[w] = n
    THEN CHOOSE w \in Earlier : PlaceOf[w] = p /\ KindOf[w] = n ELSE "absent"]]
Present(tree, p) == {n \in Names : tree[p][n] # "absent"}

Off        == [phase |-> "off", places |-> {}, at |-> Bare, names |-> {}, half |-> "none"]
NoCopy     == [busy |-> FALSE, at |-> Bare, names |-> {}, now |-> "none", data |-> "absent",
               failed |-> FALSE]
NoRestore  == [busy |-> FALSE, at |-> Bare, names |-> {}, now |-> "none"]

Init ==
    /\ backend \in Backends
    /\ files = OldFiles
    /\ hint = NoHints
    /\ dirs = IF backend = "local" THEN {PlaceOf[w] : w \in Earlier} ELSE {}
    /\ write = [w \in Writers |-> IF w \in Earlier THEN "done" ELSE "idle"]
    /\ stored = Earlier
    /\ cleaner = Off
    /\ stop = FALSE
    /\ client = "stopped"
    /\ backup = NoFiles
    /\ mirrored = {}
    /\ copying = NoCopy
    /\ restoring = NoRestore
    /\ report = [p \in Places |-> {}]
    /\ spent = [backups |-> 0, restores |-> 0, faults |-> 0, crashes |-> 0]

Spend(event) == spent' = [spent EXCEPT ![event] = @ + 1]
Fault        == spent.faults < MaxFaults /\ Spend("faults")

-----------------------------------------------------------------------------
(* Reading                                                                   *)

\* a file above the limit is refused; an object above it was never put
TooLarge(c) == backend = "local" /\ c \in Oversized

\* what the backend's read returns: a missing name and a torn file, which is no JSON, are nothing
Whole(c) == c \in Writers /\ ~TooLarge(c)

\* a store with a tenant looks a second time, under the old prefix: in an object store that is
\* the layout without a tenant, on disk the same directory again
Legacy(p) == backend = "s3" /\ p # Bare
Second(p) == IF backend = "s3" THEN Bare ELSE p

\* what ArtifactStore.read returns
Read(p, k) ==
    IF Whole(files[p][k]) THEN files[p][k]
    ELSE IF Legacy(p) /\ Whole(files[Bare][k]) THEN files[Bare][k]
    ELSE "absent"

\* ArtifactStore.list_artifacts: temporary files end in .json as well
ListArtifacts(p) ==
    Present(files, p) \cup (IF Legacy(p) THEN Present(files, Bare) ELSE {})

\* what the plan directory holds on disk
OnDisk(p) == IF backend = "local" THEN Present(files, p) ELSE {}

-----------------------------------------------------------------------------
(* ArtifactStore.write                                                       *)

Put(p, n, c) == files' = [files EXCEPT ![p][n] = c]
Goto(w, at)  == write' = [write EXCEPT ![w] = at]
AfterPut(w)  == IF w \in Hinted THEN "hint" ELSE "done"

\* ArtifactStore.init_plan, in either deployment
InitPlan(p) ==
    /\ p \notin dirs
    /\ dirs' = dirs \cup {p}
    /\ UNCHANGED <<backend, files, hint, write, stored, cleanVars, copyVars, spent>>

\* A write needs init_plan.  That nobody writes a plan while it is being restored is assumed
\* of the operator; nothing in the code sees to it.
MayWrite(w) ==
    /\ write[w] = "idle" /\ PlaceOf[w] \in dirs
    /\ ~(restoring.busy /\ restoring.at = PlaceOf[w])

\* LocalArtifactBackend.write, in three file operations
OpenTemp(w) ==
    /\ backend = "local" /\ MayWrite(w)
    /\ Put(PlaceOf[w], w, "torn")
    /\ Goto(w, "open")
    /\ UNCHANGED <<backend, hint, dirs, stored, cleanVars, copyVars, spent>>

\* the data goes to the open descriptor, whether or not the name is still there
FillTemp(w) ==
    /\ write[w] = "open"
    /\ IF w \in Present(files, PlaceOf[w]) THEN Put(PlaceOf[w], w, w) ELSE UNCHANGED files
    /\ Goto(w, "filled")
    /\ UNCHANGED <<backend, hint, dirs, stored, cleanVars, copyVars, spent>>

FillFails(w) ==
    /\ write[w] = "open" /\ Fault
    /\ Put(PlaceOf[w], w, "absent")
    /\ Goto(w, "failed")
    /\ UNCHANGED <<backend, hint, dirs, stored, cleanVars, copyVars>>

\* without the temporary file os.replace raises
Replace(w) ==
    /\ write[w] = "filled"
    /\ IF w \in Present(files, PlaceOf[w])
       THEN /\ files' = [files EXCEPT ![PlaceOf[w]][KindOf[w]] = files[PlaceOf[w]][w],
                                      ![PlaceOf[w]][w] = "absent"]
            /\ stored' = stored \cup {w}
            /\ Goto(w, AfterPut(w))
       ELSE Goto(w, "vanished") /\ UNCHANGED <<files, stored>>
    /\ UNCHANGED <<backend, hint, dirs, cleanVars, copyVars, spent>>

\* S3ArtifactBackend.write
PutObject(w) ==
    /\ backend = "s3" /\ MayWrite(w) /\ w \notin Oversized
    /\ Put(PlaceOf[w], KindOf[w], w)
    /\ stored' = stored \cup {w}
    /\ Goto(w, AfterPut(w))
    /\ UNCHANGED <<backend, hint, dirs, cleanVars, copyVars, spent>>

PutFails(w) ==
    /\ backend = "s3" /\ MayWrite(w)
    /\ IF w \in Oversized THEN UNCHANGED spent ELSE Fault
    /\ Goto(w, "failed")
    /\ UNCHANGED <<backend, files, hint, dirs, stored, cleanVars, copyVars>>

\* faulty: the hint goes first
HintFirst(w) ==
    /\ write[w] = "filled" /\ w \in Hinted
    /\ hint' = [hint EXCEPT ![PlaceOf[w]][KindOf[w]] = w]
    /\ UNCHANGED <<backend, files, dirs, write, stored, cleanVars, copyVars, spent>>

\* the hint follows the artifact, as a file of its own
WriteHint(w) ==
    /\ write[w] = "hint"
    /\ hint' = [hint EXCEPT ![PlaceOf[w]][KindOf[w]] = w]
    /\ Goto(w, "done")
    /\ UNCHANGED <<backend, files, dirs, stored, cleanVars, copyVars, spent>>

\* write raises although its artifact is stored
HintFails(w) ==
    /\ write[w] = "hint" /\ Fault
    /\ Goto(w, "unhinted")
    /\ UNCHANGED <<backend, files, hint, dirs, stored, cleanVars, copyVars>>

Write(w) ==
    \/ OpenTemp(w) \/ FillTemp(w) \/ FillFails(w) \/ Replace(w)
    \/ PutObject(w) \/ PutFails(w) \/ WriteHint(w) \/ HintFails(w)

-----------------------------------------------------------------------------
(* LifecycleCleanupScheduler and ArtifactLifecycleManager                    *)

\* faulty: whatever is not registered is swept
SweepUnknown(n) == IF n \in Kinds \ Ephemeral THEN "job" ELSE "ephemeral"

\* faulty: the tier is not looked at
SweepAll(n) == "ephemeral"

\* ArtifactLifecycleManager.tier_for
TierFor(n) ==
    IF n \in Ephemeral THEN "ephemeral" ELSE IF n \in Kinds THEN "job" ELSE DefaultTier

\* faulty: the event stays set
StartKeepsStop ==
    /\ client # "stopping"
    /\ client' = "started"
    /\ cleaner' = IF cleaner.phase = "off" THEN [Off EXCEPT !.phase = "head"] ELSE cleaner
    /\ UNCHANGED <<backend, storeVars, stop, copyVars, spent>>

\* start() returns early while the thread is alive, even one that has been told to stop
Start ==
    /\ client # "stopping"
    /\ \/ /\ cleaner.phase = "off"
          /\ client' = "started"
          /\ stop' = FALSE
          /\ cleaner' = [Off EXCEPT !.phase = "head"]
       \/ /\ cleaner.phase # "off"
          /\ client' = IF stop THEN "unheeded" ELSE "started"
          /\ UNCHANGED <<stop, cleaner>>
    /\ UNCHANGED <<backend, storeVars, copyVars, spent>>

Stop ==
    /\ client \in {"started", "unheeded"}
    /\ stop' = TRUE
    /\ client' = "stopping"
    /\ UNCHANGED <<backend, storeVars, cleaner, copyVars, spent>>

\* stop() returns when the thread has ended, or earlier when the join times out
Joined ==
    /\ client = "stopping"
    /\ client' = "stopped"
    /\ UNCHANGED <<backend, storeVars, cleaner, stop, copyVars, spent>>

\* _loop: the head of the while, at the start and whenever the interval is over or the
\* event set; a round begins with scan_plan_dirs, which sees what is on the local disk
LoopHead ==
    /\ cleaner.phase = "head"
    /\ cleaner' = IF stop THEN Off
                  ELSE [Off EXCEPT !.phase = "round", !.places = Scanned \cap dirs]
    /\ UNCHANGED <<backend, storeVars, stop, client, copyVars, spent>>

\* cleanup_plan lists once
ListPlan ==
    /\ cleaner.phase = "round" /\ cleaner.names = {} /\ cleaner.half = "none"
    /\ \E p \in cleaner.places :
          LET old == {n \in ListArtifacts(p) : TierFor(n) = "ephemeral"} IN
          cleaner' = [cleaner EXCEPT !.places = @ \ {p}, !.names = old,
                                     !.at = IF old = {} THEN Bare ELSE p]
    /\ UNCHANGED <<backend, storeVars, stop, client, copyVars, spent>>

\* an S3 delete that fails is logged, and nobody else is told
Removed(p, n) ==
    \/ Put(p, n, "absent") /\ UNCHANGED spent
    \/ backend = "s3" /\ Fault /\ UNCHANGED files

\* and deletes one by one, with a tenant in two requests each
DeleteArtifact ==
    /\ cleaner.phase = "round" /\ cleaner.half = "none"
    /\ \E n \in cleaner.names :
          /\ Removed(cleaner.at, n)
          /\ cleaner' = [cleaner EXCEPT !.names = @ \ {n},
                                        !.half = IF cleaner.at # Bare THEN n ELSE "none"]
    /\ UNCHANGED <<backend, hint, dirs, write, stored, stop, client, copyVars>>

DeleteLegacy ==
    /\ cleaner.half # "none"
    /\ Removed(Second(cleaner.at), cleaner.half)
    /\ cleaner' = [cleaner EXCEPT !.half = "none"]
    /\ UNCHANGED <<backend, hint, dirs, write, stored, stop, client, copyVars>>

\* a round ends when all plans are done or a call of the store raises
RoundEnds ==
    /\ cleaner.phase = "round"
    /\ \/ cleaner.places = {} /\ cleaner.names = {} /\ cleaner.half = "none" /\ UNCHANGED spent
       \/ Fault
    /\ cleaner' = [Off EXCEPT !.phase = "head"]
    /\ UNCHANGED <<backend, storeVars, stop, client, copyVars>>

Clean == LoopHead \/ ListPlan \/ DeleteArtifact \/ DeleteLegacy \/ RoundEnds

-----------------------------------------------------------------------------
(* ArtifactBackupManager; a client runs one backup or restore at a time      *)

BackupStart(p) ==
    /\ ~copying.busy /\ ~restoring.busy /\ spent.backups < MaxBackups
    /\ p \in dirs
    /\ copying' = [NoCopy EXCEPT !.busy = TRUE, !.at = p, !.names = OnDisk(p)]
    /\ mirrored' = mirrored \cup {p}
    /\ Spend("backups")
    /\ UNCHANGED <<backend, storeVars, cleanVars, backup, restoring, report>>

\* copytree goes on past a file that has vanished and raises at the end; the copy of one
\* that is there is truncated first
CopyOpen ==
    /\ copying.busy /\ copying.now = "none"
    /\ \E n \in copying.names :
          \/ /\ n \notin Present(files, copying.at)
             /\ copying' = [copying EXCEPT !.names = @ \ {n}, !.failed = TRUE]
             /\ UNCHANGED backup
          \/ /\ n \in Present(files, copying.at)
             /\ copying' = [copying EXCEPT !.names = @ \ {n}, !.now = n,
                                           !.data = files[copying.at][n]]
             /\ backup' = [backup EXCEPT ![copying.at][n] = "torn"]
    /\ UNCHANGED <<backend, storeVars, cleanVars, mirrored, restoring, report, spent>>

CopyFill ==
    /\ copying.now # "none"
    /\ backup' = [backup EXCEPT ![copying.at][copying.now] = copying.data]
    /\ copying' = [copying EXCEPT !.now = "none", !.data = "absent"]
    /\ UNCHANGED <<backend, storeVars, cleanVars, mirrored, restoring, report, spent>>

BackupEnd ==
    /\ copying.busy /\ copying.names = {} /\ copying.now = "none"
    /\ copying' = NoCopy
    /\ report' = IF copying.failed THEN report
                 ELSE [report EXCEPT ![copying.at] = ListArtifacts(copying.at)]
    /\ UNCHANGED <<backend, storeVars, cleanVars, backup, mirrored, restoring, spent>>

RestoreStart(p) ==
    /\ ~copying.busy /\ ~restoring.busy /\ spent.restores < MaxRestores
    /\ p \in mirrored
    /\ \A w \in Writers : PlaceOf[w] = p => write[w] \notin {"open", "filled"}
    /\ restoring' = [NoRestore EXCEPT !.busy = TRUE, !.at = p, !.names = Present(backup, p)]
    /\ dirs' = dirs \cup {p}
    /\ Spend("restores")
    /\ UNCHANGED <<backend, files, hint, write, stored, cleanVars, backup, mirrored, copying,
                   report>>

\* faulty: stops after the first file
RestoreOne ==
    /\ restoring.busy /\ restoring.now = "none"
    /\ \E n \in restoring.names :
          /\ restoring' = [restoring EXCEPT !.names = {}, !.now = n]
          /\ Put(restoring.at, n, "torn")
    /\ UNCHANGED <<backend, hint, dirs, write, stored, cleanVars, backup, mirrored, copying,
                   report, spent>>

\* copy2 truncates the live file, then fills it
RestoreOpen ==
    /\ restoring.busy /\ restoring.now = "none"
    /\ \E n \in restoring.names :
          /\ restoring' = [restoring EXCEPT !.names = @ \ {n}, !.now = n]
          /\ Put(restoring.at, n, "torn")
    /\ UNCHANGED <<backend, hint, dirs, write, stored, cleanVars, backup, mirrored, copying,
                   report, spent>>

RestoreFill ==
    /\ restoring.now # "none"
    /\ IF restoring.now \in Present(files, restoring.at)
       THEN Put(restoring.at, restoring.now, backup[restoring.at][restoring.now])
       ELSE UNCHANGED files
    /\ restoring' = [restoring EXCEPT !.now = "none"]
    /\ UNCHANGED <<backend, hint, dirs, write, stored, cleanVars, backup, mirrored, copying,
                   report, spent>>

RestoreEnd ==
    /\ restoring.busy /\ restoring.names = {} /\ restoring.now = "none"
    /\ restoring' = NoRestore
    /\ UNCHANGED <<backend, storeVars, cleanVars, backup, mirrored, copying, report, spent>>

Copy ==
    \/ \E p \in Places : BackupStart(p) \/ RestoreStart(p)
    \/ CopyOpen \/ CopyFill \/ BackupEnd \/ RestoreOpen \/ RestoreFill \/ RestoreEnd

-----------------------------------------------------------------------------
\* the volume of base_dir, with the reports; an object store keeps its objects
VolumeLost ==
    /\ dirs' = {}
    /\ \/ backend = "local" /\ files' = NoFiles /\ hint' = NoHints
       \/ backend = "s3" /\ UNCHANGED <<files, hint>>

\* the process dies: every call and the thread are gone; the files stay, or the volume
\* is lost with it, which is what backups are for
Crash ==
    /\ spent.faults < MaxFaults
    /\ write' = [w \in Writers |-> IF write[w] \in {"open", "filled", "hint"}
                                   THEN "crashed" ELSE write[w]]
    /\ VolumeLost \/ UNCHANGED <<files, hint, dirs>>
    /\ cleaner' = Off /\ stop' = FALSE /\ client' = "stopped"
    /\ copying' = NoCopy /\ restoring' = NoRestore
    /\ spent' = [spent EXCEPT !.faults = @ + 1, !.crashes = @ + 1]
    /\ UNCHANGED <<backend, stored, backup, mirrored, report>>

Next ==
    \/ \E w \in Writers : Write(w)
    \/ \E p \in Places : InitPlan(p)
    \/ Start \/ Stop \/ Joined
    \/ Clean
    \/ Copy
    \/ Crash

Spec == Init /\ [][Next]_vars

(* The clean-up thread is scheduled and its waits end; a client that starts  *)
(* a write, a backup or a restore goes on with it.                           *)
FairSpec ==
    /\ Spec
    /\ WF_vars(Clean)
    /\ WF_vars(Joined)

-----------------------------------------------------------------------------
(* Properties                                                                *)

TypeOK ==
    /\ backend \in Backends
    /\ files \in [Places -> [Names -> {"absent", "torn"} \cup Writers]]
    /\ hint \in [Places -> [Kinds -> {"absent"} \cup Writers]]
    /\ dirs \subseteq Places
    /\ write \in [Writers -> {"idle", "open", "filled", "hint", "done", "failed", "vanished",
                              "unhinted", "crashed"}]
    /\ stored \subseteq Writers
    /\ cleaner \in [phase : {"off", "head", "round"}, places : SUBSET Places,
                    at : Places, names : SUBSET Names, half : Names \cup {"none"}]
    /\ stop \in BOOLEAN
    /\ client \in {"started", "unheeded", "stopping", "stopped"}
    /\ backup \in [Places -> [Names -> {"absent", "torn"} \cup Writers]]
    /\ mirrored \subseteq Places
    /\ copying \in [busy : BOOLEAN, at : Places, names : SUBSET Names,
                    now : Names \cup {"none"}, data : {"absent", "torn"} \cup Writers,
                    failed : BOOLEAN]
    /\ restoring \in [busy : BOOLEAN, at : Places, names : SUBSET Names,
                      now : Names \cup {"none"}]
    /\ report \in [Places -> SUBSET Names]
    /\ spent \in [{"backups", "restores", "faults", "crashes"} -> Nat]

\* The data of an artifact, and the hint next to it, come from a call of write for that
\* place and kind that has stored its artifact: a crash between the two files leaves an
\* artifact without its hint, never a hint without its artifact.
ContentsAreStored ==
    \A p \in Places, k \in Kinds :
        \A w \in {files[p][k], hint[p][k], backup[p][k]} \cap Writers :
            w \in stored /\ PlaceOf[w] = p /\ KindOf[w] = k

\* A write fails only when the device does: the clean-up never takes its temporary
\* file, which it sees in its listing (lifecycle.py cleanup_plan, backend.py list_keys).
NoWriteIsSwept == \A w \in Writers : write[w] # "vanished"

\* When restore_plan returns, every durable artifact of the backup can be read.
RestoreIsComplete ==
    [][restoring.busy /\ ~restoring'.busy /\ spent'.crashes = spent.crashes =>
          \A k \in Kinds \ Ephemeral :
              Whole(backup[restoring.at][k]) => Read(restoring.at, k) # "absent"]_vars

\* While the thread that start() has started runs, what is ephemeral goes, in both layouts of
\* an object store, from every plan the scan sees: those of its tenant whose directory is
\* on the disk, whoever made it.  An "unheeded" start, after a stop that gave up waiting,
\* promises nothing: the old thread ends and no new one is there.
EphemeralLeaves ==
    \A p \in Scanned, k \in Ephemeral :
        p \in dirs /\ Read(p, k) # "absent" ~> Read(p, k) = "absent" \/ client # "started"

(* The refinement: a temporary file is no value, a write is open until its   *)
(* backend write has taken effect or has failed.                            *)
Value == [p \in Places |-> [k \in Kinds |-> IF Whole(files[p][k]) THEN files[p][k] ELSE "absent"]]
Where == IF restoring.busy THEN {restoring.at} ELSE {}
State(w) ==
    IF w \in stored THEN "stored"
    ELSE CASE write[w] = "idle" -> "idle"
           [] write[w] \in {"open", "filled"} -> "open"
           [] OTHER -> "failed"
Open == [w \in Writers |-> State(w)]

\* Reads see a map whose values are stored at once and at most once.
Map == INSTANCE ArtifactMap WITH
    None <- "absent", value <- Value, open <- Open, restoring <- Where
ImplementsMap == Map!Spec
=============================================================================
