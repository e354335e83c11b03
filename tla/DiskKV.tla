------------------------------- MODULE DiskKV -------------------------------
(***************************************************************************)
(* The on disk state machine of the monkey tests (tests/diskkv.go): how it *)
(* finds its database when it is opened, and how RecoverFromSnapshot       *)
(* replaces the database by another, with a crash between any two steps.   *)
(*                                                                         *)
(* A replica has one directory.  In it the file "current" names the        *)
(* directory of the database in use; it is replaced by renaming the file   *)
(* "current.updating".  A database is abstracted to the index of the last  *)
(* entry applied to it, which is stored in it with every batch and decides *)
(* what the rest of its contents are.                                      *)
(*                                                                         *)
(* The file system is external: what the process sees of the directory     *)
(* (fs) reaches the disk for sure only when the directory is synced.  A    *)
(* batch is written with Sync, so a database's contents are as durable as  *)
(* its directory.  Open, Update and RecoverFromSnapshot are called one at  *)
(* a time by dragonboat; lookups run beside them.  An I/O error makes the  *)
(* NodeHost panic, which is a crash.                                       *)
(***************************************************************************)
EXTENDS Integers, Sequences

CONSTANTS Dirs,       \* the names of database directories
          None,       \* no name, no database
          MaxIndex,   \* bound of the model: the last entry of the raft log
          MaxCrashes  \* bound of the model: the number of crashes

ASSUME DiskKVAssumption ==
    /\ None \notin Dirs
    /\ MaxIndex \in Nat
    /\ MaxCrashes \in Nat

VARIABLES
    fs,          \* the directory as the process sees it
    disk,        \* the directory as it was last synced
    todo,        \* the steps that are left of the running Open or recovery
    dbdir,       \* local variable dbdir of both
    olddir,      \* local variable oldDirName of RecoverFromSnapshot
    incoming,    \* the applied index in the snapshot that is read
    db,          \* d.db: the directory of the database in use
    open,        \* the databases that are open, the others were closed
    lastApplied, \* d.lastApplied
    aborted,     \* d.aborted
    reader,      \* the database a lookup has loaded from d.db, or None
    lastRead,    \* the index of the state that the last lookup answered from
    seen,        \* the highest index that Open, Update or a recovery made
                 \* visible outside, -1 before the first Open has returned
    panicked,    \* Open has panicked at some time
    crashes

vars == <<fs, disk, todo, dbdir, olddir, incoming, db, open, lastApplied,
          aborted, reader, lastRead, seen, panicked, crashes>>

local == <<dbdir, olddir, incoming>>
lookup == <<reader, lastRead>>

\* What is read of a database that was removed, all or part of it.
Partial == -1

Content(dirs, d) == IF d \in DOMAIN dirs THEN dirs[d] ELSE Partial

\* A directory: its two files and its database directories.
Empty == [current |-> None, updating |-> None, dirs |-> [d \in {} |-> 0]]

Put(f, d, index) ==
    [f EXCEPT !.dirs = [e \in DOMAIN f.dirs \cup {d} |->
                           IF e = d THEN index ELSE f.dirs[e]]]

Remove(f, d) ==
    [f EXCEPT !.dirs = [e \in DOMAIN f.dirs \ {d} |-> f.dirs[e]]]

Higher(i, j) == IF i > j THEN i ELSE j

Init ==
    /\ fs = Empty
    /\ disk = Empty
    /\ todo = <<>>
    /\ dbdir = None
    /\ olddir = None
    /\ incoming = 0
    /\ db = None
    /\ open = {}
    /\ lastApplied = 0
    /\ aborted = FALSE
    /\ reader = None
    /\ lastRead = 0
    /\ seen = -1
    /\ panicked = FALSE
    /\ crashes = 0

Down == db = None /\ todo = <<>>
Idle == db # None /\ todo = <<>>

\* Names hold a random number and the time: none is ever used again.
FreshDirs ==
    Dirs \ (DOMAIN fs.dirs \cup DOMAIN disk.dirs
              \cup {fs.current, fs.updating, disk.current, disk.updating, reader})

-----------------------------------------------------------------------------
(* The steps of Open and RecoverFromSnapshot, in the order of the code.     *)
(* "write" and its "sync" are saveCurrentDBDirName, "rename" and its "sync" *)
(* replaceCurrentDBFile, "mkdir" and its "sync" createDB.                   *)

\* Open when there is no current file.
NewRunSteps ==
    <<"write", "sync", "rename", "sync", "mkdir", "sync", "opendb">>

\* Open when there is one: cleanupNodeDataDir, then the check of the directory.
ReopenSteps == <<"removeUpdating", "removeDirs", "stat", "opendb">>

\* Faulty variant: the switch comes before the new database is filled.
RecoverStepsSwitchFirst ==
    <<"mkdir", "sync", "write", "sync", "rename", "sync", "load",
      "swap", "close", "remove", "sync">>

\* Faulty variant: the old database is never removed.
RecoverStepsKeepOld ==
    <<"mkdir", "sync", "load", "write", "sync", "rename", "sync",
      "swap", "close">>

\* Faulty variant: the old database is removed while lookups may use it.
RecoverStepsRemoveFirst ==
    <<"mkdir", "sync", "load", "write", "sync", "rename", "sync",
      "swap", "remove", "sync", "close">>

RecoverSteps ==
    <<"mkdir", "sync", "load", "write", "sync", "rename", "sync",
      "swap", "close", "remove", "sync">>

StepIs(step) == todo # <<>> /\ Head(todo) = step

Do(step) == StepIs(step) /\ todo' = Tail(todo)

-----------------------------------------------------------------------------
(* Steps that only change the directory.                                    *)

UnchangedMemory ==
    UNCHANGED <<db, open, lastApplied, aborted, lookup, seen, panicked, crashes>>

\* The name is written and the file synced; its directory entry comes next.
WriteName ==
    /\ Do("write")
    /\ fs' = [fs EXCEPT !.updating = dbdir]
    /\ UNCHANGED <<disk, local>> /\ UnchangedMemory

SyncDir ==
    /\ Do("sync")
    /\ disk' = fs
    /\ UNCHANGED <<fs, local>> /\ UnchangedMemory

Rename ==
    /\ Do("rename")
    /\ fs' = [fs EXCEPT !.current = fs.updating, !.updating = None]
    /\ UNCHANGED <<disk, local>> /\ UnchangedMemory

MakeDir ==
    /\ Do("mkdir")
    /\ fs' = Put(fs, dbdir, 0)
    /\ UNCHANGED <<disk, local>> /\ UnchangedMemory

RemoveUpdating ==
    /\ Do("removeUpdating")
    /\ fs' = [fs EXCEPT !.updating = None]
    /\ UNCHANGED <<disk, local>> /\ UnchangedMemory

\* Faulty variant: cleanup takes every directory for a leftover.
LeftoversAll == DOMAIN fs.dirs

Leftovers == DOMAIN fs.dirs \ {fs.current}

\* cleanupNodeDataDir does not sync what it removes.
RemoveLeftover ==
    /\ StepIs("removeDirs")
    /\ \E d \in Leftovers : fs' = Remove(fs, d)
    /\ UNCHANGED <<disk, todo, local>> /\ UnchangedMemory

RemovedLeftovers ==
    /\ Do("removeDirs")
    /\ Leftovers = {}
    /\ UNCHANGED <<fs, disk, local>> /\ UnchangedMemory

RemoveOld ==
    /\ Do("remove")
    /\ fs' = Remove(fs, olddir)
    /\ UNCHANGED <<disk, local>> /\ UnchangedMemory

-----------------------------------------------------------------------------
(* Open *)

Open ==
    /\ Down
    /\ IF fs.current = None
         THEN todo' = NewRunSteps /\ dbdir' \in FreshDirs
         ELSE todo' = ReopenSteps /\ dbdir' = fs.current
    /\ UNCHANGED <<fs, disk, olddir, incoming>> /\ UnchangedMemory

StatDir ==
    /\ Do("stat")
    /\ dbdir \in DOMAIN fs.dirs
    /\ UNCHANGED <<fs, disk, local>> /\ UnchangedMemory

\* "db dir unexpectedly deleted": the NodeHost goes down.
StatPanics ==
    /\ StepIs("stat")
    /\ dbdir \notin DOMAIN fs.dirs
    /\ panicked' = TRUE
    /\ todo' = <<>>
    /\ UNCHANGED <<fs, disk, local, db, open, lastApplied, aborted, lookup,
                   seen, crashes>>

OpenDB ==
    /\ Do("opendb")
    /\ db' = dbdir
    /\ open' = {dbdir}
    /\ lastApplied' = Content(fs.dirs, dbdir)
    /\ seen' = Higher(seen, lastApplied')
    /\ UNCHANGED <<fs, disk, local, aborted, lookup, panicked, crashes>>

-----------------------------------------------------------------------------
(* Update, RecoverFromSnapshot, Lookup and Close *)

\* Contents are synced with the batch, in a directory that is synced or not.
Apply(d, index) ==
    /\ fs' = Put(fs, d, index)
    /\ disk' = IF d \in DOMAIN disk.dirs THEN Put(disk, d, index) ELSE disk

\* A batch of entries; the log may hold entries that never reach it.
Update ==
    /\ Idle /\ ~aborted
    /\ \E index \in (lastApplied + 1)..MaxIndex :
          /\ Apply(db, index)
          /\ lastApplied' = index
          /\ seen' = Higher(seen, index)
    /\ UNCHANGED <<todo, local, db, open, aborted, lookup, panicked, crashes>>

\* The node was told to stop while the recovery had not started reading.
RecoverStopped ==
    /\ Idle /\ ~aborted
    /\ aborted' = TRUE
    /\ UNCHANGED <<fs, disk, todo, local, db, open, lastApplied, lookup, seen,
                   panicked, crashes>>

\* raft never goes back: a snapshot has at least what was applied.
RecoverFromSnapshot ==
    /\ Idle /\ ~aborted
    /\ todo' = RecoverSteps
    /\ dbdir' \in FreshDirs
    /\ olddir' = fs.current
    /\ incoming' \in lastApplied..MaxIndex
    /\ UNCHANGED <<fs, disk>> /\ UnchangedMemory

LoadSnapshot ==
    /\ Do("load")
    /\ Apply(dbdir, incoming)
    /\ open' = open \cup {dbdir}
    /\ UNCHANGED <<local, db, lastApplied, aborted, lookup, seen, panicked, crashes>>

SwapDB ==
    /\ Do("swap")
    /\ db' = dbdir
    /\ lastApplied' = Content(fs.dirs, dbdir)
    /\ seen' = Higher(seen, lastApplied')
    /\ UNCHANGED <<fs, disk, local, open, aborted, lookup, panicked, crashes>>

CloseOld ==
    /\ Do("close")
    /\ open' = open \ {olddir}
    /\ UNCHANGED <<fs, disk, local, db, lastApplied, aborted, lookup, seen,
                   panicked, crashes>>

LookupLoad ==
    /\ reader = None
    /\ db # None
    /\ reader' = db
    /\ UNCHANGED <<fs, disk, todo, local, db, open, lastApplied, aborted,
                   lastRead, seen, panicked, crashes>>

\* A database that was closed in between answers with an error.
LookupGet ==
    /\ reader # None
    /\ lastRead' = IF reader \in open THEN Content(fs.dirs, reader) ELSE lastRead
    /\ reader' = None
    /\ UNCHANGED <<fs, disk, todo, local, db, open, lastApplied, aborted, seen,
                   panicked, crashes>>

\* The replica is stopped; a new DiskKVTest is made when it starts again.
Close ==
    /\ Idle
    /\ db' = None
    /\ open' = {}
    /\ lastApplied' = 0
    /\ aborted' = FALSE
    /\ reader' = None
    /\ UNCHANGED <<fs, disk, todo, local, lastRead, seen, panicked, crashes>>

-----------------------------------------------------------------------------
(* What a crash may leave of the directory: a rename has happened or not,   *)
(* and so have, each on its own, the creations and removals that were not   *)
(* synced; a removal may have got through part of the files.                *)
CrashImages ==
    LET kept     == DOMAIN fs.dirs \cap DOMAIN disk.dirs
        created  == DOMAIN fs.dirs \ DOMAIN disk.dirs
        removed  == DOMAIN disk.dirs \ DOMAIN fs.dirs
    IN  {[current  |-> f.current,
          updating |-> f.updating,
          dirs     |-> [d \in kept \cup S |->
                           IF d \in DOMAIN fs.dirs THEN fs.dirs[d]
                           ELSE IF d \in P THEN Partial ELSE disk.dirs[d]]] :
            f \in {fs, disk}, S \in SUBSET (created \cup removed),
            P \in SUBSET removed}

Crash ==
    /\ crashes < MaxCrashes
    /\ crashes' = crashes + 1
    /\ fs' \in CrashImages
    /\ disk' = fs'
    /\ todo' = <<>>
    /\ db' = None
    /\ open' = {}
    /\ lastApplied' = 0
    /\ aborted' = FALSE
    /\ reader' = None
    /\ UNCHANGED <<local, lastRead, seen, panicked>>

Step ==
    \/ WriteName \/ SyncDir \/ Rename \/ MakeDir
    \/ RemoveUpdating \/ RemoveLeftover \/ RemovedLeftovers
    \/ StatDir \/ StatPanics \/ OpenDB
    \/ LoadSnapshot \/ SwapDB \/ CloseOld \/ RemoveOld

Next ==
    \/ Open \/ Step
    \/ Update \/ RecoverStopped \/ RecoverFromSnapshot
    \/ LookupLoad \/ LookupGet
    \/ Close
    \/ Crash

Spec == Init /\ [][Next]_vars

\* A call once begun goes on, and a replica that is down is opened again.
FairSpec == Spec /\ WF_vars(Step) /\ WF_vars(Open)

-----------------------------------------------------------------------------

(* Whenever the process dies, in the middle of a switch too, the disk names *)
(* a database that has everything an Open, an Update or a recovery returned *)
(* or a lookup could see (RecoverFromSnapshot, replaceCurrentDBFile).       *)
NothingSeenIsLost ==
    seen >= 0 =>
        \A image \in CrashImages :
            Content(image.dirs, image.current) >= seen

(* Between calls the replica's directory holds its database and nothing     *)
(* else, whatever crashes left behind (cleanupNodeDataDir, RemoveAll of the *)
(* old directory), and the applied index is the database's own.             *)
OnlyTheDBInUse ==
    Idle => /\ fs = Put([Empty EXCEPT !.current = db], db, lastApplied)
            /\ open = {db}

(* Lookups that run beside a recovery, and across crashes, answer from      *)
(* states that never go back, or with an error (Lookup, SwapPointer).       *)
ReadsGoForward == [][lastRead' >= lastRead]_lastRead

(* Open finds the directory that the current file names: the panic "db dir  *)
(* unexpectedly deleted" (tests/diskkv.go:523) is never reached.            *)
OpenNeverPanics == ~panicked

(* A replica that was open once is open again after its last crash: the     *)
(* cleanup terminates and its check passes.                                 *)
OpensAgain == [](seen >= 0 => <>(db # None))
=============================================================================
