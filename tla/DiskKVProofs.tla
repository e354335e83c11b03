---------------------------- MODULE DiskKVProofs ----------------------------
(***************************************************************************)
(* Proofs about DiskKV, for any set of database directories, any log and   *)
(* any number of crashes.                                                  *)
(***************************************************************************)
EXTENDS DiskKV, SequenceTheorems, TLAPS

\* What is left of a list of steps when k of them are done.
Left(steps, k) == SubSeq(steps, k + 1, Len(steps))

StepNames ==
    {"write", "sync", "rename", "mkdir", "opendb", "removeUpdating",
     "removeDirs", "stat", "load", "swap", "close", "remove"}

Images ==
    [current : Dirs \cup {None}, updating : Dirs \cup {None},
     dirs : UNION {[S -> Int] : S \in SUBSET Dirs}]

Types ==
    /\ fs \in Images /\ disk \in Images
    /\ seen \in Int /\ seen >= -1
    /\ lastRead \in Nat
    /\ lastApplied \in Int
    /\ incoming \in Int
    /\ open \subseteq Dirs

(* What has to hold of a name that the disk may have in the file "current"  *)
(* after a crash.  A database is never cut off from its name: as soon as    *)
(* something of it was seen, its directory is both there and durable.       *)
Named(c) ==
    /\ c = None => DOMAIN fs.dirs = {} /\ DOMAIN disk.dirs = {}
    /\ c \in DOMAIN disk.dirs => c \in DOMAIN fs.dirs
    /\ c \in DOMAIN fs.dirs => fs.dirs[c] >= 0
    /\ seen >= 0 => /\ c \in DOMAIN fs.dirs /\ c \in DOMAIN disk.dirs
                    /\ fs.dirs[c] >= seen

(* A lookup never gets ahead of what was made visible, and the database it  *)
(* is going to read is, as long as it is open, never behind the lookup      *)
(* before.                                                                  *)
Reading ==
    /\ lastRead <= Higher(seen, 0)
    /\ reader \in open => /\ reader \in DOMAIN fs.dirs
                          /\ fs.dirs[reader] >= lastRead
                          /\ fs.dirs[reader] <= seen
    /\ db = None => reader = None /\ open = {}

\* The file "current" and the directory it names are durable, or both are not.
Settled ==
    /\ disk.current = fs.current
    /\ fs.current \in DOMAIN fs.dirs => fs.current \in DOMAIN disk.dirs

\* The directory holds the database d alone.
Holds(d) ==
    /\ fs.current = d /\ fs.updating = None
    /\ DOMAIN fs.dirs = {d}

\* k steps of the first Open are done.
NewRunAt(k) ==
    /\ todo = Left(NewRunSteps, k)
    /\ db = None
    /\ seen = -1
    /\ dbdir \in Dirs
    /\ fs.current = IF k >= 3 THEN dbdir ELSE None
    /\ disk.current = IF k >= 4 THEN dbdir ELSE None
    /\ k >= 1 => fs.updating = IF k >= 3 THEN None ELSE dbdir
    /\ DOMAIN fs.dirs = IF k >= 5 THEN {dbdir} ELSE {}
    /\ DOMAIN disk.dirs = IF k >= 6 THEN {dbdir} ELSE {}

\* k steps of a later Open are done.
ReopenAt(k) ==
    /\ todo = Left(ReopenSteps, k)
    /\ db = None
    /\ dbdir \in Dirs /\ dbdir = fs.current
    /\ Settled
    /\ k >= 1 => fs.updating = None
    /\ k >= 2 => DOMAIN fs.dirs \subseteq {dbdir}
    /\ k >= 3 => dbdir \in DOMAIN fs.dirs

\* k steps of a recovery are done.
RecoverAt(k) ==
    /\ todo = Left(RecoverSteps, k)
    /\ dbdir \in Dirs /\ olddir \in Dirs /\ dbdir # olddir
    /\ db = IF k >= 8 THEN dbdir ELSE olddir
    /\ open = IF k >= 9 THEN {dbdir} ELSE IF k >= 3 THEN {olddir, dbdir} ELSE {olddir}
    /\ fs.current = IF k >= 6 THEN dbdir ELSE olddir
    /\ disk.current = IF k >= 7 THEN dbdir ELSE olddir
    /\ fs.updating = IF k \in {4, 5} THEN dbdir ELSE None
    /\ DOMAIN fs.dirs = IF k >= 10 THEN {dbdir}
                        ELSE IF k >= 1 THEN {olddir, dbdir} ELSE {olddir}
    /\ olddir \in DOMAIN disk.dirs \/ k >= 6
    /\ k = 0 => dbdir \notin DOMAIN disk.dirs
    /\ k >= 2 => dbdir \in DOMAIN disk.dirs
    /\ k >= 3 => fs.dirs[dbdir] = incoming
    /\ lastApplied = IF k >= 8 THEN incoming ELSE fs.dirs[olddir]
    /\ seen = lastApplied
    /\ 0 <= lastApplied /\ lastApplied <= incoming
    /\ k <= 7 => reader # dbdir

IsDown ==
    /\ todo = <<>>
    /\ db = None
    /\ Settled

IsIdle ==
    /\ todo = <<>>
    /\ db \in Dirs
    /\ open = {db}
    /\ Holds(db)
    /\ Settled
    /\ lastApplied = fs.dirs[db]
    /\ seen = lastApplied
    /\ 0 <= lastApplied

Phase ==
    \/ IsDown
    \/ IsIdle
    \/ \E k \in 0..6 : NewRunAt(k)
    \/ \E k \in 0..3 : ReopenAt(k)
    \/ \E k \in 0..10 : RecoverAt(k)

Inv ==
    /\ Types
    /\ Named(fs.current) /\ Named(disk.current)
    /\ Reading
    /\ Phase

-----------------------------------------------------------------------------
(* The steps that are left are done in their order.                         *)
LEMMA LeftIsSuffix ==
    ASSUME NEW S, NEW steps \in Seq(S), NEW k \in 0..Len(steps)
    PROVE  /\ k = Len(steps) => Left(steps, k) = <<>>
           /\ k < Len(steps) => /\ Left(steps, k) # <<>>
                                /\ Head(Left(steps, k)) = steps[k + 1]
                                /\ Tail(Left(steps, k)) = Left(steps, k + 1)
  <1>1. CASE k = Len(steps)
    BY <1>1, SubSeqEmpty DEF Left
  <1>2. CASE k < Len(steps)
    <2>1. k + 1 \in 1..Len(steps) /\ Len(steps) \in (k + 1)..Len(steps)
      BY <1>2
    <2>2. Head(Left(steps, k)) = steps[k + 1] /\ Tail(Left(steps, k)) = Left(steps, k + 1)
      BY <2>1, HeadTailOfSubSeq DEF Left
    <2>3. Left(steps, k) # <<>>
      <3>1. \A i \in (k + 1)..Len(steps) : steps[i] \in S
        BY ElementOfSeq
      <3>2. Len(Left(steps, k)) = Len(steps) - (k + 1) + 1
        BY <2>1, <3>1, SubSeqProperties DEF Left
      <3> QED
        BY <3>2, <1>2
    <2> QED
      BY <1>2, <2>2, <2>3
  <1> QED
    BY <1>1, <1>2

(* The three lists.                                                         *)
LEMMA ListLengths ==
    /\ NewRunSteps \in Seq(StepNames) /\ Len(NewRunSteps) = 7
    /\ ReopenSteps \in Seq(StepNames) /\ Len(ReopenSteps) = 4
    /\ RecoverSteps \in Seq(StepNames) /\ Len(RecoverSteps) = 11
  <1>1. NewRunSteps \in Seq(StepNames) /\ Len(NewRunSteps) = 7
    <2>1. Len(NewRunSteps) = 7
      BY DEF NewRunSteps
    <2>2. NewRunSteps \in Seq(StepNames)
      <3>1. NewRunSteps = [i \in 1..7 |-> NewRunSteps[i]]
        BY DEF NewRunSteps
      <3>2. \A i \in 1..7 : NewRunSteps[i] \in StepNames
        BY DEF NewRunSteps, StepNames
      <3> QED
        BY <3>1, <3>2
    <2> QED
      BY <2>1, <2>2
  <1>2. ReopenSteps \in Seq(StepNames) /\ Len(ReopenSteps) = 4
    <2>1. Len(ReopenSteps) = 4
      BY DEF ReopenSteps
    <2>2. ReopenSteps \in Seq(StepNames)
      <3>1. ReopenSteps = [i \in 1..4 |-> ReopenSteps[i]]
        BY DEF ReopenSteps
      <3>2. \A i \in 1..4 : ReopenSteps[i] \in StepNames
        BY DEF ReopenSteps, StepNames
      <3> QED
        BY <3>1, <3>2
    <2> QED
      BY <2>1, <2>2
  <1>3. RecoverSteps \in Seq(StepNames) /\ Len(RecoverSteps) = 11
    <2>1. Len(RecoverSteps) = 11
      BY DEF RecoverSteps
    <2>2. RecoverSteps \in Seq(StepNames)
      <3>1. RecoverSteps = [i \in 1..11 |-> RecoverSteps[i]]
        BY DEF RecoverSteps
      <3>2. \A i \in 1..11 : RecoverSteps[i] \in StepNames
        BY DEF RecoverSteps, StepNames
      <3> QED
        BY <3>1, <3>2
    <2> QED
      BY <2>1, <2>2
  <1> QED
    BY <1>1, <1>2, <1>3

(* A step that is the next one of a list whose first k steps are done.      *)
NextOfNewRun(step) ==
    \E k \in 0..6 : /\ NewRunAt(k) /\ NewRunSteps[k + 1] = step
                    /\ Tail(todo) = Left(NewRunSteps, k + 1)
                    /\ k = 6 => Tail(todo) = <<>>

NextOfReopen(step) ==
    \E k \in 0..3 : /\ ReopenAt(k) /\ ReopenSteps[k + 1] = step
                    /\ Tail(todo) = Left(ReopenSteps, k + 1)
                    /\ k = 3 => Tail(todo) = <<>>

NextOfRecover(step) ==
    \E k \in 0..10 : /\ RecoverAt(k) /\ RecoverSteps[k + 1] = step
                     /\ Tail(todo) = Left(RecoverSteps, k + 1)
                     /\ k = 10 => Tail(todo) = <<>>

(* A step that is done is the next one of Open or of the recovery.          *)
LEMMA NextStep ==
    ASSUME Phase, NEW step, StepIs(step)
    PROVE  NextOfNewRun(step) \/ NextOfReopen(step) \/ NextOfRecover(step)
  <1>1. /\ NewRunSteps \in Seq(StepNames) /\ Len(NewRunSteps) = 7
        /\ ReopenSteps \in Seq(StepNames) /\ Len(ReopenSteps) = 4
        /\ RecoverSteps \in Seq(StepNames) /\ Len(RecoverSteps) = 11
    BY ListLengths
  <1> HIDE DEF Left
  <1>2. ASSUME NEW k \in 0..6, NewRunAt(k)
        PROVE  /\ NewRunSteps[k + 1] = step
               /\ Tail(todo) = Left(NewRunSteps, k + 1)
               /\ k = 6 => Tail(todo) = <<>>
    <2>1. todo = Left(NewRunSteps, k)
      BY <1>2 DEF NewRunAt
    <2>2. k \in 0..Len(NewRunSteps) /\ k < Len(NewRunSteps)
      BY <1>1
    <2>3. Head(todo) = NewRunSteps[k + 1] /\ Tail(todo) = Left(NewRunSteps, k + 1)
      BY <1>1, <2>1, <2>2, LeftIsSuffix
    <2>4. k = 6 => Left(NewRunSteps, k + 1) = <<>>
      <3>1. Len(NewRunSteps) \in 0..Len(NewRunSteps)
        BY <1>1
      <3>2. Left(NewRunSteps, Len(NewRunSteps)) = <<>>
        BY <1>1, <3>1, LeftIsSuffix
      <3> QED
        BY <1>1, <3>2
    <2> QED
      BY <2>3, <2>4 DEF StepIs
  <1>3. ASSUME NEW k \in 0..3, ReopenAt(k)
        PROVE  /\ ReopenSteps[k + 1] = step
               /\ Tail(todo) = Left(ReopenSteps, k + 1)
               /\ k = 3 => Tail(todo) = <<>>
    <2>1. todo = Left(ReopenSteps, k)
      BY <1>3 DEF ReopenAt
    <2>2. k \in 0..Len(ReopenSteps) /\ k < Len(ReopenSteps)
      BY <1>1
    <2>3. Head(todo) = ReopenSteps[k + 1] /\ Tail(todo) = Left(ReopenSteps, k + 1)
      BY <1>1, <2>1, <2>2, LeftIsSuffix
    <2>4. k = 3 => Left(ReopenSteps, k + 1) = <<>>
      <3>1. Len(ReopenSteps) \in 0..Len(ReopenSteps)
        BY <1>1
      <3>2. Left(ReopenSteps, Len(ReopenSteps)) = <<>>
        BY <1>1, <3>1, LeftIsSuffix
      <3> QED
        BY <1>1, <3>2
    <2> QED
      BY <2>3, <2>4 DEF StepIs
  <1>4. ASSUME NEW k \in 0..10, RecoverAt(k)
        PROVE  /\ RecoverSteps[k + 1] = step
               /\ Tail(todo) = Left(RecoverSteps, k + 1)
               /\ k = 10 => Tail(todo) = <<>>
    <2>1. todo = Left(RecoverSteps, k)
      BY <1>4 DEF RecoverAt
    <2>2. k \in 0..Len(RecoverSteps) /\ k < Len(RecoverSteps)
      BY <1>1
    <2>3. Head(todo) = RecoverSteps[k + 1] /\ Tail(todo) = Left(RecoverSteps, k + 1)
      BY <1>1, <2>1, <2>2, LeftIsSuffix
    <2>4. k = 10 => Left(RecoverSteps, k + 1) = <<>>
      <3>1. Len(RecoverSteps) \in 0..Len(RecoverSteps)
        BY <1>1
      <3>2. Left(RecoverSteps, Len(RecoverSteps)) = <<>>
        BY <1>1, <3>1, LeftIsSuffix
      <3> QED
        BY <1>1, <3>2
    <2> QED
      BY <2>3, <2>4 DEF StepIs
  <1> QED
    BY <1>2, <1>3, <1>4
    DEF Phase, StepIs, IsDown, IsIdle, NextOfNewRun, NextOfReopen, NextOfRecover

(* Where each step of the three lists stands, and what is left after it.    *)
LEMMA NewRunOrder ==
    ASSUME NEW step, NextOfNewRun(step)
    PROVE  \/ step = "write" /\ NewRunAt(0) /\ Tail(todo) = Left(NewRunSteps, 1)
           \/ step = "sync" /\ NewRunAt(1) /\ Tail(todo) = Left(NewRunSteps, 2)
           \/ step = "rename" /\ NewRunAt(2) /\ Tail(todo) = Left(NewRunSteps, 3)
           \/ step = "sync" /\ NewRunAt(3) /\ Tail(todo) = Left(NewRunSteps, 4)
           \/ step = "mkdir" /\ NewRunAt(4) /\ Tail(todo) = Left(NewRunSteps, 5)
           \/ step = "sync" /\ NewRunAt(5) /\ Tail(todo) = Left(NewRunSteps, 6)
           \/ step = "opendb" /\ NewRunAt(6) /\ Tail(todo) = <<>>
  <1>1. PICK k \in 0..6 : /\ NewRunAt(k) /\ NewRunSteps[k + 1] = step
                          /\ Tail(todo) = Left(NewRunSteps, k + 1)
                          /\ k = 6 => Tail(todo) = <<>>
    BY DEF NextOfNewRun
  <1>2. /\ NewRunSteps[1] = "write"
        /\ NewRunSteps[2] = "sync"
        /\ NewRunSteps[3] = "rename"
        /\ NewRunSteps[4] = "sync"
        /\ NewRunSteps[5] = "mkdir"
        /\ NewRunSteps[6] = "sync"
        /\ NewRunSteps[7] = "opendb"
    BY DEF NewRunSteps
  <1> HIDE DEF NewRunAt
  <1>3. CASE k = 0
    BY <1>1, <1>2, <1>3
  <1>4. CASE k = 1
    BY <1>1, <1>2, <1>4
  <1>5. CASE k = 2
    BY <1>1, <1>2, <1>5
  <1>6. CASE k = 3
    BY <1>1, <1>2, <1>6
  <1>7. CASE k = 4
    BY <1>1, <1>2, <1>7
  <1>8. CASE k = 5
    BY <1>1, <1>2, <1>8
  <1>9. CASE k = 6
    BY <1>1, <1>2, <1>9
  <1> QED
    BY <1>3, <1>4, <1>5, <1>6, <1>7, <1>8, <1>9

(* The same for the steps of a later Open.                                  *)
LEMMA ReopenOrder ==
    ASSUME NEW step, NextOfReopen(step)
    PROVE  \/ step = "removeUpdating" /\ ReopenAt(0) /\ Tail(todo) = Left(ReopenSteps, 1)
           \/ step = "removeDirs" /\ ReopenAt(1) /\ Tail(todo) = Left(ReopenSteps, 2)
           \/ step = "stat" /\ ReopenAt(2) /\ Tail(todo) = Left(ReopenSteps, 3)
           \/ step = "opendb" /\ ReopenAt(3) /\ Tail(todo) = <<>>
  <1>1. PICK k \in 0..3 : /\ ReopenAt(k) /\ ReopenSteps[k + 1] = step
                          /\ Tail(todo) = Left(ReopenSteps, k + 1)
                          /\ k = 3 => Tail(todo) = <<>>
    BY DEF NextOfReopen
  <1>2. /\ ReopenSteps[1] = "removeUpdating"
        /\ ReopenSteps[2] = "removeDirs"
        /\ ReopenSteps[3] = "stat"
        /\ ReopenSteps[4] = "opendb"
    BY DEF ReopenSteps
  <1> HIDE DEF ReopenAt
  <1>3. CASE k = 0
    BY <1>1, <1>2, <1>3
  <1>4. CASE k = 1
    BY <1>1, <1>2, <1>4
  <1>5. CASE k = 2
    BY <1>1, <1>2, <1>5
  <1>6. CASE k = 3
    BY <1>1, <1>2, <1>6
  <1> QED
    BY <1>3, <1>4, <1>5, <1>6

(* The same for the steps of a recovery.                                    *)
LEMMA RecoverOrder ==
    ASSUME NEW step, NextOfRecover(step)
    PROVE  \/ step = "mkdir" /\ RecoverAt(0) /\ Tail(todo) = Left(RecoverSteps, 1)
           \/ step = "sync" /\ RecoverAt(1) /\ Tail(todo) = Left(RecoverSteps, 2)
           \/ step = "load" /\ RecoverAt(2) /\ Tail(todo) = Left(RecoverSteps, 3)
           \/ step = "write" /\ RecoverAt(3) /\ Tail(todo) = Left(RecoverSteps, 4)
           \/ step = "sync" /\ RecoverAt(4) /\ Tail(todo) = Left(RecoverSteps, 5)
           \/ step = "rename" /\ RecoverAt(5) /\ Tail(todo) = Left(RecoverSteps, 6)
           \/ step = "sync" /\ RecoverAt(6) /\ Tail(todo) = Left(RecoverSteps, 7)
           \/ step = "swap" /\ RecoverAt(7) /\ Tail(todo) = Left(RecoverSteps, 8)
           \/ step = "close" /\ RecoverAt(8) /\ Tail(todo) = Left(RecoverSteps, 9)
           \/ step = "remove" /\ RecoverAt(9) /\ Tail(todo) = Left(RecoverSteps, 10)
           \/ step = "sync" /\ RecoverAt(10) /\ Tail(todo) = <<>>
  <1>1. PICK k \in 0..10 : /\ RecoverAt(k) /\ RecoverSteps[k + 1] = step
                           /\ Tail(todo) = Left(RecoverSteps, k + 1)
                           /\ k = 10 => Tail(todo) = <<>>
    BY DEF NextOfRecover
  <1>2. /\ RecoverSteps[1] = "mkdir"
        /\ RecoverSteps[2] = "sync"
        /\ RecoverSteps[3] = "load"
        /\ RecoverSteps[4] = "write"
        /\ RecoverSteps[5] = "sync"
        /\ RecoverSteps[6] = "rename"
        /\ RecoverSteps[7] = "sync"
        /\ RecoverSteps[8] = "swap"
        /\ RecoverSteps[9] = "close"
        /\ RecoverSteps[10] = "remove"
        /\ RecoverSteps[11] = "sync"
    BY DEF RecoverSteps
  <1> HIDE DEF RecoverAt
  <1>3. CASE k = 0
    BY <1>1, <1>2, <1>3
  <1>4. CASE k = 1
    BY <1>1, <1>2, <1>4
  <1>5. CASE k = 2
    BY <1>1, <1>2, <1>5
  <1>6. CASE k = 3
    BY <1>1, <1>2, <1>6
  <1>7. CASE k = 4
    BY <1>1, <1>2, <1>7
  <1>8. CASE k = 5
    BY <1>1, <1>2, <1>8
  <1>9. CASE k = 6
    BY <1>1, <1>2, <1>9
  <1>10. CASE k = 7
    BY <1>1, <1>2, <1>10
  <1>11. CASE k = 8
    BY <1>1, <1>2, <1>11
  <1>12. CASE k = 9
    BY <1>1, <1>2, <1>12
  <1>13. CASE k = 10
    BY <1>1, <1>2, <1>13
  <1>14. \/ k = 0 \/ k = 1 \/ k = 2 \/ k = 3 \/ k = 4 \/ k = 5
         \/ k = 6 \/ k = 7 \/ k = 8 \/ k = 9 \/ k = 10
    OBVIOUS
  <1> QED
    BY Zenon, <1>3, <1>4, <1>5, <1>6, <1>7, <1>8, <1>9, <1>10, <1>11, <1>12, <1>13, <1>14

(* What Put and Remove do to a directory.                                   *)
LEMMA PutRemove ==
    ASSUME NEW f \in Images, NEW d \in Dirs, NEW index \in Int
    PROVE  /\ Put(f, d, index) \in Images
           /\ Put(f, d, index).current = f.current
           /\ Put(f, d, index).updating = f.updating
           /\ DOMAIN Put(f, d, index).dirs = DOMAIN f.dirs \cup {d}
           /\ Put(f, d, index).dirs[d] = index
           /\ \A e \in DOMAIN f.dirs \ {d} : Put(f, d, index).dirs[e] = f.dirs[e]
           /\ Remove(f, d) \in Images
           /\ Remove(f, d).current = f.current
           /\ Remove(f, d).updating = f.updating
           /\ DOMAIN Remove(f, d).dirs = DOMAIN f.dirs \ {d}
           /\ \A e \in DOMAIN f.dirs \ {d} : Remove(f, d).dirs[e] = f.dirs[e]
  <1>1. PICK S \in SUBSET Dirs : f.dirs \in [S -> Int]
    BY DEF Images
  <1> DEFINE p == [e \in DOMAIN f.dirs \cup {d} |-> IF e = d THEN index ELSE f.dirs[e]]
             r == [e \in DOMAIN f.dirs \ {d} |-> f.dirs[e]]
  <1>2. p \in [S \cup {d} -> Int] /\ r \in [S \ {d} -> Int]
    BY <1>1
  <1>3. S \cup {d} \in SUBSET Dirs /\ S \ {d} \in SUBSET Dirs
    OBVIOUS
  <1>4. /\ p \in UNION {[T -> Int] : T \in SUBSET Dirs}
        /\ r \in UNION {[T -> Int] : T \in SUBSET Dirs}
    BY <1>2, <1>3
  <1> HIDE DEF p, r
  <1>5. /\ [f EXCEPT !.dirs = p] \in Images
        /\ [f EXCEPT !.dirs = r] \in Images
    BY <1>4 DEF Images
  <1> QED
    BY <1>1, <1>5 DEF Put, Remove, Images, p, r

(* A call that has steps left is not over.                                  *)
LEMMA NothingLeft ==
    ASSUME Phase, todo = <<>>
    PROVE  IsDown \/ IsIdle
  <1>1. \A k \in 0..6 : ~NewRunAt(k)
    <2> SUFFICES ASSUME NEW k \in 0..6, NewRunAt(k) PROVE FALSE
      OBVIOUS
    <2>1. k \in 0..Len(NewRunSteps) /\ k < Len(NewRunSteps)
      BY ListLengths
    <2>2. Left(NewRunSteps, k) # <<>>
      BY <2>1, ListLengths, LeftIsSuffix
    <2> QED
      BY <2>2 DEF NewRunAt
  <1>2. \A k \in 0..3 : ~ReopenAt(k)
    <2> SUFFICES ASSUME NEW k \in 0..3, ReopenAt(k) PROVE FALSE
      OBVIOUS
    <2>1. k \in 0..Len(ReopenSteps) /\ k < Len(ReopenSteps)
      BY ListLengths
    <2>2. Left(ReopenSteps, k) # <<>>
      BY <2>1, ListLengths, LeftIsSuffix
    <2> QED
      BY <2>2 DEF ReopenAt
  <1>3. \A k \in 0..10 : ~RecoverAt(k)
    <2> SUFFICES ASSUME NEW k \in 0..10, RecoverAt(k) PROVE FALSE
      OBVIOUS
    <2>1. k \in 0..Len(RecoverSteps) /\ k < Len(RecoverSteps)
      BY ListLengths
    <2>2. Left(RecoverSteps, k) # <<>>
      BY <2>1, ListLengths, LeftIsSuffix
    <2> QED
      BY <2>2 DEF RecoverAt
  <1> QED
    BY <1>1, <1>2, <1>3 DEF Phase

(* What is known when a step is the next one, and what is left after it.    *)
LEMMA StepsLeft ==
    ASSUME Phase
    PROVE
      /\ StepIs("write") =>
            \/ NewRunAt(0) /\ Tail(todo) = Left(NewRunSteps, 1)
            \/ RecoverAt(3) /\ Tail(todo) = Left(RecoverSteps, 4)
      /\ StepIs("sync") =>
            \/ NewRunAt(1) /\ Tail(todo) = Left(NewRunSteps, 2)
            \/ NewRunAt(3) /\ Tail(todo) = Left(NewRunSteps, 4)
            \/ NewRunAt(5) /\ Tail(todo) = Left(NewRunSteps, 6)
            \/ RecoverAt(1) /\ Tail(todo) = Left(RecoverSteps, 2)
            \/ RecoverAt(4) /\ Tail(todo) = Left(RecoverSteps, 5)
            \/ RecoverAt(6) /\ Tail(todo) = Left(RecoverSteps, 7)
            \/ RecoverAt(10) /\ Tail(todo) = <<>>
      /\ StepIs("rename") =>
            \/ NewRunAt(2) /\ Tail(todo) = Left(NewRunSteps, 3)
            \/ RecoverAt(5) /\ Tail(todo) = Left(RecoverSteps, 6)
      /\ StepIs("mkdir") =>
            \/ NewRunAt(4) /\ Tail(todo) = Left(NewRunSteps, 5)
            \/ RecoverAt(0) /\ Tail(todo) = Left(RecoverSteps, 1)
      /\ StepIs("opendb") =>
            \/ NewRunAt(6) /\ Tail(todo) = <<>>
            \/ ReopenAt(3) /\ Tail(todo) = <<>>
      /\ StepIs("removeUpdating") => ReopenAt(0) /\ Tail(todo) = Left(ReopenSteps, 1)
      /\ StepIs("removeDirs") => ReopenAt(1) /\ Tail(todo) = Left(ReopenSteps, 2)
      /\ StepIs("stat") => ReopenAt(2) /\ Tail(todo) = Left(ReopenSteps, 3)
      /\ StepIs("load") => RecoverAt(2) /\ Tail(todo) = Left(RecoverSteps, 3)
      /\ StepIs("swap") => RecoverAt(7) /\ Tail(todo) = Left(RecoverSteps, 8)
      /\ StepIs("close") => RecoverAt(8) /\ Tail(todo) = Left(RecoverSteps, 9)
      /\ StepIs("remove") => RecoverAt(9) /\ Tail(todo) = Left(RecoverSteps, 10)
  <1>1. ASSUME StepIs("write")
        PROVE  \/ NewRunAt(0) /\ Tail(todo) = Left(NewRunSteps, 1)
               \/ RecoverAt(3) /\ Tail(todo) = Left(RecoverSteps, 4)
    BY <1>1, NextStep, NewRunOrder, ReopenOrder, RecoverOrder
  <1>2. ASSUME StepIs("sync")
        PROVE  \/ NewRunAt(1) /\ Tail(todo) = Left(NewRunSteps, 2)
               \/ NewRunAt(3) /\ Tail(todo) = Left(NewRunSteps, 4)
               \/ NewRunAt(5) /\ Tail(todo) = Left(NewRunSteps, 6)
               \/ RecoverAt(1) /\ Tail(todo) = Left(RecoverSteps, 2)
               \/ RecoverAt(4) /\ Tail(todo) = Left(RecoverSteps, 5)
               \/ RecoverAt(6) /\ Tail(todo) = Left(RecoverSteps, 7)
               \/ RecoverAt(10) /\ Tail(todo) = <<>>
    BY <1>2, NextStep, NewRunOrder, ReopenOrder, RecoverOrder
  <1>3. ASSUME StepIs("rename")
        PROVE  \/ NewRunAt(2) /\ Tail(todo) = Left(NewRunSteps, 3)
               \/ RecoverAt(5) /\ Tail(todo) = Left(RecoverSteps, 6)
    BY <1>3, NextStep, NewRunOrder, ReopenOrder, RecoverOrder
  <1>4. ASSUME StepIs("mkdir")
        PROVE  \/ NewRunAt(4) /\ Tail(todo) = Left(NewRunSteps, 5)
               \/ RecoverAt(0) /\ Tail(todo) = Left(RecoverSteps, 1)
    BY <1>4, NextStep, NewRunOrder, ReopenOrder, RecoverOrder
  <1>5. ASSUME StepIs("opendb")
        PROVE  \/ NewRunAt(6) /\ Tail(todo) = <<>>
               \/ ReopenAt(3) /\ Tail(todo) = <<>>
    BY <1>5, NextStep, NewRunOrder, ReopenOrder, RecoverOrder
  <1>6. ASSUME StepIs("removeUpdating")
        PROVE  ReopenAt(0) /\ Tail(todo) = Left(ReopenSteps, 1)
    BY <1>6, NextStep, NewRunOrder, ReopenOrder, RecoverOrder
  <1>7. ASSUME StepIs("removeDirs")
        PROVE  ReopenAt(1) /\ Tail(todo) = Left(ReopenSteps, 2)
    BY <1>7, NextStep, NewRunOrder, ReopenOrder, RecoverOrder
  <1>8. ASSUME StepIs("stat")
        PROVE  ReopenAt(2) /\ Tail(todo) = Left(ReopenSteps, 3)
    BY <1>8, NextStep, NewRunOrder, ReopenOrder, RecoverOrder
  <1>9. ASSUME StepIs("load")
        PROVE  RecoverAt(2) /\ Tail(todo) = Left(RecoverSteps, 3)
    BY <1>9, NextStep, NewRunOrder, ReopenOrder, RecoverOrder
  <1>10. ASSUME StepIs("swap")
        PROVE  RecoverAt(7) /\ Tail(todo) = Left(RecoverSteps, 8)
    BY <1>10, NextStep, NewRunOrder, ReopenOrder, RecoverOrder
  <1>11. ASSUME StepIs("close")
        PROVE  RecoverAt(8) /\ Tail(todo) = Left(RecoverSteps, 9)
    BY <1>11, NextStep, NewRunOrder, ReopenOrder, RecoverOrder
  <1>12. ASSUME StepIs("remove")
        PROVE  RecoverAt(9) /\ Tail(todo) = Left(RecoverSteps, 10)
    BY <1>12, NextStep, NewRunOrder, ReopenOrder, RecoverOrder
  <1> QED
    BY <1>1, <1>2, <1>3, <1>4, <1>5, <1>6, <1>7, <1>8, <1>9, <1>10, <1>11, <1>12

(* The name is written before it is put in place.                           *)
LEMMA WriteNamePreserves == ASSUME Inv, WriteName PROVE Inv'
  <1>1. /\ fs' \in Images /\ fs'.current = fs.current /\ fs'.dirs = fs.dirs
        /\ fs'.updating = dbdir
    <2>1. dbdir \in Dirs
      BY StepsLeft DEF Inv, WriteName, Do, NewRunAt, RecoverAt
    <2> QED
      BY <2>1 DEF Inv, Types, Images, WriteName
  <1>2. /\ UNCHANGED <<disk, dbdir, olddir, incoming, db, open, lastApplied, reader,
                       lastRead, seen>>
        /\ todo' = Tail(todo)
    BY DEF WriteName, Do, UnchangedMemory, local, lookup
  <1>3. Types' /\ Named(fs.current)' /\ Named(disk.current)' /\ Reading'
    BY <1>1, <1>2 DEF Inv, Types, Named, Reading, Higher
  <1>4. NewRunAt(0) /\ Tail(todo) = Left(NewRunSteps, 1) => NewRunAt(1)'
    BY <1>1, <1>2 DEF NewRunAt
  <1>5. RecoverAt(3) /\ Tail(todo) = Left(RecoverSteps, 4) => RecoverAt(4)'
    BY <1>1, <1>2 DEF RecoverAt
  <1>6. Phase'
    BY <1>4, <1>5, StepsLeft DEF Inv, WriteName, Do, Phase
  <1> QED
    BY <1>3, <1>6 DEF Inv

(* What is synced is what has to be durable next.                           *)
LEMMA SyncDirPreserves == ASSUME Inv, SyncDir PROVE Inv'
  <1>1. /\ UNCHANGED <<fs, dbdir, olddir, incoming, db, open, lastApplied, reader,
                       lastRead, seen>>
        /\ todo' = Tail(todo)
        /\ disk' = fs
    BY DEF SyncDir, Do, UnchangedMemory, local, lookup
  <1>2. Types' /\ Named(fs.current)' /\ Named(disk.current)' /\ Reading'
    BY <1>1 DEF Inv, Types, Named, Reading, Higher
  <1>3. /\ NewRunAt(1) /\ Tail(todo) = Left(NewRunSteps, 2) => NewRunAt(2)'
        /\ NewRunAt(3) /\ Tail(todo) = Left(NewRunSteps, 4) => NewRunAt(4)'
        /\ NewRunAt(5) /\ Tail(todo) = Left(NewRunSteps, 6) => NewRunAt(6)'
    BY <1>1 DEF NewRunAt
  <1>4. /\ RecoverAt(1) /\ Tail(todo) = Left(RecoverSteps, 2) => RecoverAt(2)'
        /\ RecoverAt(4) /\ Tail(todo) = Left(RecoverSteps, 5) => RecoverAt(5)'
        /\ RecoverAt(6) /\ Tail(todo) = Left(RecoverSteps, 7) => RecoverAt(7)'
    BY <1>1 DEF RecoverAt
  <1>5. RecoverAt(10) /\ Tail(todo) = <<>> => IsIdle'
    BY <1>1 DEF RecoverAt, IsIdle, Holds, Settled
  <1>6. Phase'
    BY <1>3, <1>4, <1>5, StepsLeft DEF Inv, SyncDir, Do, Phase
  <1> QED
    BY <1>2, <1>6 DEF Inv

(* The rename is the moment of the switch: from then on a crash may leave   *)
(* either name.                                                             *)
LEMMA RenamePreserves == ASSUME Inv, Rename PROVE Inv'
  <1>1. /\ fs' \in Images /\ fs'.current = fs.updating /\ fs'.dirs = fs.dirs
        /\ fs'.updating = None
    BY DEF Inv, Types, Images, Rename
  <1>2. /\ UNCHANGED <<disk, dbdir, olddir, incoming, db, open, lastApplied, reader,
                       lastRead, seen>>
        /\ todo' = Tail(todo)
    BY DEF Rename, Do, UnchangedMemory, local, lookup
  <1>3. Types' /\ Named(disk.current)' /\ Reading'
    BY <1>1, <1>2 DEF Inv, Types, Named, Reading, Higher
  <1>4. CASE NewRunAt(2) /\ Tail(todo) = Left(NewRunSteps, 3)
    <2>1. NewRunAt(3)'
      BY <1>1, <1>2, <1>4 DEF NewRunAt
    <2>2. Named(fs.current)'
      BY <1>1, <1>2, <1>4, DiskKVAssumption DEF NewRunAt, Named
    <2> QED
      BY <1>3, <2>1, <2>2 DEF Inv, Phase
  <1>5. CASE RecoverAt(5) /\ Tail(todo) = Left(RecoverSteps, 6)
    <2>1. RecoverAt(6)'
      BY <1>1, <1>2, <1>5 DEF RecoverAt
    <2>2. Named(fs.current)'
      BY <1>1, <1>2, <1>5, DiskKVAssumption DEF RecoverAt, Named, Inv, Types
    <2> QED
      BY <1>3, <2>1, <2>2 DEF Inv, Phase
  <1> QED
    BY <1>4, <1>5, StepsLeft DEF Inv, Rename, Do

(* A new directory has a name of its own.                                   *)
LEMMA MakeDirPreserves == ASSUME Inv, MakeDir PROVE Inv'
  <1>1. dbdir \in Dirs /\ fs \in Images
    BY StepsLeft DEF Inv, MakeDir, Do, NewRunAt, RecoverAt, Types
  <1>2. /\ fs' \in Images /\ fs'.current = fs.current /\ fs'.updating = fs.updating
        /\ DOMAIN fs'.dirs = DOMAIN fs.dirs \cup {dbdir}
        /\ fs'.dirs[dbdir] = 0
        /\ \A e \in DOMAIN fs.dirs \ {dbdir} : fs'.dirs[e] = fs.dirs[e]
    BY <1>1, PutRemove DEF MakeDir
  <1>3. /\ UNCHANGED <<disk, dbdir, olddir, incoming, db, open, lastApplied, reader,
                       lastRead, seen>>
        /\ todo' = Tail(todo)
    BY DEF MakeDir, Do, UnchangedMemory, local, lookup
  <1>4. Types'
    BY <1>2, <1>3 DEF Inv, Types
  <1>5. CASE NewRunAt(4) /\ Tail(todo) = Left(NewRunSteps, 5)
    <2>1. NewRunAt(5)'
      BY <1>2, <1>3, <1>5 DEF NewRunAt
    <2>2. Named(fs.current)' /\ Named(disk.current)' /\ Reading'
      BY <1>2, <1>3, <1>5, DiskKVAssumption DEF NewRunAt, Named, Reading, Inv
    <2> QED
      BY <1>4, <2>1, <2>2 DEF Inv, Phase
  <1>6. CASE RecoverAt(0) /\ Tail(todo) = Left(RecoverSteps, 1)
    <2>1. RecoverAt(1)'
      BY <1>2, <1>3, <1>6 DEF RecoverAt
    <2>2. Named(fs.current)' /\ Named(disk.current)' /\ Reading'
      BY <1>2, <1>3, <1>6, DiskKVAssumption DEF RecoverAt, Named, Reading, Inv
    <2> QED
      BY <1>4, <2>1, <2>2 DEF Inv, Phase
  <1> QED
    BY <1>5, <1>6, StepsLeft DEF Inv, MakeDir, Do

(* cleanupNodeDataDir: the database in use is not among the leftovers.      *)
LEMMA CleanupPreserves ==
    ASSUME Inv, RemoveUpdating \/ RemoveLeftover \/ RemovedLeftovers
    PROVE  Inv'
  <1>0. /\ UNCHANGED <<disk, dbdir, olddir, incoming, db, open, lastApplied, reader,
                       lastRead, seen>>
    BY DEF RemoveUpdating, RemoveLeftover, RemovedLeftovers, UnchangedMemory, local, lookup
  <1>1. CASE RemoveUpdating
    <2>1. /\ fs' \in Images /\ fs'.current = fs.current /\ fs'.updating = None
          /\ fs'.dirs = fs.dirs /\ todo' = Tail(todo)
      BY <1>1 DEF Inv, Types, Images, RemoveUpdating, Do
    <2>2. Types' /\ Named(fs.current)' /\ Named(disk.current)' /\ Reading'
      BY <1>0, <2>1 DEF Inv, Types, Named, Reading, Higher
    <2>3. ReopenAt(0) /\ Tail(todo) = Left(ReopenSteps, 1)
      BY <1>1, StepsLeft DEF Inv, RemoveUpdating, Do
    <2>4. ReopenAt(1)'
      BY <1>0, <2>1, <2>3 DEF ReopenAt, Settled
    <2> QED
      BY <2>2, <2>4 DEF Inv, Phase
  <1>2. CASE RemoveLeftover
    <2>1. PICK d \in DOMAIN fs.dirs \ {fs.current} : fs' = Remove(fs, d)
      BY <1>2 DEF RemoveLeftover, Leftovers
    <2>2. d \in Dirs /\ fs \in Images
      BY DEF Inv, Types, Images
    <2>3. /\ fs' \in Images /\ fs'.current = fs.current /\ fs'.updating = fs.updating
          /\ DOMAIN fs'.dirs = DOMAIN fs.dirs \ {d}
          /\ \A e \in DOMAIN fs.dirs \ {d} : fs'.dirs[e] = fs.dirs[e]
      <3>1. 0 \in Int
        OBVIOUS
      <3> QED
        BY <2>1, <2>2, <3>1, PutRemove
    <2>4. ReopenAt(1) /\ todo' = todo
      BY <1>2, StepsLeft DEF Inv, RemoveLeftover
    <2>5. ReopenAt(1)'
      BY <1>0, <2>3, <2>4 DEF ReopenAt, Settled
    <2>6. Types' /\ Named(fs.current)' /\ Named(disk.current)' /\ Reading'
      BY <1>0, <2>3, <2>4 DEF Inv, Types, Named, Reading, ReopenAt, Settled
    <2> QED
      BY <2>5, <2>6 DEF Inv, Phase
  <1>3. CASE RemovedLeftovers
    <2>1. ReopenAt(1) /\ Tail(todo) = Left(ReopenSteps, 2)
      BY <1>3, StepsLeft DEF Inv, RemovedLeftovers, Do
    <2>2. fs' = fs /\ todo' = Tail(todo) /\ DOMAIN fs.dirs \subseteq {fs.current}
      BY <1>3 DEF RemovedLeftovers, Leftovers, Do
    <2>3. ReopenAt(2)'
      BY <1>0, <2>1, <2>2 DEF ReopenAt, Settled
    <2>4. Types' /\ Named(fs.current)' /\ Named(disk.current)' /\ Reading'
      BY <1>0, <2>2 DEF Inv, Types, Named, Reading
    <2> QED
      BY <2>3, <2>4 DEF Inv, Phase
  <1> QED
    BY <1>1, <1>2, <1>3

-----------------------------------------------------------------------------
(* An Open begins: with a fresh directory when there is no current file.    *)
LEMMA OpenPreserves == ASSUME Inv, Open PROVE Inv'
  <1>0. /\ UNCHANGED <<fs, disk, olddir, incoming, db, open, lastApplied, reader,
                       lastRead, seen>>
    BY DEF Open, UnchangedMemory, lookup
  <1>1. Types' /\ Named(fs.current)' /\ Named(disk.current)' /\ Reading'
    BY <1>0 DEF Inv, Types, Named, Reading
  <1>2. IsDown
    <2>1. todo = <<>> /\ db = None
      BY DEF Open, Down
    <2>2. ~IsIdle
      BY <2>1, DiskKVAssumption DEF IsIdle
    <2> QED
      BY <2>1, <2>2, NothingLeft DEF Inv
  <1>3. CASE fs.current = None
    <2>1. todo' = NewRunSteps /\ dbdir' \in Dirs
      BY <1>3 DEF Open, FreshDirs
    <2>2. NewRunSteps = Left(NewRunSteps, 0)
      BY ListLengths, SubSeqFull DEF Left
    <2>3. DOMAIN fs.dirs = {} /\ DOMAIN disk.dirs = {} /\ seen = -1
      BY <1>3 DEF Inv, Types, Named
    <2>4. NewRunAt(0)'
      BY <1>0, <1>2, <1>3, <2>1, <2>2, <2>3 DEF NewRunAt, IsDown, Settled
    <2> QED
      BY <1>1, <2>4 DEF Inv, Phase
  <1>4. CASE fs.current # None
    <2>1. todo' = ReopenSteps /\ dbdir' = fs.current
      BY <1>4 DEF Open
    <2>2. ReopenSteps = Left(ReopenSteps, 0)
      BY ListLengths, SubSeqFull DEF Left
    <2>3. fs.current \in Dirs
      BY <1>4 DEF Inv, Types, Images
    <2>4. ReopenAt(0)'
      BY <1>0, <1>2, <2>1, <2>2, <2>3 DEF ReopenAt, IsDown, Settled
    <2> QED
      BY <1>1, <2>4 DEF Inv, Phase
  <1> QED
    BY <1>3, <1>4

(* The check of the directory, which stops the Open or lets it go on.       *)
LEMMA StatPreserves == ASSUME Inv, StatDir \/ StatPanics PROVE Inv'
  <1>0. /\ UNCHANGED <<fs, disk, dbdir, olddir, incoming, db, open, lastApplied,
                       reader, lastRead, seen>>
    BY DEF StatDir, StatPanics, UnchangedMemory, local, lookup
  <1>1. Types' /\ Named(fs.current)' /\ Named(disk.current)' /\ Reading'
    BY <1>0 DEF Inv, Types, Named, Reading
  <1>2. ReopenAt(2) /\ Tail(todo) = Left(ReopenSteps, 3)
    BY StepsLeft DEF Inv, StatDir, StatPanics, Do
  <1>3. CASE StatDir
    <2>1. ReopenAt(3)'
      BY <1>0, <1>2, <1>3 DEF StatDir, Do, ReopenAt, Settled
    <2> QED
      BY <1>1, <2>1 DEF Inv, Phase
  <1>4. CASE StatPanics
    <2>1. IsDown'
      BY <1>0, <1>2, <1>4 DEF StatPanics, ReopenAt, IsDown, Settled
    <2> QED
      BY <1>1, <2>1 DEF Inv, Phase
  <1> QED
    BY <1>3, <1>4

(* The end of an Open.                                                      *)
LEMMA OpenDBPreserves == ASSUME Inv, OpenDB PROVE Inv'
  <1>0. /\ UNCHANGED <<fs, disk, dbdir, olddir, incoming, reader, lastRead>>
        /\ todo' = Tail(todo) /\ db' = dbdir /\ open' = {dbdir}
        /\ lastApplied' = Content(fs.dirs, dbdir)
        /\ seen' = Higher(seen, lastApplied')
    BY DEF OpenDB, Do, local, lookup
  <1>1. /\ Tail(todo) = <<>>
        /\ db = None /\ dbdir \in Dirs /\ fs.current = dbdir /\ disk.current = dbdir
        /\ fs.updating = None
        /\ DOMAIN fs.dirs = {dbdir} /\ dbdir \in DOMAIN disk.dirs
    <2>1. \/ NewRunAt(6) /\ Tail(todo) = <<>>
          \/ ReopenAt(3) /\ Tail(todo) = <<>>
      BY StepsLeft DEF Inv, OpenDB, Do
    <2>2. CASE NewRunAt(6) /\ Tail(todo) = <<>>
      BY <2>2 DEF NewRunAt
    <2>3. CASE ReopenAt(3) /\ Tail(todo) = <<>>
      BY <2>3 DEF ReopenAt, Settled
    <2> QED
      BY <2>1, <2>2, <2>3
  <1>2. /\ lastApplied' = fs.dirs[dbdir] /\ fs.dirs[dbdir] \in Int
        /\ fs.dirs[dbdir] >= 0 /\ fs.dirs[dbdir] >= seen
    BY <1>0, <1>1 DEF Content, Inv, Named, Types, Images
  <1>3. seen' = lastApplied'
    BY <1>0, <1>2 DEF Higher, Inv, Types
  <1>4. Types'
    BY <1>0, <1>1, <1>2, <1>3 DEF Inv, Types
  <1>5. Named(fs.current)' /\ Named(disk.current)'
    BY <1>0, <1>1, <1>2, <1>3 DEF Inv, Named
  <1>6. Reading'
    <2>1. lastRead <= lastApplied'
      BY <1>2 DEF Inv, Types, Reading, Higher
    <2> QED
      BY <1>0, <1>1, <1>2, <1>3, <2>1, DiskKVAssumption DEF Inv, Types, Reading, Higher
  <1>7. IsIdle'
    BY <1>0, <1>1, <1>2, <1>3 DEF IsIdle, Holds, Settled
  <1> QED
    BY <1>4, <1>5, <1>6, <1>7 DEF Inv, Phase

-----------------------------------------------------------------------------
(* A batch reaches the database in use, whose directory is durable.         *)
LEMMA IdleMeansIdle == ASSUME Inv, Idle PROVE IsIdle
  BY NothingLeft DEF Inv, Idle, IsDown

(* An update changes the database in use, and lets lookups see it.          *)
LEMMA UpdatePreserves == ASSUME Inv, Update PROVE Inv'
  <1>0. PICK index \in (lastApplied + 1)..MaxIndex :
            /\ Apply(db, index)
            /\ lastApplied' = index
            /\ seen' = Higher(seen, index)
    BY DEF Update
  <1>1. UNCHANGED <<todo, dbdir, olddir, incoming, db, open, reader, lastRead>>
    BY DEF Update, local, lookup
  <1>2. IsIdle
    BY IdleMeansIdle DEF Update
  <1>3. db \in Dirs /\ index \in Int /\ fs \in Images /\ disk \in Images
        /\ db \in DOMAIN disk.dirs
    BY <1>0, <1>2, DiskKVAssumption DEF IsIdle, Settled, Inv, Types, Holds
  <1>4. /\ fs' \in Images /\ fs'.current = fs.current /\ fs'.updating = fs.updating
        /\ DOMAIN fs'.dirs = DOMAIN fs.dirs \cup {db} /\ fs'.dirs[db] = index
    BY <1>0, <1>3, PutRemove DEF Apply
  <1>5. /\ disk' \in Images /\ disk'.current = disk.current
        /\ DOMAIN disk'.dirs = DOMAIN disk.dirs \cup {db}
    BY <1>0, <1>3, PutRemove DEF Apply
  <1>6. seen' = index /\ index >= lastApplied /\ seen = lastApplied /\ index >= 0
    BY <1>0, <1>2, <1>3 DEF IsIdle, Higher, Inv, Types
  <1>7. Types'
    BY <1>0, <1>1, <1>3, <1>4, <1>5, <1>6 DEF Inv, Types
  <1>8. IsIdle'
    BY <1>0, <1>1, <1>2, <1>4, <1>5, <1>6 DEF IsIdle, Holds, Settled
  <1>9. Named(fs.current)' /\ Named(disk.current)'
    BY <1>2, <1>3, <1>4, <1>5, <1>6, DiskKVAssumption DEF IsIdle, Holds, Settled, Named
  <1>10. Reading'
    BY <1>1, <1>2, <1>3, <1>4, <1>6, DiskKVAssumption
    DEF IsIdle, Holds, Reading, Inv, Types, Higher
  <1> QED
    BY <1>7, <1>8, <1>9, <1>10 DEF Inv, Phase

(* A recovery begins, in a directory that nothing else ever named.          *)
LEMMA RecoverPreserves == ASSUME Inv, RecoverFromSnapshot PROVE Inv'
  <1>0. /\ UNCHANGED <<fs, disk, db, open, lastApplied, reader, lastRead, seen>>
        /\ todo' = RecoverSteps /\ dbdir' \in FreshDirs /\ olddir' = fs.current
        /\ incoming' \in lastApplied..MaxIndex
    BY DEF RecoverFromSnapshot, UnchangedMemory, lookup
  <1>1. IsIdle
    BY IdleMeansIdle DEF RecoverFromSnapshot
  <1>2. incoming' \in Int /\ lastApplied <= incoming'
    BY <1>0, DiskKVAssumption DEF Inv, Types
  <1>3. Types' /\ Named(fs.current)' /\ Named(disk.current)' /\ Reading'
    BY <1>0, <1>2 DEF Inv, Types, Named, Reading
  <1>4. RecoverSteps = Left(RecoverSteps, 0)
    BY ListLengths, SubSeqFull DEF Left
  <1>5. RecoverAt(0)'
    BY <1>0, <1>1, <1>2, <1>4 DEF RecoverAt, IsIdle, Holds, Settled, FreshDirs
  <1> QED
    BY <1>3, <1>5 DEF Inv, Phase

(* The snapshot goes into the new directory.                                *)
LEMMA LoadSnapshotPreserves == ASSUME Inv, LoadSnapshot PROVE Inv'
  <1>0. /\ Apply(dbdir, incoming)
        /\ open' = open \cup {dbdir} /\ todo' = Tail(todo)
        /\ UNCHANGED <<dbdir, olddir, incoming, db, lastApplied, reader, lastRead, seen>>
    BY DEF LoadSnapshot, Do, local, lookup
  <1>1. RecoverAt(2) /\ Tail(todo) = Left(RecoverSteps, 3)
    BY StepsLeft DEF Inv, LoadSnapshot, Do
  <1>2. dbdir \in Dirs /\ incoming \in Int /\ fs \in Images /\ disk \in Images
        /\ dbdir \in DOMAIN disk.dirs
    BY <1>1 DEF RecoverAt, Inv, Types
  <1>3. /\ fs' \in Images /\ fs'.current = fs.current /\ fs'.updating = fs.updating
        /\ DOMAIN fs'.dirs = DOMAIN fs.dirs \cup {dbdir} /\ fs'.dirs[dbdir] = incoming
        /\ \A e \in DOMAIN fs.dirs \ {dbdir} : fs'.dirs[e] = fs.dirs[e]
    BY <1>0, <1>2, PutRemove DEF Apply
  <1>4. /\ disk' \in Images /\ disk'.current = disk.current
        /\ DOMAIN disk'.dirs = DOMAIN disk.dirs \cup {dbdir}
    BY <1>0, <1>2, PutRemove DEF Apply
  <1>5. Types'
    BY <1>0, <1>2, <1>3, <1>4 DEF Inv, Types
  <1>6. RecoverAt(3)'
    BY <1>0, <1>1, <1>3, <1>4 DEF RecoverAt
  <1>7. Named(fs.current)' /\ Named(disk.current)'
    BY <1>0, <1>1, <1>3, <1>4, DiskKVAssumption DEF RecoverAt, Named, Inv
  <1>8. Reading'
    BY <1>0, <1>1, <1>2, <1>3, DiskKVAssumption DEF RecoverAt, Reading, Inv, Types, Higher
  <1> QED
    BY <1>5, <1>6, <1>7, <1>8 DEF Inv, Phase

(* Lookups move to the new database, which has all that the old one had.    *)
LEMMA SwapDBPreserves == ASSUME Inv, SwapDB PROVE Inv'
  <1>0. /\ db' = dbdir /\ todo' = Tail(todo)
        /\ lastApplied' = Content(fs.dirs, dbdir)
        /\ seen' = Higher(seen, lastApplied')
        /\ UNCHANGED <<fs, disk, dbdir, olddir, incoming, open, reader, lastRead>>
    BY DEF SwapDB, Do, local, lookup
  <1>1. RecoverAt(7) /\ Tail(todo) = Left(RecoverSteps, 8)
    BY StepsLeft DEF Inv, SwapDB, Do
  <1>2. lastApplied' = incoming /\ seen' = incoming /\ seen <= incoming /\ incoming \in Int
        /\ incoming >= 0
    BY <1>0, <1>1 DEF RecoverAt, Content, Higher, Inv, Types
  <1>3. RecoverAt(8)'
    BY <1>0, <1>1, <1>2 DEF RecoverAt
  <1>4. Types'
    BY <1>0, <1>2 DEF Inv, Types
  <1>5. Named(fs.current)' /\ Named(disk.current)' /\ Reading'
    BY <1>0, <1>1, <1>2, DiskKVAssumption DEF RecoverAt, Named, Reading, Inv, Types, Higher
  <1> QED
    BY <1>3, <1>4, <1>5 DEF Inv, Phase

(* The old database is closed before its directory is removed.              *)
LEMMA CloseOldPreserves == ASSUME Inv, CloseOld PROVE Inv'
  <1>0. /\ open' = open \ {olddir} /\ todo' = Tail(todo)
        /\ UNCHANGED <<fs, disk, dbdir, olddir, incoming, db, lastApplied, reader,
                       lastRead, seen>>
    BY DEF CloseOld, Do, local, lookup
  <1>1. RecoverAt(8) /\ Tail(todo) = Left(RecoverSteps, 9)
    BY StepsLeft DEF Inv, CloseOld, Do
  <1>2. RecoverAt(9)'
    BY <1>0, <1>1 DEF RecoverAt
  <1>3. Types' /\ Named(fs.current)' /\ Named(disk.current)' /\ Reading'
    BY <1>0, <1>1, DiskKVAssumption DEF Inv, Types, Named, Reading, RecoverAt
  <1> QED
    BY <1>2, <1>3 DEF Inv, Phase

(* The old directory goes when nothing names it any more.                   *)
LEMMA RemoveOldPreserves == ASSUME Inv, RemoveOld PROVE Inv'
  <1>0. /\ fs' = Remove(fs, olddir) /\ todo' = Tail(todo)
        /\ UNCHANGED <<disk, dbdir, olddir, incoming, db, open, lastApplied, reader,
                       lastRead, seen>>
    BY DEF RemoveOld, Do, UnchangedMemory, local, lookup
  <1>1. RecoverAt(9) /\ Tail(todo) = Left(RecoverSteps, 10)
    BY StepsLeft DEF Inv, RemoveOld, Do
  <1>2. olddir \in Dirs /\ fs \in Images /\ 0 \in Int
    BY <1>1 DEF RecoverAt, Inv, Types
  <1>3. /\ fs' \in Images /\ fs'.current = fs.current /\ fs'.updating = fs.updating
        /\ DOMAIN fs'.dirs = DOMAIN fs.dirs \ {olddir}
        /\ \A e \in DOMAIN fs.dirs \ {olddir} : fs'.dirs[e] = fs.dirs[e]
    BY <1>0, <1>2, PutRemove
  <1>4. RecoverAt(10)'
    BY <1>0, <1>1, <1>3 DEF RecoverAt
  <1>5. Types' /\ Named(fs.current)' /\ Named(disk.current)' /\ Reading'
    BY <1>0, <1>1, <1>3, DiskKVAssumption DEF Inv, Types, Named, Reading, RecoverAt
  <1> QED
    BY <1>4, <1>5 DEF Inv, Phase

(* The calls that touch no file: a recovery that was stopped before it      *)
(* began, the two halves of a lookup, and the end of the replica.           *)
LEMMA StoppedPreserves == ASSUME Inv, RecoverStopped PROVE Inv'
  <1>1. UNCHANGED <<fs, disk, todo, dbdir, olddir, incoming, db, open, lastApplied,
                    reader, lastRead, seen>>
    BY DEF RecoverStopped, local, lookup
  <1>2. Types' /\ Named(fs.current)' /\ Named(disk.current)' /\ Reading'
    BY <1>1 DEF Inv, Types, Named, Reading
  <1>3. Phase'
    BY <1>1 DEF Inv, Phase, IsDown, IsIdle, NewRunAt, ReopenAt, RecoverAt, Settled, Holds
  <1> QED
    BY <1>2, <1>3 DEF Inv

(* The database that lookups are given is never behind the last of them.    *)
LEMMA InUse ==
    ASSUME Inv, db # None
    PROVE  /\ db \in open
           /\ db \in DOMAIN fs.dirs
           /\ fs.dirs[db] = seen
           /\ seen >= 0
  <1>1. CASE IsIdle
    BY <1>1 DEF IsIdle, Holds, Inv, Types
  <1>2. ASSUME NEW k \in 0..10, RecoverAt(k)
        PROVE  /\ db \in open /\ db \in DOMAIN fs.dirs /\ fs.dirs[db] = seen /\ seen >= 0
    <2>1. CASE k <= 7
      BY <1>2, <2>1 DEF RecoverAt, Inv, Types
    <2>2. CASE k >= 8
      BY <1>2, <2>2 DEF RecoverAt, Inv, Types
    <2> QED
      BY <2>1, <2>2
  <1> QED
    BY <1>1, <1>2 DEF Inv, Phase, IsDown, NewRunAt, ReopenAt

(* A lookup takes the database that is in use.                              *)
LEMMA LookupLoadPreserves == ASSUME Inv, LookupLoad PROVE Inv'
  <1>1. /\ UNCHANGED <<fs, disk, todo, dbdir, olddir, incoming, db, open, lastApplied,
                       lastRead, seen>>
        /\ reader' = db /\ db # None
    BY DEF LookupLoad, local
  <1>2. Types' /\ Named(fs.current)' /\ Named(disk.current)'
    BY <1>1 DEF Inv, Types, Named
  <1>3. Reading'
    BY <1>1, InUse DEF Inv, Types, Images, Reading, Higher
  <1>4. Phase'
    BY <1>1 DEF Inv, Phase, IsDown, IsIdle, NewRunAt, ReopenAt, RecoverAt, Settled, Holds
  <1> QED
    BY <1>2, <1>3, <1>4 DEF Inv

(* What is in a database that is open has been made visible.                *)
LEMMA AnswerIsSeen ==
    ASSUME Inv, LookupGet
    PROVE  lastRead' >= lastRead /\ lastRead' \in Int
  BY DEF Inv, Types, Images, Reading, LookupGet, Content, Partial

(* A lookup answers from the database it took, if that is still open.       *)
LEMMA LookupGetPreserves == ASSUME Inv, LookupGet PROVE Inv'
  <1>1. /\ UNCHANGED <<fs, disk, todo, dbdir, olddir, incoming, db, open, lastApplied, seen>>
        /\ reader # None /\ reader' = None
        /\ lastRead' = IF reader \in open THEN Content(fs.dirs, reader) ELSE lastRead
    BY DEF LookupGet, local
  <1>2. lastRead' \in Nat /\ lastRead' <= Higher(seen, 0)
    BY <1>1, AnswerIsSeen DEF Inv, Types, Images, Reading, Content, Higher
  <1>3. Types' /\ Named(fs.current)' /\ Named(disk.current)'
    BY <1>1, <1>2 DEF Inv, Types, Named
  <1>4. Reading'
    BY <1>1, <1>2, DiskKVAssumption DEF Inv, Reading, Types
  <1>5. Phase'
    BY <1>1, DiskKVAssumption
    DEF Inv, Phase, IsDown, IsIdle, NewRunAt, ReopenAt, RecoverAt, Settled, Holds
  <1> QED
    BY <1>3, <1>4, <1>5 DEF Inv

(* The end of the replica leaves its files settled.                         *)
LEMMA ClosePreserves == ASSUME Inv, Close PROVE Inv'
  <1>1. /\ UNCHANGED <<fs, disk, todo, lastRead, seen, dbdir, olddir, incoming>>
        /\ db' = None /\ open' = {} /\ lastApplied' = 0 /\ reader' = None
        /\ todo = <<>>
    BY DEF Close, Idle, local
  <1>2. IsIdle
    BY IdleMeansIdle DEF Close
  <1>3. IsDown'
    BY <1>1, <1>2 DEF IsDown, IsIdle, Settled
  <1>4. Types' /\ Named(fs.current)' /\ Named(disk.current)' /\ Reading'
    BY <1>1 DEF Inv, Types, Named, Reading
  <1> QED
    BY <1>3, <1>4 DEF Inv, Phase

-----------------------------------------------------------------------------
(* What a crash leaves: the current name is the one of the process or of    *)
(* the disk, and a directory that both have is whole.                       *)
LEMMA ImageOfCrash ==
    ASSUME fs \in Images, disk \in Images, NEW image \in CrashImages
    PROVE  /\ image \in Images
           /\ image.current \in {fs.current, disk.current}
           /\ DOMAIN fs.dirs \cap DOMAIN disk.dirs \subseteq DOMAIN image.dirs
           /\ DOMAIN image.dirs \subseteq DOMAIN fs.dirs \cup DOMAIN disk.dirs
           /\ \A d \in DOMAIN image.dirs \cap DOMAIN fs.dirs : image.dirs[d] = fs.dirs[d]
  <1> DEFINE kept == DOMAIN fs.dirs \cap DOMAIN disk.dirs
             created == DOMAIN fs.dirs \ DOMAIN disk.dirs
             removed == DOMAIN disk.dirs \ DOMAIN fs.dirs
             Mixed(S, P) == [d \in kept \cup S |->
                                IF d \in DOMAIN fs.dirs THEN fs.dirs[d]
                                ELSE IF d \in P THEN Partial ELSE disk.dirs[d]]
  <1>1. PICK f \in {fs, disk}, S \in SUBSET (created \cup removed),
             P \in SUBSET removed :
                image = [current |-> f.current, updating |-> f.updating,
                         dirs |-> Mixed(S, P)]
    <2> DEFINE Image(f, S, P) == [current |-> f.current, updating |-> f.updating,
                                  dirs |-> Mixed(S, P)]
    <2>1. CrashImages = {Image(f, S, P) : f \in {fs, disk},
                             S \in SUBSET (created \cup removed), P \in SUBSET removed}
      BY DEF CrashImages
    <2> HIDE DEF Image
    <2>2. \E f \in {fs, disk}, S \in SUBSET (created \cup removed),
             P \in SUBSET removed : image = Image(f, S, P)
      BY <2>1
    <2> QED
      BY <2>2 DEF Image
  <1>2. PICK A \in SUBSET Dirs : fs.dirs \in [A -> Int]
    BY DEF Images
  <1>3. PICK B \in SUBSET Dirs : disk.dirs \in [B -> Int]
    BY DEF Images
  <1>4. Mixed(S, P) \in [kept \cup S -> Int]
    BY <1>2, <1>3 DEF Partial
  <1>5. kept \cup S \in SUBSET Dirs
    BY <1>2, <1>3
  <1>6. Mixed(S, P) \in UNION {[T -> Int] : T \in SUBSET Dirs}
    BY <1>4, <1>5
  <1>7. /\ DOMAIN Mixed(S, P) = kept \cup S
        /\ \A d \in (kept \cup S) \cap DOMAIN fs.dirs : Mixed(S, P)[d] = fs.dirs[d]
    OBVIOUS
  <1> HIDE DEF Mixed
  <1>8. image \in Images
    BY <1>1, <1>6 DEF Images
  <1>9. image.current \in {fs.current, disk.current} /\ image.dirs = Mixed(S, P)
    BY <1>1
  <1> QED
    BY <1>7, <1>8, <1>9

(* A crash between any two steps.                                           *)
LEMMA CrashPreserves == ASSUME Inv, Crash PROVE Inv'
  <1>1. /\ fs' \in CrashImages /\ disk' = fs'
        /\ todo' = <<>> /\ db' = None /\ open' = {} /\ lastApplied' = 0
        /\ reader' = None
        /\ UNCHANGED <<dbdir, olddir, incoming, lastRead, seen>>
    BY DEF Crash, local
  <1>2. /\ fs' \in Images
        /\ fs'.current \in {fs.current, disk.current}
        /\ DOMAIN fs.dirs \cap DOMAIN disk.dirs \subseteq DOMAIN fs'.dirs
        /\ DOMAIN fs'.dirs \subseteq DOMAIN fs.dirs \cup DOMAIN disk.dirs
        /\ \A d \in DOMAIN fs'.dirs \cap DOMAIN fs.dirs : fs'.dirs[d] = fs.dirs[d]
    BY <1>1, ImageOfCrash DEF Inv, Types
  <1>3. Types' /\ Reading'
    BY <1>1, <1>2 DEF Inv, Types, Reading, Higher
  <1>4. IsDown'
    BY <1>1 DEF IsDown, Settled
  <1>5. Named(fs.current)' /\ Named(disk.current)'
    BY <1>1, <1>2 DEF Inv, Named
  <1> QED
    BY <1>3, <1>4, <1>5 DEF Inv, Phase

-----------------------------------------------------------------------------
(* A directory with nothing in it.                                          *)
LEMMA InvAtStart == ASSUME Init PROVE Inv
  <1>1. /\ fs = Empty /\ disk = Empty /\ todo = <<>> /\ db = None /\ open = {}
        /\ incoming = 0 /\ lastApplied = 0 /\ reader = None /\ lastRead = 0 /\ seen = -1
    BY DEF Init
  <1>2. Empty \in Images /\ Empty.current = None /\ DOMAIN Empty.dirs = {}
    <2>1. [d \in {} |-> 0] \in [{} -> Int] /\ {} \in SUBSET Dirs
      OBVIOUS
    <2>2. [d \in {} |-> 0] \in UNION {[S -> Int] : S \in SUBSET Dirs}
      BY <2>1
    <2> QED
      BY <2>2 DEF Empty, Images
  <1> QED
    BY <1>1, <1>2 DEF Inv, Types, Named, Reading, Higher, Phase, IsDown, Settled

(* All the steps together.                                                  *)
LEMMA InvKept == ASSUME Inv, [Next]_vars PROVE Inv'
  <1>1. CASE UNCHANGED vars
    BY <1>1 DEF vars, local, lookup, Inv, Types, Named, Reading, Phase, IsDown, IsIdle,
                NewRunAt, ReopenAt, RecoverAt, Settled, Holds
  <1>2. CASE Step
    BY <1>2, WriteNamePreserves, SyncDirPreserves, RenamePreserves, MakeDirPreserves,
       CleanupPreserves, StatPreserves, OpenDBPreserves, LoadSnapshotPreserves,
       SwapDBPreserves, CloseOldPreserves, RemoveOldPreserves DEF Step
  <1> QED
    BY <1>1, <1>2, OpenPreserves, UpdatePreserves, StoppedPreserves, RecoverPreserves,
       LookupLoadPreserves, LookupGetPreserves, ClosePreserves, CrashPreserves DEF Next

(* The inductive invariant: the files, step by step, of every Open and      *)
(* every recovery (tests/diskkv.go).                                        *)
LEMMA Invariant == Spec => []Inv
  <1>1. Init => Inv
    BY InvAtStart
  <1>2. Inv /\ [Next]_vars => Inv'
    BY InvKept
  <1> QED
    BY <1>1, <1>2, PTL DEF Spec

-----------------------------------------------------------------------------
(* Nothing that was visible outside is lost by a crash at any moment, in    *)
(* the middle of a switch too: the rename in replaceCurrentDBFile comes     *)
(* after the new database was filled and synced, and the old one is removed *)
(* only after the rename was synced (tests/diskkv.go, RecoverFromSnapshot). *)
THEOREM NothingSeenIsLostHolds == Spec => []NothingSeenIsLost
  <1>1. Inv => NothingSeenIsLost
    <2> SUFFICES ASSUME Inv, seen >= 0, NEW image \in CrashImages
                 PROVE  Content(image.dirs, image.current) >= seen
      BY DEF NothingSeenIsLost
    <2>1. /\ image.current \in {fs.current, disk.current}
          /\ DOMAIN fs.dirs \cap DOMAIN disk.dirs \subseteq DOMAIN image.dirs
          /\ \A d \in DOMAIN image.dirs \cap DOMAIN fs.dirs : image.dirs[d] = fs.dirs[d]
      BY ImageOfCrash DEF Inv, Types
    <2> QED
      BY <2>1 DEF Inv, Named, Content
  <1> QED
    BY <1>1, Invariant, PTL

(* Between calls the directory holds the database in use and nothing else:  *)
(* cleanupNodeDataDir and the RemoveAll of RecoverFromSnapshot leave no     *)
(* directory and no name behind, whatever crashes left (tests/diskkv.go).   *)
THEOREM OnlyTheDBInUseHolds == Spec => []OnlyTheDBInUse
  <1>1. Inv => OnlyTheDBInUse
    <2> SUFFICES ASSUME Inv, Idle
                 PROVE  /\ fs = Put([Empty EXCEPT !.current = db], db, lastApplied)
                        /\ open = {db}
      BY DEF OnlyTheDBInUse
    <2>1. IsIdle
      BY IdleMeansIdle
    <2>2. fs = [current |-> fs.current, updating |-> fs.updating, dirs |-> fs.dirs]
      BY DEF Inv, Types, Images
    <2>3. fs.dirs = [e \in {db} |-> lastApplied]
      BY <2>1 DEF IsIdle, Holds, Inv, Types, Images
    <2>4. Put([Empty EXCEPT !.current = db], db, lastApplied)
             = [current |-> db, updating |-> None, dirs |-> [e \in {db} |-> lastApplied]]
      <3> DEFINE named == [Empty EXCEPT !.current = db]
                 dirs == [e \in DOMAIN named.dirs \cup {db} |->
                             IF e = db THEN lastApplied ELSE named.dirs[e]]
      <3>1. /\ named = [current |-> db, updating |-> None, dirs |-> [d \in {} |-> 0]]
            /\ DOMAIN named.dirs = {}
        BY DEF Empty
      <3>2. dirs = [e \in {db} |-> lastApplied]
        BY <3>1
      <3>3. Put(named, db, lastApplied) = [named EXCEPT !.dirs = dirs]
        BY DEF Put
      <3> HIDE DEF dirs, named
      <3>4. [named EXCEPT !.dirs = dirs] = [current |-> db, updating |-> None, dirs |-> dirs]
        BY <3>1
      <3> QED
        BY <3>2, <3>3, <3>4 DEF named
    <2> QED
      BY <2>1, <2>2, <2>3, <2>4 DEF IsIdle, Holds
  <1> QED
    BY <1>1, Invariant, PTL

(* A lookup never answers from a state older than the one before it, beside *)
(* a recovery and across crashes: Lookup loads the pointer that SwapPointer *)
(* moves on, and a database that was closed answers with an error.          *)
THEOREM ReadsGoForwardHolds == Spec => ReadsGoForward
  <1>1. Inv /\ [Next]_vars => [lastRead' >= lastRead]_lastRead
    <2> SUFFICES ASSUME Inv, Next, lastRead' # lastRead PROVE lastRead' >= lastRead
      BY DEF vars, lookup
    <2>1. LookupGet
      BY DEF Next, Step, Open, Update, RecoverStopped, RecoverFromSnapshot, LookupLoad,
             Close, Crash, WriteName, SyncDir, Rename, MakeDir, RemoveUpdating,
             RemoveLeftover, RemovedLeftovers, StatDir, StatPanics, OpenDB, LoadSnapshot,
             SwapDB, CloseOld, RemoveOld, UnchangedMemory, lookup
    <2> QED
      BY <2>1, AnswerIsSeen
  <1> QED
    BY <1>1, Invariant, PTL DEF Spec, ReadsGoForward
=============================================================================
