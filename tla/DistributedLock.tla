-------------------------- MODULE DistributedLock --------------------------
(***************************************************************************)
(* NSDistributedLock (Source/NSDistributedLock.m): a lock for several      *)
(* processes that is a directory in the file system.  Whoever makes the    *)
(* directory has the lock and remembers its modification date, to see      *)
(* later whether the lock was broken and taken by another.                 *)
(*                                                                         *)
(* Every call of NSFileManager on the path is one step, so the objects'    *)
(* calls interleave; one object's methods exclude each other (_localLock). *)
(* The directory's parent exists and stays writable, as -initWithPath:     *)
(* requires.  A process may die at any point: its object then takes no     *)
(* step any more, and a new process has an object of its own.              *)
(***************************************************************************)
EXTENDS Naturals

CONSTANTS
    Objects,     \* the NSDistributedLock objects for one path
    Unlockers,   \* those whose users release the lock
    Breakers,    \* those whose users call breakLock
    MaxDate,     \* bound on the clock
    Absent       \* no date

ASSUME DistributedAssumption ==
    /\ Unlockers \subseteq Objects
    /\ Breakers \subseteq Objects
    /\ MaxDate \in Nat
    /\ Absent \notin Objects \cup Nat

VARIABLES
    dir,         \* the modification date of the directory, Absent if there is none
    now,         \* the date a file would get now
    lockTime,    \* _lockTime of each object
    stage        \* what each object is about to ask of the file system

distributedVars == <<dir, now, lockTime, stage>>

DistributedInit ==
    /\ dir = Absent
    /\ now = 0
    /\ lockTime = [o \in Objects |-> Absent]
    /\ stage = [o \in Objects |-> "idle"]

GoTo(o, next) == stage' = [stage EXCEPT ![o] = next]

\* -tryLock when the object has not got the lock.  createDirectoryAtPath:
\* attributes: first looks whether the path exists ...
TryLock(o) ==
    /\ stage[o] = "idle"
    /\ lockTime[o] = Absent
    /\ GoTo(o, IF dir = Absent THEN "make" ELSE "check")
    /\ UNCHANGED <<dir, now, lockTime>>

\* ... then makes the directory, unless another has done so in between.
MakeDirectory(o, from, made, failed) ==
    /\ stage[o] = from
    /\ IF dir = Absent
       THEN dir' = now /\ GoTo(o, made)
       ELSE UNCHANGED dir /\ GoTo(o, failed)
    /\ UNCHANGED <<now, lockTime>>

\* ... and sets its permissions, which fails when it is gone.
SetAttributes(o, from, failed) ==
    /\ stage[o] = from
    /\ GoTo(o, IF dir # Absent THEN "date" ELSE failed)
    /\ UNCHANGED <<dir, now, lockTime>>

\* The directory was not made.  If it is not there, it is made once more.
CheckExists(o) ==
    /\ stage[o] = "check"
    /\ GoTo(o, IF dir # Absent THEN "idle" ELSE "again")
    /\ UNCHANGED <<dir, now, lockTime>>

\* createDirectoryAtPath:withIntermediateDirectories: is content with a
\* directory that exists.
MakePath(o) ==
    /\ stage[o] = "again"
    /\ GoTo(o, IF dir # Absent THEN "date" ELSE "look")
    /\ UNCHANGED <<dir, now, lockTime>>

\* It makes one that does not exist with createDirectoryAtPath:attributes:.
LookAgain(o) ==
    /\ stage[o] = "look"
    /\ GoTo(o, IF dir # Absent THEN "idle" ELSE "remake")
    /\ UNCHANGED <<dir, now, lockTime>>

\* The end of -tryLock: the date is remembered, or the directory has gone and
\* an exception is raised.
ReadDate(o) ==
    /\ stage[o] = "date"
    /\ lockTime' = [lockTime EXCEPT ![o] = dir]
    /\ GoTo(o, "idle")
    /\ UNCHANGED <<dir, now>>

TryLockStep(o) ==
    \/ MakeDirectory(o, "make", "attributes", "check")
    \/ SetAttributes(o, "attributes", "check")
    \/ CheckExists(o)
    \/ MakePath(o)
    \/ LookAgain(o)
    \/ MakeDirectory(o, "remake", "reattributes", "idle")
    \/ SetAttributes(o, "reattributes", "idle")
    \/ ReadDate(o)

\* Variant: only a directory that is older than the object's is left alone.
UnlockDirectory_Later(o) ==
    /\ stage[o] = "idle"
    /\ lockTime[o] # Absent
    /\ lockTime' = [lockTime EXCEPT ![o] = Absent]
    /\ GoTo(o, IF dir # Absent /\ dir # lockTime[o] THEN "remove" ELSE "idle")
    /\ UNCHANGED <<dir, now>>

\* -unlock of an object that has the lock.  It raises if the directory is gone
\* or bears another date.
UnlockDirectory(o) ==
    /\ stage[o] = "idle"
    /\ lockTime[o] # Absent
    /\ lockTime' = [lockTime EXCEPT ![o] = Absent]
    /\ GoTo(o, IF dir = lockTime[o] THEN "remove" ELSE "idle")
    /\ UNCHANGED <<dir, now>>

\* -breakLock, of any lock.
BreakLock(o) ==
    /\ stage[o] = "idle"
    /\ lockTime' = [lockTime EXCEPT ![o] = Absent]
    /\ GoTo(o, IF dir # Absent THEN "remove" ELSE "idle")
    /\ UNCHANGED <<dir, now>>

\* removeFileAtPath:handler:, whatever directory is there now.
RemoveDirectory(o) ==
    /\ stage[o] = "remove"
    /\ dir' = Absent
    /\ GoTo(o, "idle")
    /\ UNCHANGED <<now, lockTime>>

Tick ==
    /\ now < MaxDate
    /\ now' = now + 1
    /\ UNCHANGED <<dir, lockTime, stage>>

DistributedNext ==
    \/ \E o \in Objects : TryLock(o) \/ TryLockStep(o) \/ RemoveDirectory(o)
    \/ \E o \in Unlockers : UnlockDirectory(o)
    \/ \E o \in Breakers : BreakLock(o)
    \/ Tick

DistributedSpec == DistributedInit /\ [][DistributedNext]_distributedVars

-----------------------------------------------------------------------------
DistributedTypeOK ==
    /\ dir \in 0..MaxDate \cup {Absent}
    /\ now \in 0..MaxDate
    /\ lockTime \in [Objects -> 0..MaxDate \cup {Absent}]
    /\ stage \in [Objects -> {"idle", "make", "attributes", "check", "again", "look",
                              "remake", "reattributes", "date", "remove"}]

Holds(o) == lockTime[o] # Absent

\* The test Tests/base/NSDistributedLock/basic.m:25 says "the locks are
\* exclusive": two objects do not have the lock at the same time.
Exclusive == \A o, p \in Objects : Holds(o) /\ Holds(p) => o = p

\* An object that has the directory, or will have it or remove it.
Answers(o) ==
    \/ lockTime[o] = dir
    \/ stage[o] \in {"attributes", "reattributes", "date", "remove"}

\* A directory that exists is somebody's: no interleaving of -tryLock, -unlock
\* and -breakLock leaves one behind that nobody knows to be his own and would
\* ever remove, which would lock everybody out (NSDistributedLock.m:218, 301).
NoOrphan == dir # Absent => \E o \in Objects : Answers(o)
=============================================================================
