------------------------------- MODULE PidLock -------------------------------
(***************************************************************************)
(* pidfile_acquire() and pidfile_release() (pid_lock.cpp), called by the   *)
(* camerad processes of one host: daemons that start and terminate, and    *)
(* "camerad -q", which acquires the file only to find out who has it       *)
(* (main() of camerad.cpp).                                                *)
(*                                                                         *)
(* The file system is a path that names an inode or none, and per inode    *)
(* its content and the process whose lockf() lock it has.  A process that  *)
(* dies loses its lock and leaves the file.  Each system call is a step.   *)
(* The names begin with Lock where Daemon, which runs under this lock, has *)
(* the same.                                                               *)
(***************************************************************************)
EXTENDS Naturals, FiniteSets

CONSTANTS Procs,
          Inodes,      \* bound: files that exist at one time
          None,        \* no inode, no owner, no pid
          Garbage      \* a pid that was not written by a process of this host

ASSUME PidLockAssumption ==
    /\ None \notin Procs /\ None \notin Inodes /\ Garbage \notin Procs /\ None # Garbage
    /\ IsFiniteSet(Procs)

VARIABLES
    path,     \* the inode the path names
    content,  \* the pid in each inode
    owner,    \* the process that has locked each inode
    pc,       \* where each process is
    fd,       \* the inode it has open
    pid,      \* *pidptr, when EEXIST is returned
    kept      \* history: the path has never been unlinked

lockVars == <<path, content, owner, pc, fd, pid, kept>>

(* Where a process has acquired the lock and not yet released it.          *)
Locked == {"locked", "truncated", "written", "running", "unlink", "unlock"}

(* Types, and that a process that has acquired the lock still has it.      *)
LockTypeOK ==
    /\ path \in Inodes \union {None}
    /\ content \in [Inodes -> Procs \union {None, Garbage}]
    /\ owner \in [Inodes -> Procs \union {None}]
    /\ pc \in [Procs -> {"off", "opened", "locked", "truncated", "written", "running",
                         "unlink", "unlock", "read", "exists"}]
    /\ fd \in [Procs -> Inodes \union {None}]
    /\ pid \in [Procs -> Procs \union {None, Garbage}]
    /\ kept \in BOOLEAN
    /\ \A p \in Procs : pc[p] \in Locked => fd[p] # None /\ owner[fd[p]] = p

LockInit ==
    /\ path = None
    /\ content = [i \in Inodes |-> None] /\ owner = [i \in Inodes |-> None]
    /\ pc = [p \in Procs |-> "off"] /\ fd = [p \in Procs |-> None]
    /\ pid = [p \in Procs |-> None] /\ kept = TRUE

Goto(p, l) == pc' = [pc EXCEPT ![p] = l]

-----------------------------------------------------------------------------
(* pidfile_acquire() *)

(* open(path, O_WRONLY | O_CREAT): the file at the path, or a new one.     *)
Open(p) ==
    /\ pc[p] = "off"
    /\ \E i \in Inodes :
           /\ \/ i = path /\ UNCHANGED content
              \/ /\ path = None /\ \A q \in Procs : fd[q] # i
                 /\ content' = [content EXCEPT ![i] = None]
           /\ path' = i
           /\ fd' = [fd EXCEPT ![p] = i]
    /\ Goto(p, "opened")
    /\ pid' = [pid EXCEPT ![p] = None]
    /\ UNCHANGED <<owner, kept>>

(* MUTANT: the lock is assumed to be free.                                 *)
CanLockAlways(p) == TRUE

CanLock(p) == owner[fd[p]] = None

(* MUTANT: F_LOCK in place of F_TLOCK: the call blocks.                    *)
LockRefusedNever(p) == FALSE

LockRefused(p) == owner[fd[p]] # None

(* lockf(fd, F_TLOCK, 0).                                                  *)
Lock(p) ==
    /\ pc[p] = "opened" /\ CanLock(p)
    /\ owner' = [owner EXCEPT ![fd[p]] = p]
    /\ Goto(p, "locked")
    /\ UNCHANGED <<path, content, fd, pid, kept>>

LockFails(p) ==
    /\ pc[p] = "opened" /\ LockRefused(p)
    /\ fd' = [fd EXCEPT ![p] = None]
    /\ Goto(p, "read")
    /\ UNCHANGED <<path, content, owner, pid, kept>>

(* ftruncate(fd, 0).                                                       *)
Truncate(p) ==
    /\ pc[p] = "locked"
    /\ content' = [content EXCEPT ![fd[p]] = None]
    /\ Goto(p, "truncated")
    /\ UNCHANGED <<path, owner, fd, pid, kept>>

WritePid(p) ==
    /\ pc[p] = "truncated"
    /\ content' = [content EXCEPT ![fd[p]] = p]
    /\ Goto(p, "written")
    /\ UNCHANGED <<path, owner, fd, pid, kept>>

(* A system call after lockf() fails: bail_2.                              *)
AcquireFails(p) ==
    /\ pc[p] \in {"locked", "truncated"}
    /\ Goto(p, "unlink")
    /\ UNCHANGED <<path, content, owner, fd, pid, kept>>

(* pidfile_read(): ENOENT if the path is gone; the buffer is parsed even   *)
(* if nothing was read into it.                                            *)
ReadPid(p) ==
    /\ pc[p] = "read"
    /\ IF path = None THEN Goto(p, "off") /\ UNCHANGED pid
       ELSE /\ Goto(p, "exists")
            /\ pid' = [pid EXCEPT ![p] = IF content[path] = None THEN Garbage
                                                                 ELSE content[path]]
    /\ UNCHANGED <<path, content, owner, fd, kept>>

-----------------------------------------------------------------------------
(* main() *)

(* The daemon runs.                                                        *)
RunDaemon(p) ==
    /\ pc[p] = "written"
    /\ Goto(p, "running")
    /\ UNCHANGED <<path, content, owner, fd, pid, kept>>

(* The daemon is terminated, or "camerad -q" got the lock itself.          *)
Finish(p) ==
    /\ pc[p] \in {"written", "running"}
    /\ Goto(p, "unlink")
    /\ UNCHANGED <<path, content, owner, fd, pid, kept>>

(* EEXIST is reported; the process exits, -q after a kill(pid, SIGTERM).   *)
GiveUp(p) ==
    /\ pc[p] = "exists"
    /\ Goto(p, "off")
    /\ UNCHANGED <<path, content, owner, fd, pid, kept>>

(* pidfile_release(): unlink(path), then F_ULOCK and close().              *)
Unlink(p) ==
    /\ pc[p] = "unlink"
    /\ path' = None /\ kept' = FALSE
    /\ Goto(p, "unlock")
    /\ UNCHANGED <<content, owner, fd, pid>>

Unlock(p) ==
    /\ pc[p] = "unlock"
    /\ owner' = [owner EXCEPT ![fd[p]] = None]
    /\ fd' = [fd EXCEPT ![p] = None]
    /\ Goto(p, "off")
    /\ UNCHANGED <<path, content, pid, kept>>

(* The process dies: its locks go, the file stays.                         *)
Crash(p) ==
    /\ pc[p] # "off"
    /\ owner' = [i \in Inodes |-> IF owner[i] = p THEN None ELSE owner[i]]
    /\ fd' = [fd EXCEPT ![p] = None]
    /\ Goto(p, "off")
    /\ UNCHANGED <<path, content, pid, kept>>

-----------------------------------------------------------------------------
Acquire(p) ==
    Lock(p) \/ LockFails(p) \/ Truncate(p) \/ WritePid(p) \/ AcquireFails(p) \/ ReadPid(p)

Step(p) ==
    \/ Open(p) \/ Acquire(p) \/ RunDaemon(p) \/ Finish(p) \/ GiveUp(p)
    \/ Unlink(p) \/ Unlock(p) \/ Crash(p)

LockNext == \E p \in Procs : Step(p)

LockSpec == LockInit /\ [][LockNext]_lockVars

(* A process inside the two functions runs on.                             *)
LockFairness == \A p \in Procs : WF_lockVars(Acquire(p)) /\ WF_lockVars(Unlink(p) \/ Unlock(p))

LockFairSpec == LockSpec /\ LockFairness

-----------------------------------------------------------------------------
Daemons == {p \in Procs : pc[p] = "running"}

(* At most one daemon runs, whatever stale file earlier processes have     *)
(* left and wherever they died, until a process releases the file          *)
(* ("to ensure there is atmost one instance", pid_lock.h:37).              *)
AtMostOneIfKept == kept => Cardinality(Daemons) <= 1

(* pidfile_acquire() is a try-lock: it never waits for another process.    *)
AcquireEnds ==
    \A p \in Procs : pc[p] = "opened" ~> pc[p] \in {"written", "running", "unlink", "exists", "off"}

-----------------------------------------------------------------------------
(* A statement of the source that the code does not live up to.            *)

(* "operations to ensure there is atmost one instance of the daemon        *)
(* process on this host" (pid_lock.h:37).                                  *)
AtMostOne == Cardinality(Daemons) <= 1
=============================================================================
