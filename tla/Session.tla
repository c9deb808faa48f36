------------------------------ MODULE Session ------------------------------
(***************************************************************************)
(* The shared session of one human uid, as the root helper                 *)
(* (helper-rs/src/main.rs) and the crash cleanup (src/veracage/cleanup.py) *)
(* build it, extend it and tear it down.                                   *)
(*                                                                         *)
(* A helper RUN is one execution of veracage-helper under pkexec.  It may  *)
(* open a container, bring up an empty session or close one volume.  A run *)
(* is a parent process and, after its fork, a child; a run that opens is   *)
(* also a systemd unit whose ExecStopPost runs the cleanup once, after the *)
(* parent has ended.  A run generates one device name and one generation   *)
(* nonce at most, both random, so the run itself stands for its device     *)
(* name, for its generation and for the pid of its child.                  *)
(*                                                                         *)
(* What the processes share: the flock on session-<sid>.flock, the lock    *)
(* file session-<sid>.lock (a generation and one line per device), the     *)
(* pidfile session-<sid>.pid, and the kernel's dm-crypt devices.           *)
(***************************************************************************)

CONSTANTS
    Helper,      \* the helper runs that happen, each at most once
    Source,      \* the encrypted containers, told apart by dev:ino
    NoSource,    \* the container of a run that opens none
    None,        \* no run: an absent pidfile, generation, session or target
    Outwaits,    \* the kinds of process that may hold the flock for longer
                 \* than FLOCK_WAIT, so that a cleanup goes on without it
    KillPhases   \* the phases in which a parent process may be SIGKILLed

ParentPhase ==
    {"off",
     "recover", "create", "fork", "pidfile", "serve",       \* a bootstrap
     "relock", "close", "unlinkAll", "unlinkPid",
     "addCheck", "addFork", "addWait",                      \* an add-volume
     "cvWait",                                              \* a close-volume
     "done", "killed", "left"}

ChildPhase ==
    {"none", "setup", "join", "joined", "opened", "mounted", "leader",
     "cvJoin", "cvAsk", "cvUmount", "cvClose", "cvUnlist",
     "zombie", "failed", "ok", "gone"}

CleanupPhase == {"off", "check", "close", "unlink", "done"}

ASSUME SessionAssumption ==
    /\ NoSource \notin Source
    /\ None \notin Helper
    /\ Outwaits \subseteq {"parent", "child", "cleanup"}
    /\ KillPhases \subseteq ParentPhase \ {"off", "done", "killed", "left"}

VARIABLES
    pc,       \* the phase of each run's parent process
    child,    \* the phase of each run's child process
    cl,       \* the phase of each unit's ExecStopPost cleanup
    src,      \* the container each run opens
    ses,      \* the bootstrap run whose namespace a run works in
    tgt,      \* the device a close-volume run is closing
    carry,    \* devices a bootstrap could not close and carries over
    snap,     \* the devices a cleanup read from the lock
    flock,    \* the processes holding a copy of the locked flock descriptor
    lock,     \* the session lock file
    pidfile,  \* the run whose child the pidfile names
    dm,       \* the devices in /dev/mapper: a key in RAM for each
    mounted,  \* the devices mounted in their session's namespace
    held      \* the devices some sandboxed app's own namespace holds

runVars  == <<src, ses, tgt, carry, snap>>
fileVars == <<lock, pidfile>>
devVars  == <<dm, mounted, held>>
vars == <<pc, child, cl, src, ses, tgt, carry, snap, flock, lock, pidfile,
          dm, mounted, held>>

-----------------------------------------------------------------------------
(* The processes that can hold the flock descriptor, and the lock file.    *)

Parent(h)  == <<h, "parent">>
Child(h)   == <<h, "child">>
Cleanup(h) == <<h, "cleanup">>

\* Mutant of NoLock: no generation is ever recorded.
NoLockHeaderless == [there |-> FALSE, lines |-> {}]

NoLock == [there |-> FALSE, gen |-> None, lines |-> {}]

\* The child is a running process, so its namespace exists.
Running == {"setup", "join", "joined", "opened", "mounted", "leader",
            "cvJoin", "cvAsk", "cvUmount", "cvClose", "cvUnlist"}

\* The child runs inside the namespace of a session it joined.
Inside == {"joined", "opened", "mounted",
           "cvAsk", "cvUmount", "cvClose", "cvUnlist"}

Bootstrap(h) == ses[h] = h
InSession(b) == {d \in Helper : ses[d] = b}
Busy(d)      == d \in mounted \union held

\* verify_session_leader: the recorded pid exists, belongs to the vault uid
\* (so it is past its exec) and has the recorded start time.  A leader that
\* died and is not yet reaped still passes.
Verified(b) == pidfile = b /\ b # None /\ child[b] \in {"leader", "zombie"}

\* session_leader_alive: the recorded pid runs and is no zombie, whatever
\* its uid.
LeaderAlive == pidfile # None /\ child[pidfile] \in Running

\* A process is still in the namespace of session b.
Occupied(b) ==
    \/ child[b] \in Running
    \/ \E h \in Helper : ses[h] = b /\ child[h] \in Inside

\* Mutant of Pinned: a single close attempt, no retries.
PinnedAtOnce(d) == Busy(d)

\* A device the kernel will not release within the retries of a close: its
\* namespace or an app of it lives on.  The namespace of a session whose last
\* process died is torn down asynchronously, and the retries outlast that.
Pinned(d) == Busy(d) /\ Occupied(ses[d])

\* One `cryptsetup close` for each device of S, in turn: a released device
\* goes, a pinned one stays, and one whose namespace is being torn down does
\* either.
CloseOutcomes(S) ==
    {closed \in SUBSET S :
        \A d \in S :
            /\ ~Busy(d) => d \in closed
            /\ Pinned(d) => d \notin closed}

\* The devices that were closed are gone, and so is what held them.
Drop(closed) ==
    /\ dm' = dm \ closed
    /\ mounted' = mounted \ closed
    /\ held' = held \ closed

Goto(h, phase)      == pc' = [pc EXCEPT ![h] = phase]
ChildGoto(h, phase) == child' = [child EXCEPT ![h] = phase]
CleanGoto(h, phase) == cl' = [cl EXCEPT ![h] = phase]

Init ==
    /\ pc = [h \in Helper |-> "off"]
    /\ child = [h \in Helper |-> "none"]
    /\ cl = [h \in Helper |-> "off"]
    /\ src = [h \in Helper |-> NoSource]
    /\ ses = [h \in Helper |-> None]
    /\ tgt = [h \in Helper |-> None]
    /\ carry = [h \in Helper |-> {}]
    /\ snap = [h \in Helper |-> {}]
    /\ flock = {}
    /\ lock = NoLock
    /\ pidfile = None
    /\ dm = {}
    /\ mounted = {}
    /\ held = {}

-----------------------------------------------------------------------------
(* A run starts: `veracage open <volume>`, the empty session behind the    *)
(* front door, or `veracage close-volume`.  A run waiting for the flock has *)
(* done nothing yet, so it starts in the step that grants it the flock.    *)

\* The run ends before it asks for the flock: the authentication is refused,
\* an argument is wrong, the container is not there.
Declined(h) ==
    /\ pc[h] = "off"
    /\ Goto(h, "done")
    /\ UNCHANGED <<child, cl, runVars, flock, fileVars, devVars>>

\* The flock is granted and a live leader is recorded: an open joins it.
JoinSession(h, s) ==
    /\ pc[h] = "off"
    /\ flock = {}
    /\ Verified(pidfile)
    /\ Goto(h, "addCheck")
    /\ src' = [src EXCEPT ![h] = s]
    /\ ses' = [ses EXCEPT ![h] = pidfile]
    /\ flock' = {Parent(h)}
    /\ UNCHANGED <<child, cl, tgt, carry, snap, fileVars, devVars>>

\* The flock is granted and no live leader is recorded: bootstrap one, with a
\* first container or, for an empty session, with none.
BecomeBootstrap(h, s) ==
    /\ pc[h] = "off"
    /\ flock = {}
    /\ ~Verified(pidfile)
    /\ Goto(h, "recover")
    /\ src' = [src EXCEPT ![h] = s]
    /\ ses' = [ses EXCEPT ![h] = h]
    /\ flock' = {Parent(h)}
    /\ UNCHANGED <<child, cl, tgt, carry, snap, fileVars, devVars>>

\* An empty session finds a live leader: there is nothing to do.
EmptyIsUp(h) ==
    /\ pc[h] = "off"
    /\ flock = {}
    /\ Verified(pidfile)
    /\ Goto(h, "done")
    /\ UNCHANGED <<child, cl, runVars, flock, fileVars, devVars>>

-----------------------------------------------------------------------------
(* Bootstrap, under the flock up to the fork.                              *)

\* Mutant of Recover: a clean slate, whatever would not close.
RecoverCleanSlate(h) ==
    /\ pc[h] = "recover"
    /\ \E closed \in CloseOutcomes(lock.lines \intersect dm) : Drop(closed)
    /\ lock' = NoLock
    /\ Goto(h, "create")
    /\ UNCHANGED <<child, cl, runVars, flock, pidfile>>

\* A stale lock is recovered: one close attempt per device it names; the lock
\* is removed and the lines of the devices still there are kept in memory.
Recover(h) ==
    /\ pc[h] = "recover"
    /\ \E closed \in CloseOutcomes(lock.lines \intersect dm) :
          /\ Drop(closed)
          /\ carry' = [carry EXCEPT ![h] = (lock.lines \intersect dm) \ closed]
    /\ lock' = NoLock
    /\ Goto(h, "create")
    /\ UNCHANGED <<child, cl, src, ses, tgt, snap, flock, pidfile>>

\* A fresh lock: this run's generation, the carried lines and, when the run
\* opens a container, its own device, before anything is opened.
CreateLock(h) ==
    /\ pc[h] = "create"
    /\ ~lock.there
    /\ lock' = [there |-> TRUE, gen |-> h,
                lines |-> carry[h] \union (IF src[h] = NoSource THEN {} ELSE {h})]
    /\ carry' = [carry EXCEPT ![h] = {}]
    /\ Goto(h, "fork")
    /\ UNCHANGED <<child, cl, src, ses, tgt, snap, flock, pidfile, devVars>>

\* The fork shares the open file description of the flock with the child.
ForkLeader(h) ==
    /\ pc[h] = "fork"
    /\ Goto(h, "pidfile")
    /\ ChildGoto(h, "setup")
    /\ flock' = flock \union {Child(h)}
    /\ UNCHANGED <<cl, runVars, fileVars, devVars>>

\* Mutant of WritePidfile: the flock is unlocked, the child's copy with it.
WritePidfileUnlocks(h) ==
    /\ pc[h] = "pidfile"
    /\ pidfile' = h
    /\ flock' = {}
    /\ Goto(h, "serve")
    /\ UNCHANGED <<child, cl, runVars, lock, devVars>>

\* The parent records the child and drops its own copy of the flock.
WritePidfile(h) ==
    /\ pc[h] = "pidfile"
    /\ pidfile' = h
    /\ flock' = flock \ {Parent(h)}
    /\ Goto(h, "serve")
    /\ UNCHANGED <<child, cl, runVars, lock, devVars>>

\* The leader, or the child that never became one, has exited.
Reap(h) ==
    /\ pc[h] = "serve"
    /\ child[h] \in {"zombie", "failed"}
    /\ ChildGoto(h, "gone")
    /\ Goto(h, "relock")
    /\ UNCHANGED <<cl, runVars, flock, fileVars, devVars>>

\* The leader of a killed parent is reaped by init.
InitReaps(h) ==
    /\ pc[h] = "killed"
    /\ child[h] = "zombie"
    /\ ChildGoto(h, "gone")
    /\ UNCHANGED <<pc, cl, runVars, flock, fileVars, devVars>>

-----------------------------------------------------------------------------
(* Teardown by the bootstrap parent.                                       *)

\* Under the flock again the lock carries another generation, or is gone:
\* a successor owns the files, touch nothing.
NotOurs(h) ==
    /\ pc[h] = "relock"
    /\ flock = {}
    /\ lock.gen # h
    /\ Goto(h, "done")
    /\ UNCHANGED <<child, cl, runVars, flock, fileVars, devVars>>

\* Mutant of Ours: no generation check.
OursAlways(h) ==
    /\ pc[h] = "relock"
    /\ flock = {}
    /\ flock' = {Parent(h)}
    /\ Goto(h, "close")
    /\ UNCHANGED <<child, cl, runVars, fileVars, devVars>>

Ours(h) ==
    /\ pc[h] = "relock"
    /\ flock = {}
    /\ lock.gen = h
    /\ flock' = {Parent(h)}
    /\ Goto(h, "close")
    /\ UNCHANGED <<child, cl, runVars, fileVars, devVars>>

\* One close attempt for every device of the lock.
TeardownClose(h) ==
    /\ pc[h] = "close"
    /\ \E closed \in CloseOutcomes(lock.lines \intersect dm) :
          /\ Drop(closed)
          /\ Goto(h, IF lock.lines \intersect dm \subseteq closed
                     THEN "unlinkAll" ELSE "unlinkPid")
    /\ UNCHANGED <<child, cl, runVars, flock, fileVars>>

\* Mutant of TeardownFiles: the lock goes even when a device is still open.
TeardownFilesAlways(h) ==
    /\ pc[h] \in {"unlinkAll", "unlinkPid"}
    /\ pidfile' = IF pidfile = h THEN None ELSE pidfile
    /\ lock' = NoLock
    /\ flock' = flock \ {Parent(h)}
    /\ Goto(h, "done")
    /\ UNCHANGED <<child, cl, runVars, devVars>>

\* The pidfile goes if it still names this run's leader, the lock only when
\* every device is closed.
TeardownFiles(h) ==
    /\ pc[h] \in {"unlinkAll", "unlinkPid"}
    /\ pidfile' = IF pidfile = h THEN None ELSE pidfile
    /\ lock' = IF pc[h] = "unlinkAll" THEN NoLock ELSE lock
    /\ flock' = flock \ {Parent(h)}
    /\ Goto(h, "done")
    /\ UNCHANGED <<child, cl, runVars, devVars>>

-----------------------------------------------------------------------------
(* Add-volume: join the live session, under the flock to the end.          *)

\* Mutant of AlreadyOpen: a volume counts as open while it is mounted.
AlreadyMounted(h) == \E d \in lock.lines \intersect mounted : src[d] = src[h]

\* The duplicate-open guard: a line for this container whose device exists.
AlreadyOpen(h) == \E d \in lock.lines \intersect dm : src[d] = src[h]

AddRefused(h) ==
    /\ pc[h] = "addCheck"
    /\ AlreadyOpen(h)
    /\ Goto(h, "done")
    /\ flock' = flock \ {Parent(h)}
    /\ UNCHANGED <<child, cl, runVars, fileVars, devVars>>

\* The line is appended before the device is opened; a lock that vanished is
\* recreated, with an owner and no generation.
AddAppend(h) ==
    /\ pc[h] = "addCheck"
    /\ ~AlreadyOpen(h)
    /\ lock' = [lock EXCEPT !.there = TRUE, !.lines = @ \union {h}]
    /\ Goto(h, "addFork")
    /\ UNCHANGED <<child, cl, runVars, flock, pidfile, devVars>>

AddFork(h) ==
    /\ pc[h] = "addFork"
    /\ Goto(h, "addWait")
    /\ ChildGoto(h, "join")
    /\ flock' = flock \union {Child(h)}
    /\ UNCHANGED <<cl, runVars, fileVars, devVars>>

AddDone(h) ==
    /\ pc[h] = "addWait"
    /\ child[h] = "ok"
    /\ Goto(h, "done")
    /\ flock' = flock \ {Parent(h)}
    /\ UNCHANGED <<child, cl, runVars, fileVars, devVars>>

\* The child failed: one attempt to close what it may have opened.  The line
\* stays.
AddFailed(h) ==
    /\ pc[h] = "addWait"
    /\ child[h] = "failed"
    /\ \E closed \in CloseOutcomes({h} \intersect dm) : Drop(closed)
    /\ Goto(h, "done")
    /\ flock' = flock \ {Parent(h)}
    /\ UNCHANGED <<child, cl, runVars, fileVars>>

-----------------------------------------------------------------------------
(* The child that opens and mounts: of a bootstrap, in its own new         *)
(* namespace, or of an add, in the namespace of the leader it joined.      *)

\* setns into the leader's namespace needs a leader that still runs.
Enter(h) ==
    /\ child[h] = "join"
    /\ child[ses[h]] = "leader"
    /\ ChildGoto(h, "joined")
    /\ UNCHANGED <<pc, cl, runVars, flock, fileVars, devVars>>

CryptOpen(h) ==
    /\ \/ child[h] = "joined"
       \/ child[h] = "setup" /\ src[h] # NoSource
    /\ dm' = dm \union {h}
    /\ ChildGoto(h, "opened")
    /\ UNCHANGED <<pc, cl, runVars, flock, fileVars, mounted, held>>

Mount(h) ==
    /\ child[h] = "opened"
    /\ mounted' = mounted \union {h}
    /\ ChildGoto(h, "mounted")
    /\ UNCHANGED <<pc, cl, runVars, flock, fileVars, dm, held>>

\* The leader is established: the exec closes the child's copy of the flock.
ExecLeader(h) ==
    /\ Bootstrap(h)
    /\ \/ child[h] = "mounted"
       \/ child[h] = "setup" /\ src[h] = NoSource
    /\ ChildGoto(h, "leader")
    /\ flock' = flock \ {Child(h)}
    /\ UNCHANGED <<pc, cl, runVars, fileVars, devVars>>

AddExit(h) ==
    /\ ~Bootstrap(h)
    /\ child[h] = "mounted"
    /\ ChildGoto(h, "ok")
    /\ flock' = flock \ {Child(h)}
    /\ UNCHANGED <<pc, cl, runVars, fileVars, devVars>>

\* An error path or a kill before the mount is up.  The fsck and mount error
\* paths try to close the device they opened; the others leave it.
ChildFails(h) ==
    /\ child[h] \in {"setup", "join", "joined", "opened", "mounted"}
    /\ dm' \in {dm, IF child[h] = "opened" THEN dm \ {h} ELSE dm}
    /\ ChildGoto(h, "failed")
    /\ flock' = flock \ {Child(h)}
    /\ UNCHANGED <<pc, cl, runVars, fileVars, mounted, held>>

\* The leader ends: the last close, a crash, a kill.
LeaderDies(h) ==
    /\ child[h] = "leader"
    /\ ChildGoto(h, "zombie")
    /\ UNCHANGED <<pc, cl, runVars, flock, fileVars, devVars>>

-----------------------------------------------------------------------------
(* Close-volume: one device of a live session, under the flock to the end. *)

CloseJoin(h) ==
    /\ pc[h] = "off"
    /\ flock = {}
    /\ Verified(pidfile)
    /\ ses' = [ses EXCEPT ![h] = pidfile]
    /\ Goto(h, "cvWait")
    /\ ChildGoto(h, "cvJoin")
    /\ flock' = {Parent(h), Child(h)}
    /\ UNCHANGED <<cl, src, tgt, carry, snap, fileVars, devVars>>

CloseNoSession(h) ==
    /\ pc[h] = "off"
    /\ flock = {}
    /\ ~Verified(pidfile)
    /\ Goto(h, "left")
    /\ UNCHANGED <<child, cl, runVars, flock, fileVars, devVars>>

\* Inside the namespace: find the device behind the volume, and whether an
\* app outside the namespace holds it.
CloseLookup(h) ==
    /\ child[h] = "cvJoin"
    /\ child[ses[h]] = "leader"
    /\ \E d \in InSession(ses[h]) \intersect mounted :
          /\ tgt' = [tgt EXCEPT ![h] = d]
          /\ ChildGoto(h, IF d \in held THEN "cvAsk" ELSE "cvUmount")
    /\ UNCHANGED <<pc, cl, src, ses, carry, snap, flock, fileVars, devVars>>

\* The human closed the apps and the caller answered "go": check again.
CloseGo(h) ==
    /\ child[h] = "cvAsk"
    /\ tgt[h] \notin held
    /\ ChildGoto(h, "cvUmount")
    /\ UNCHANGED <<pc, cl, runVars, flock, fileVars, devVars>>

\* Mutant of CloseUmount: the line goes with the mount, before the close.
CloseUmountUnlists(h) ==
    /\ child[h] = "cvUmount"
    /\ mounted' = mounted \ {tgt[h]}
    /\ lock' = [lock EXCEPT !.lines = @ \ {tgt[h]}]
    /\ ChildGoto(h, "cvClose")
    /\ UNCHANGED <<pc, cl, runVars, flock, pidfile, dm, held>>

CloseUmount(h) ==
    /\ child[h] = "cvUmount"
    /\ mounted' = mounted \ {tgt[h]}
    /\ ChildGoto(h, "cvClose")
    /\ UNCHANGED <<pc, cl, runVars, flock, fileVars, dm, held>>

\* The close is retried until the device is released.
CloseDevice(h) ==
    /\ child[h] = "cvClose"
    /\ ~Busy(tgt[h])
    /\ dm' = dm \ {tgt[h]}
    /\ ChildGoto(h, "cvUnlist")
    /\ UNCHANGED <<pc, cl, runVars, flock, fileVars, mounted, held>>

\* session_lock_remove rewrites the lock without the closed device's line.
CloseUnlist(h) ==
    /\ child[h] = "cvUnlist"
    /\ lock' = [lock EXCEPT !.lines = @ \ {tgt[h]}]
    /\ ChildGoto(h, "ok")
    /\ flock' = flock \ {Child(h)}
    /\ UNCHANGED <<pc, cl, runVars, pidfile, devVars>>

\* The volume is not there, the session is gone, the human cancelled, an app
\* still runs, the umount is refused, or the retries ran out; or a kill, at any
\* point, which leaves what has been done.
CloseGivesUp(h) ==
    /\ child[h] \in {"cvJoin", "cvAsk", "cvUmount", "cvClose", "cvUnlist"}
    /\ ChildGoto(h, "failed")
    /\ flock' = flock \ {Child(h)}
    /\ UNCHANGED <<pc, cl, runVars, fileVars, devVars>>

CloseExit(h) ==
    /\ pc[h] = "cvWait"
    /\ child[h] \in {"ok", "failed"}
    /\ Goto(h, "left")
    /\ flock' = flock \ {Parent(h)}
    /\ UNCHANGED <<child, cl, runVars, fileVars, devVars>>

-----------------------------------------------------------------------------
(* The cleanup each unit runs once its helper has ended (cleanup.py).      *)

\* No lock, at the first look or after the wait for the flock: nothing to do.
CleanupNoLock(h) ==
    /\ pc[h] \in {"done", "killed"}
    /\ cl[h] = "off"
    /\ ~lock.there
    /\ CleanGoto(h, "done")
    /\ UNCHANGED <<pc, child, runVars, flock, fileVars, devVars>>

\* The devices are read from the lock first, the leader is looked at second.
CleanupRead(h) ==
    /\ pc[h] \in {"done", "killed"}
    /\ cl[h] = "off"
    /\ lock.there
    /\ snap' = [snap EXCEPT ![h] = lock.lines]
    /\ CleanGoto(h, "check")
    /\ UNCHANGED <<pc, child, src, ses, tgt, carry, fileVars, devVars>>

CleanupFlock(h) ==
    /\ flock = {}
    /\ flock' = {Cleanup(h)}
    /\ CleanupRead(h)

\* FLOCK_WAIT is over and somebody still holds the flock: clean up anyway.
CleanupWithoutFlock(h) ==
    /\ \E p \in flock : p[2] \in Outwaits
    /\ UNCHANGED flock
    /\ CleanupRead(h)

\* The process ends, and with it its flock and what it had read.
CleanupExit(h) ==
    /\ CleanGoto(h, "done")
    /\ snap' = [snap EXCEPT ![h] = {}]
    /\ flock' = flock \ {Cleanup(h)}

\* The session is alive: this was the unit of an add-volume.
CleanupSparesLive(h) ==
    /\ cl[h] = "check"
    /\ LeaderAlive
    /\ CleanupExit(h)
    /\ UNCHANGED <<pc, child, src, ses, tgt, carry, fileVars, devVars>>

\* Mutant of CleanupProceeds: no look at the leader.
CleanupProceedsAnyway(h) ==
    /\ cl[h] = "check"
    /\ CleanGoto(h, "close")
    /\ UNCHANGED <<pc, child, runVars, flock, fileVars, devVars>>

CleanupProceeds(h) ==
    /\ cl[h] = "check"
    /\ ~LeaderAlive
    /\ CleanGoto(h, "close")
    /\ UNCHANGED <<pc, child, runVars, flock, fileVars, devVars>>

\* Each device is closed, with retries; when all are gone, the files follow.
CleanupClose(h) ==
    /\ cl[h] = "close"
    /\ \A d \in snap[h] \intersect dm : ~Busy(d)
    /\ dm' = dm \ snap[h]
    /\ CleanGoto(h, "unlink")
    /\ UNCHANGED <<pc, child, runVars, flock, fileVars, mounted, held>>

\* A device outlasted the retries: the others are closed, the lock is kept.
CleanupGivesUp(h) ==
    /\ cl[h] = "close"
    /\ \E d \in snap[h] \intersect dm : Pinned(d)
    /\ dm' = dm \ {d \in snap[h] : ~Busy(d)}
    /\ CleanupExit(h)
    /\ UNCHANGED <<pc, child, src, ses, tgt, carry, fileVars, mounted, held>>

CleanupUnlink(h) ==
    /\ cl[h] = "unlink"
    /\ lock' = NoLock
    /\ pidfile' = None
    /\ CleanupExit(h)
    /\ UNCHANGED <<pc, child, src, ses, tgt, carry, devVars>>

-----------------------------------------------------------------------------
(* The environment: apps, the kernel and kills.                            *)

\* An app starts in its own namespace, which binds the whole workspace.
AppStarts(b) ==
    /\ child[b] = "leader"
    /\ ~(InSession(b) \intersect mounted \subseteq held)
    /\ held' = held \union (InSession(b) \intersect mounted)
    /\ UNCHANGED <<pc, child, cl, runVars, flock, fileVars, dm, mounted>>

\* Apps exit, and with them the namespaces that held some of the volumes.
AppExits(b) ==
    /\ \E freed \in SUBSET (held \intersect InSession(b)) :
          /\ freed # {}
          /\ held' = held \ freed
    /\ UNCHANGED <<pc, child, cl, runVars, flock, fileVars, dm, mounted>>

\* The last process of a namespace is gone: its mounts follow, some time.
ReleaseNamespace(b) ==
    /\ ~Occupied(b)
    /\ InSession(b) \intersect mounted # {}
    /\ mounted' = mounted \ InSession(b)
    /\ UNCHANGED <<pc, child, cl, runVars, flock, fileVars, dm, held>>

\* SIGKILL, OOM killer: the parent dies, its child goes on.
KillParent(h) ==
    /\ pc[h] \in KillPhases
    /\ Goto(h, IF pc[h] = "cvWait" THEN "left" ELSE "killed")
    /\ flock' = flock \ {Parent(h)}
    /\ UNCHANGED <<child, cl, runVars, fileVars, devVars>>

-----------------------------------------------------------------------------
Start(h) ==
    \/ \E s \in Source : JoinSession(h, s)
    \/ \E s \in Source \union {NoSource} : BecomeBootstrap(h, s)
    \/ Declined(h) \/ EmptyIsUp(h) \/ CloseJoin(h) \/ CloseNoSession(h)

ParentStep(h) ==
    \/ Recover(h) \/ CreateLock(h) \/ ForkLeader(h) \/ WritePidfile(h)
    \/ Reap(h) \/ InitReaps(h)
    \/ NotOurs(h) \/ Ours(h) \/ TeardownClose(h) \/ TeardownFiles(h)
    \/ AddRefused(h) \/ AddAppend(h) \/ AddFork(h) \/ AddDone(h) \/ AddFailed(h)
    \/ CloseExit(h)

ChildStep(h) ==
    \/ Enter(h) \/ CryptOpen(h) \/ Mount(h) \/ ExecLeader(h) \/ AddExit(h)
    \/ ChildFails(h)
    \/ CloseLookup(h) \/ CloseGo(h) \/ CloseUmount(h) \/ CloseDevice(h)
    \/ CloseUnlist(h) \/ CloseGivesUp(h)

CleanupStep(h) ==
    \/ CleanupNoLock(h) \/ CleanupFlock(h) \/ CleanupWithoutFlock(h)
    \/ CleanupSparesLive(h) \/ CleanupProceeds(h)
    \/ CleanupClose(h) \/ CleanupGivesUp(h) \/ CleanupUnlink(h)

Environment(h) ==
    \/ LeaderDies(h) \/ AppStarts(h) \/ AppExits(h)
    \/ ReleaseNamespace(h) \/ KillParent(h)

Next ==
    \E h \in Helper :
        Start(h) \/ ParentStep(h) \/ ChildStep(h) \/ CleanupStep(h) \/ Environment(h)

Spec == Init /\ [][Next]_vars

\* Every process that can take a step takes it; a namespace nobody is in is
\* torn down; an app dies with its leader (bwrap --die-with-parent).  Nothing
\* obliges a human to start a run, an app to start or exit, or a leader to die.
Fairness ==
    \A h \in Helper :
        /\ WF_vars(ParentStep(h))
        /\ WF_vars(ChildStep(h))
        /\ WF_vars(CleanupStep(h))
        /\ WF_vars(ReleaseNamespace(h))
        /\ WF_vars(child[h] \notin Running /\ AppExits(h))

FairSpec == Spec /\ Fairness

-----------------------------------------------------------------------------
\* Every variable keeps its type.
TypeOK ==
    /\ pc \in [Helper -> ParentPhase]
    /\ child \in [Helper -> ChildPhase]
    /\ cl \in [Helper -> CleanupPhase]
    /\ src \in [Helper -> Source \union {NoSource}]
    /\ ses \in [Helper -> Helper \union {None}]
    /\ tgt \in [Helper -> Helper \union {None}]
    /\ carry \in [Helper -> SUBSET Helper]
    /\ snap \in [Helper -> SUBSET Helper]
    /\ flock \in SUBSET (Helper \X {"parent", "child", "cleanup"})
    /\ lock \in [there : BOOLEAN, gen : Helper \union {None},
                 lines : SUBSET Helper]
    /\ pidfile \in Helper \union {None}
    /\ dm \in SUBSET Helper
    /\ mounted \in SUBSET Helper
    /\ held \in SUBSET Helper

\* The processes of a bootstrap whose workspace exists: its child runs.
LiveSession(b) == Bootstrap(b) /\ child[b] \in Running

\* The lock lists every decrypted device, whatever process died where, so
\* some teardown can still find it.  The one exception is the window of a
\* recovery, between the removal of a stale lock and the creation of the new
\* one, when the recovering process carries the lines in memory.
Tracked ==
    \A d \in dm :
        \/ lock.there /\ d \in lock.lines
        \/ \E h \in Helper : pc[h] = "create" /\ d \in carry[h]

\* A workspace that exists owns the session lock: the teardown of a
\* predecessor, a late cleanup or a racing open never removed or replaced it.
LiveSessionOwnsLock ==
    \A b \in Helper : LiveSession(b) => lock.there /\ lock.gen = b

\* Two opens never build two workspaces for one human.
OneSession ==
    \A a, b \in Helper : LiveSession(a) /\ LiveSession(b) => a = b

\* Whenever nobody holds the flock, a live leader is the one the pidfile
\* names, so the next open joins it instead of bootstrapping over it.
LeaderFindable ==
    \A b \in Helper : LiveSession(b) /\ flock = {} => pidfile = b

\* No container is decrypted twice within one session: two filesystems over
\* one container would corrupt it.
OneDevicePerSource ==
    \A d, e \in dm : d # e /\ src[d] = src[e] => ses[d] # ses[e]

\* The same promise without the session boundary, as the code's own comment
\* on source_key states it.
NeverDecryptedTwice ==
    \A d, e \in dm : src[d] = src[e] => d = e

\* Nothing runs any more: neither a parent, nor a child, nor a cleanup.
Over ==
    \A h \in Helper :
        \/ pc[h] = "off"
        \/ pc[h] = "left" /\ child[h] \notin Running
        \/ pc[h] \in {"done", "killed"} /\ child[h] \notin Running /\ cl[h] = "done"

\* The teardown of a run that lost the lock to a successor session touches
\* nothing: when it removes files, the lock still carries its own generation
\* (or a cleanup already removed it), and the pidfile it drops names no live
\* leader.  This is what the generation nonce is for, and it has to hold even
\* when a cleanup goes on without the flock.
TeardownOnlyOwn ==
    [][\A h \in Helper :
          pc[h] \in {"unlinkAll", "unlinkPid"} /\ pc'[h] = "done" =>
              /\ lock.gen \in {h, None}
              /\ \A b \in Helper : LiveSession(b) /\ pidfile = b => pidfile' = b]_vars

\* However the leaders and the opens ended, whoever else was killed: once the
\* teardown of every run has run its course, no key is left in RAM, provided
\* the root parent of each session lived to see its leader exit.
NothingLeftDecrypted ==
    Over /\ (\A b \in Helper : Bootstrap(b) => pc[b] # "killed") => dm = {}

\* No cleanup is at work without the flock.
CleanupsWait ==
    \A h \in Helper : cl[h] \in {"check", "close", "unlink"} => Cleanup(h) \in flock

\* As long as the cleanups have the patience to wait for the flock: when a
\* session's leader or opening child is dead, each device of the session is
\* closed in the end, or a newer live session lists it.
DeadSessionDrains ==
    []CleanupsWait =>
        \A b, d \in Helper :
            (Bootstrap(b) /\ child[b] \in {"zombie", "failed", "gone"}
                /\ ses[d] = b /\ d \in dm)
            ~> (d \notin dm \/ (\E a \in Helper : LiveSession(a) /\ d \in lock.lines))

-----------------------------------------------------------------------------
\* The records of decrypted devices are the lock and, while a recovery replaces
\* it, the lines the recovering process carries.
Recorded ==
    {d \in Helper :
        \/ d \in lock.lines
        \/ \E h \in Helper : pc[h] = "create" /\ d \in carry[h]}

Ledger == INSTANCE DeviceLedger
              WITH Device <- Helper, recorded <- Recorded, open <- dm

\* All the processes together keep the ledger's promise: they open only what
\* they have recorded, and a recovery, a teardown, a cleanup and a close-volume
\* stop recording a device only once it is closed.
LedgerSpec == Ledger!Spec
=============================================================================
