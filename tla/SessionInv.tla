----------------------------- MODULE SessionInv -----------------------------
(***************************************************************************)
(* The inductive invariant of Session: what the flock protects, phase by   *)
(* phase, when every process waits for it and no parent is killed in the   *)
(* two places where the session is recorded nowhere but in its memory.     *)
(***************************************************************************)
EXTENDS Session

\* Nobody goes on without the flock, and no parent is killed between the
\* removal of a stale lock and the new one, or between fork and pidfile.
Patient ==
    /\ Outwaits = {}
    /\ KillPhases \intersect {"create", "pidfile"} = {}

\* The phases in which a process holds a copy of the locked descriptor.
ParentHolds == {"recover", "create", "fork", "pidfile",
                "close", "unlinkAll", "unlinkPid",
                "addCheck", "addFork", "addWait", "cvWait"}
ChildHolds == Running \ {"leader"}
CleanupHolds == {"check", "close", "unlink"}

\* The flock is held exactly by the processes in those phases.
Holders ==
    \A h \in Helper :
        /\ Parent(h) \in flock <=> pc[h] \in ParentHolds
        /\ Child(h) \in flock <=> child[h] \in ChildHolds
        /\ Cleanup(h) \in flock <=> cl[h] \in CleanupHolds

\* One run at a time is active under the flock: either its parent and the
\* child that inherited the descriptor, or its cleanup.
Active(h) == pc[h] \in ParentHolds \/ child[h] \in ChildHolds

Exclusive ==
    \A g, h \in Helper :
        /\ Active(g) /\ Active(h) => g = h
        /\ cl[g] \in CleanupHolds /\ cl[h] \in CleanupHolds => g = h
        /\ ~(cl[g] \in CleanupHolds /\ Active(h))

\* What the phase of a run's parent says of its child, and of its session.
Phases ==
    \A h \in Helper :
        /\ pc[h] \in {"off", "recover", "create", "fork", "addCheck", "addFork"}
              => child[h] = "none"
        /\ pc[h] \in {"recover", "create", "fork"} => ses[h] = h
        /\ pc[h] \in {"relock", "close", "unlinkAll", "unlinkPid"} =>
              child[h] = "gone"
        /\ pc[h] \in {"addCheck", "addFork", "addWait"} => ses[h] # h
        /\ child[h] \in {"setup", "leader"} => ses[h] = h

\* No lock, no lines; and the owner of the lock in the phases that rely on it.
LockOwner ==
    /\ ~lock.there => lock.gen = None /\ lock.lines = {}
    /\ \A h \in Helper :
          /\ pc[h] \in {"fork", "pidfile", "close", "unlinkAll", "unlinkPid"} =>
                lock.gen = h
          /\ pc[h] = "create" => ~lock.there

\* A live session owns the lock and is named by the pidfile, once written.
Owned ==
    \A b \in Helper :
        LiveSession(b) =>
            /\ lock.there /\ lock.gen = b
            /\ pidfile = b \/ pc[b] = "pidfile"

\* Whoever replaces or removes a lock that is not its own has seen no live
\* session, and none can come up while it holds the flock.
NoneLive ==
    \A g, b \in Helper :
        \/ pc[g] \in {"recover", "create", "fork"}
        \/ cl[g] \in {"close", "unlink"}
        => ~LiveSession(b)

\* A child that may open a device has its line in the lock.
Listed ==
    \A h \in Helper :
        \/ pc[h] = "fork" /\ src[h] # NoSource
        \/ pc[h] = "addFork"
        \/ child[h] = "setup" /\ src[h] # NoSource
        \/ child[h] \in {"join", "joined", "opened", "mounted"}
        => h \in lock.lines

\* Lines are dropped only when their devices are closed.
Settled ==
    \A h \in Helper :
        /\ pc[h] = "unlinkAll" => lock.lines \intersect dm = {}
        /\ cl[h] \in {"check", "close"} => snap[h] = lock.lines
        /\ cl[h] = "unlink" => lock.lines \intersect dm = {}
        /\ child[h] = "cvUnlist" => tgt[h] \notin dm

\* A run that did not start has no device, the session a run joined is past
\* its own opening, and an add-volume that passed the duplicate-open guard
\* still passes it until its device is open.
Guarded ==
    \A h, d \in Helper :
        /\ pc[h] = "off" => h \notin dm
        /\ ses[d] = h /\ d # h => child[h] \in {"leader", "zombie", "gone"}
        /\ \/ pc[h] = "addFork"
           \/ child[h] \in {"join", "joined"}
           => (d \in dm => src[d] # src[h])

\* The phases of a run that bootstraps.
BootstrapPhase == {"recover", "create", "fork", "pidfile", "serve", "relock",
                   "close", "unlinkAll", "unlinkPid", "done", "killed"}

\* A device belongs to a session, and a lock to a bootstrap whose teardown and
\* cleanup are not both over: an unreaped leader keeps it, an add-volume never
\* has to recreate it, and a cleanup that follows its parent's teardown leaves
\* none behind.
Accounted ==
    /\ lock.there =>
          lock.gen \in Helper /\ Bootstrap(lock.gen) /\ pc[lock.gen] # "off"
    /\ \A h, b \in Helper :
          /\ child[b] = "zombie" /\ pidfile = b => lock.there /\ lock.gen = b
          /\ pc[h] \in {"recover", "create", "fork"} =>
                ~(child[b] = "zombie" /\ pidfile = b)
    /\ \A h \in Helper :
          /\ pc[h] = "addCheck" => lock.there
          /\ \/ pc[h] \in {"addCheck", "addFork"}
             \/ child[h] # "none"
             \/ h \in dm
             => ses[h] \in Helper
          /\ cl[h] # "off" => pc[h] \in {"done", "killed"}
          /\ ses[h] = h => pc[h] \in BootstrapPhase
          /\ ses[h] = h /\ pc[h] = "done" => child[h] = "gone"
          /\ ses[h] = h /\ pc[h] = "done" /\ cl[h] = "done" => lock.gen # h

\* Who may act: the discipline of the flock.
Discipline == Holders /\ Exclusive /\ Phases

\* Whose session it is: the lock and the pidfile.
Ownership == LockOwner /\ Owned /\ NoneLive

\* What is decrypted: the devices and their lines.
Recording == Listed /\ Settled /\ Tracked

\* The teardown phases in which a run removes files as its own.
TearsDown == {"close", "unlinkAll", "unlinkPid"}

\* What holds even when a cleanup goes on without the flock and whichever parent
\* is killed: one parent at a time is past the flock, and a run that tears down
\* has seen its leader end and its own generation in the lock, which since then
\* only a cleanup can have removed.
OwnFiles ==
    /\ \A h \in Helper : pc[h] \in ParentHolds => Parent(h) \in flock
    /\ \A g, h \in Helper :
          pc[g] \in ParentHolds /\ pc[h] \in ParentHolds => g = h
    /\ \A h \in Helper :
          /\ pc[h] \in {"relock"} \union TearsDown => child[h] = "gone"
          /\ pc[h] \in TearsDown => lock.gen \in {h, None}

\* The inductive invariant: the layers above, and each property it implies.
IInv ==
    /\ TypeOK
    /\ Discipline
    /\ Ownership
    /\ Recording
    /\ Guarded
    /\ OneDevicePerSource
    /\ Accounted
=============================================================================
