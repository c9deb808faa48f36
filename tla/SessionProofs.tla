--------------------------- MODULE SessionProofs ---------------------------
(***************************************************************************)
(* Theorems about Session, for every set of runs and containers.  Types    *)
(* and what a teardown may remove hold whatever happens; the rest holds    *)
(* when every process waits for the flock and no parent is killed in its   *)
(* two unrecorded windows (Patient).                                       *)
(*                                                                         *)
(* The invariant is proved in layers, each using the ones before it: who   *)
(* may act (Discipline), whose session it is (Ownership), what is          *)
(* decrypted (Recording), and what is open twice (Guarded).                *)
(***************************************************************************)
EXTENDS SessionInv, TLAPS

\* A step of any process keeps every variable's type.
LEMMA TypeKept ==
    ASSUME TypeOK, [Next]_vars
    PROVE  TypeOK'
<1> USE
    DEF TypeOK, ParentPhase, ChildPhase, CleanupPhase, Goto, ChildGoto,
        CleanGoto, runVars, fileVars, devVars, Parent, Child, Cleanup
<1> QED
  <2>1. ASSUME NEW h \in Helper, Start(h) PROVE TypeOK'
    <3>1. CASE \E s \in Source : JoinSession(h, s)
      BY <3>1 DEF JoinSession, Verified
    <3>2. CASE \E s \in Source \union {NoSource} : BecomeBootstrap(h, s)
      BY <3>2 DEF BecomeBootstrap, Verified
    <3>3. CASE Declined(h)
      BY <3>3 DEF Declined
    <3>4. CASE EmptyIsUp(h)
      BY <3>4 DEF EmptyIsUp
    <3>5. CASE CloseJoin(h)
      BY <3>5 DEF CloseJoin, Verified
    <3>6. CASE CloseNoSession(h)
      BY <3>6 DEF CloseNoSession
    <3> QED
      BY <2>1, <3>1, <3>2, <3>3, <3>4, <3>5, <3>6 DEF Start
  <2>2. ASSUME NEW h \in Helper, ParentStep(h) PROVE TypeOK'
    <3>1. CASE Recover(h)
      BY <3>1 DEF Recover, NoLock, Drop, CloseOutcomes
    <3>2. CASE CreateLock(h)
      BY <3>2 DEF CreateLock
    <3>3. CASE ForkLeader(h)
      BY <3>3 DEF ForkLeader
    <3>4. CASE WritePidfile(h)
      BY <3>4 DEF WritePidfile
    <3>5. CASE Reap(h)
      BY <3>5 DEF Reap
    <3>6. CASE InitReaps(h)
      BY <3>6 DEF InitReaps
    <3>7. CASE NotOurs(h)
      BY <3>7 DEF NotOurs
    <3>8. CASE Ours(h)
      BY <3>8 DEF Ours
    <3>9. CASE TeardownClose(h)
      BY <3>9 DEF TeardownClose, Drop, CloseOutcomes
    <3>10. CASE TeardownFiles(h)
      BY <3>10 DEF TeardownFiles, NoLock
    <3>11. CASE AddRefused(h)
      BY <3>11 DEF AddRefused
    <3>12. CASE AddAppend(h)
      BY <3>12 DEF AddAppend, AlreadyOpen
    <3>13. CASE AddFork(h)
      BY <3>13 DEF AddFork
    <3>14. CASE AddDone(h)
      BY <3>14 DEF AddDone
    <3>15. CASE AddFailed(h)
      BY <3>15 DEF AddFailed, Drop, CloseOutcomes
    <3>16. CASE CloseExit(h)
      BY <3>16 DEF CloseExit
    <3> QED
      BY <2>2, <3>1, <3>2, <3>3, <3>4, <3>5, <3>6, <3>7, <3>8, <3>9, <3>10,
         <3>11, <3>12, <3>13, <3>14, <3>15, <3>16 DEF ParentStep
  <2>3. ASSUME NEW h \in Helper, ChildStep(h) PROVE TypeOK'
    <3>1. CASE Enter(h)
      BY <3>1 DEF Enter
    <3>2. CASE CryptOpen(h)
      BY <3>2 DEF CryptOpen
    <3>3. CASE Mount(h)
      BY <3>3 DEF Mount
    <3>4. CASE ExecLeader(h)
      BY <3>4 DEF ExecLeader
    <3>5. CASE AddExit(h)
      BY <3>5 DEF AddExit
    <3>6. CASE ChildFails(h)
      BY <3>6 DEF ChildFails
    <3>7. CASE CloseLookup(h)
      BY <3>7 DEF CloseLookup, InSession
    <3>8. CASE CloseGo(h)
      BY <3>8 DEF CloseGo
    <3>9. CASE CloseUmount(h)
      BY <3>9 DEF CloseUmount
    <3>10. CASE CloseDevice(h)
      BY <3>10 DEF CloseDevice
    <3>11. CASE CloseUnlist(h)
      BY <3>11 DEF CloseUnlist
    <3>12. CASE CloseGivesUp(h)
      BY <3>12 DEF CloseGivesUp
    <3> QED
      BY <2>3, <3>1, <3>2, <3>3, <3>4, <3>5, <3>6, <3>7, <3>8, <3>9, <3>10,
         <3>11, <3>12 DEF ChildStep
  <2>4. ASSUME NEW h \in Helper, CleanupStep(h) PROVE TypeOK'
    <3>1. CASE CleanupNoLock(h)
      BY <3>1 DEF CleanupNoLock
    <3>2. CASE CleanupFlock(h)
      BY <3>2 DEF CleanupFlock, CleanupRead
    <3>3. CASE CleanupWithoutFlock(h)
      BY <3>3 DEF CleanupWithoutFlock, CleanupRead
    <3>4. CASE CleanupSparesLive(h)
      BY <3>4 DEF CleanupSparesLive, LeaderAlive, CleanupExit
    <3>5. CASE CleanupProceeds(h)
      BY <3>5 DEF CleanupProceeds, LeaderAlive
    <3>6. CASE CleanupClose(h)
      BY <3>6 DEF CleanupClose
    <3>7. CASE CleanupGivesUp(h)
      BY <3>7 DEF CleanupGivesUp, CleanupExit, Pinned, Occupied, Inside
    <3>8. CASE CleanupUnlink(h)
      BY <3>8 DEF CleanupUnlink, CleanupExit, NoLock
    <3> QED
      BY <2>4, <3>1, <3>2, <3>3, <3>4, <3>5, <3>6, <3>7, <3>8 DEF CleanupStep
  <2>5. ASSUME NEW h \in Helper, Environment(h) PROVE TypeOK'
    <3>1. CASE LeaderDies(h)
      BY <3>1 DEF LeaderDies
    <3>2. CASE AppStarts(h)
      BY <3>2 DEF AppStarts
    <3>3. CASE AppExits(h)
      BY <3>3 DEF AppExits
    <3>4. CASE ReleaseNamespace(h)
      BY <3>4 DEF ReleaseNamespace
    <3>5. CASE KillParent(h)
      BY <3>5 DEF KillParent
    <3> QED
      BY <2>5, <3>1, <3>2, <3>3, <3>4, <3>5 DEF Environment
  <2>6. ASSUME UNCHANGED vars PROVE TypeOK'
    BY <2>6 DEF vars
  <2> QED
    BY <2>1, <2>2, <2>3, <2>4, <2>5, <2>6 DEF Next

\* Every variable keeps its type, whoever is impatient and whoever is killed.
THEOREM TypeCorrect == Spec => []TypeOK
<1>1. Init => TypeOK
  BY DEF Init, TypeOK, ParentPhase, ChildPhase, CleanupPhase, NoLock
<1>2. TypeOK /\ [Next]_vars => TypeOK'
  BY TypeKept
<1> QED
  BY <1>1, <1>2, PTL DEF Spec

-----------------------------------------------------------------------------
\* A step keeps OwnFiles, by what it does to the parents and to the lock: it
\* leaves them alone, or a parent moves on under the flock it holds, or leaves
\* it, or is granted a flock that nobody holds.
LEMMA OwnFilesKept ==
    ASSUME TypeOK, OwnFiles, [Next]_vars
    PROVE  OwnFiles'
<1> DEFINE Untouched ==
                /\ UNCHANGED pc /\ lock'.gen \in {lock.gen, None}
                /\ \A h \in Helper : Parent(h) \in flock => Parent(h) \in flock'
                /\ \A h \in Helper : child[h] = "gone" => child'[h] = "gone"
<1>1. Untouched => OwnFiles'
  BY DEF OwnFiles, Parent
<1> USE DEF TypeOK, ParentPhase, ChildPhase, OwnFiles, TearsDown, ParentHolds,
        Goto, ChildGoto, CleanGoto, runVars, fileVars, devVars, Parent, Child,
        Cleanup
<1> QED
  <2>1. ASSUME NEW h \in Helper, Start(h) PROVE OwnFiles'
    <3>1. CASE \E s \in Source : JoinSession(h, s)
      BY <3>1 DEF JoinSession
    <3>2. CASE \E s \in Source \union {NoSource} : BecomeBootstrap(h, s)
      BY <3>2 DEF BecomeBootstrap
    <3>3. CASE Declined(h) \/ EmptyIsUp(h) \/ CloseNoSession(h)
      BY <3>3 DEF Declined, EmptyIsUp, CloseNoSession
    <3>4. CASE CloseJoin(h)
      BY <3>4 DEF CloseJoin
    <3> QED
      BY <2>1, <3>1, <3>2, <3>3, <3>4 DEF Start
  <2>2. ASSUME NEW h \in Helper, ParentStep(h) PROVE OwnFiles'
    <3>1. CASE Recover(h)
      BY <3>1 DEF Recover, NoLock
    <3>2. CASE CreateLock(h)
      BY <3>2 DEF CreateLock
    <3>3. CASE ForkLeader(h) \/ AddFork(h)
      BY <3>3 DEF ForkLeader, AddFork
    <3>4. CASE WritePidfile(h) \/ AddRefused(h) \/ AddDone(h) \/ AddFailed(h)
               \/ CloseExit(h) \/ NotOurs(h)
      BY <3>4 DEF WritePidfile, AddRefused, AddDone, AddFailed, CloseExit, NotOurs
    <3>5. CASE Reap(h) \/ InitReaps(h)
      BY <3>5 DEF Reap, InitReaps
    <3>6. CASE Ours(h)
      BY <3>6 DEF Ours
    <3>7. CASE TeardownClose(h)
      BY <3>7 DEF TeardownClose
    <3>8. CASE TeardownFiles(h)
      BY <3>8 DEF TeardownFiles, NoLock
    <3>9. CASE AddAppend(h)
      BY <3>9 DEF AddAppend
    <3> QED
      BY <2>2, <3>1, <3>2, <3>3, <3>4, <3>5, <3>6, <3>7, <3>8, <3>9
         DEF ParentStep
  <2>3. ASSUME NEW h \in Helper, ChildStep(h) PROVE Untouched
    <3>1. CASE Enter(h) \/ CryptOpen(h) \/ Mount(h) \/ CloseLookup(h)
               \/ CloseGo(h) \/ CloseUmount(h) \/ CloseDevice(h)
      BY <3>1 DEF Enter, CryptOpen, Mount, CloseLookup, CloseGo, CloseUmount,
                  CloseDevice
    <3>2. CASE ExecLeader(h) \/ AddExit(h) \/ ChildFails(h) \/ CloseGivesUp(h)
      BY <3>2 DEF ExecLeader, AddExit, ChildFails, CloseGivesUp
    <3>3. CASE CloseUnlist(h)
      BY <3>3 DEF CloseUnlist
    <3> QED
      BY <2>3, <3>1, <3>2, <3>3 DEF ChildStep
  <2>4. ASSUME NEW h \in Helper, CleanupStep(h) PROVE Untouched
    <3>1. CASE CleanupNoLock(h) \/ CleanupProceeds(h) \/ CleanupClose(h)
      BY <3>1 DEF CleanupNoLock, CleanupProceeds, CleanupClose
    <3>2. CASE CleanupFlock(h) \/ CleanupWithoutFlock(h)
      BY <3>2 DEF CleanupFlock, CleanupWithoutFlock, CleanupRead
    <3>3. CASE CleanupSparesLive(h) \/ CleanupGivesUp(h)
      BY <3>3 DEF CleanupSparesLive, CleanupGivesUp, CleanupExit
    <3>4. CASE CleanupUnlink(h)
      BY <3>4 DEF CleanupUnlink, CleanupExit, NoLock
    <3> QED
      BY <2>4, <3>1, <3>2, <3>3, <3>4 DEF CleanupStep
  <2>5. ASSUME NEW h \in Helper, Environment(h) PROVE OwnFiles'
    <3>1. CASE LeaderDies(h) \/ AppStarts(h) \/ AppExits(h) \/ ReleaseNamespace(h)
      <4>1. Untouched
        BY <3>1 DEF LeaderDies, AppStarts, AppExits, ReleaseNamespace
      <4> QED
        BY <1>1, <4>1
    <3>2. CASE KillParent(h)
      BY <3>2 DEF KillParent
    <3> QED
      BY <2>5, <3>1, <3>2 DEF Environment
  <2>6. ASSUME UNCHANGED vars PROVE Untouched
    BY <2>6 DEF vars
  <2> QED
    BY <1>1, <2>1, <2>2, <2>3, <2>4, <2>5, <2>6 DEF Next

\* A teardown removes only what is its own, whoever is impatient and whoever is
\* killed: the lock has its generation, or a cleanup already removed it, and the
\* pidfile it drops names no live leader (teardown, remove_pidfile_if).
THEOREM TeardownTakesOwn == Spec => TeardownOnlyOwn
<1>1. Init => OwnFiles
  BY DEF Init, OwnFiles, ParentHolds, TearsDown
<1>2. TypeOK /\ OwnFiles /\ [Next]_vars => OwnFiles'
  BY OwnFilesKept
<1> DEFINE Own == \A h \in Helper :
                pc[h] \in {"unlinkAll", "unlinkPid"} /\ pc'[h] = "done" =>
                    /\ lock.gen \in {h, None}
                    /\ \A b \in Helper :
                          LiveSession(b) /\ pidfile = b => pidfile' = b
<1>3. TypeOK /\ OwnFiles /\ [Next]_vars => [Own]_vars
  <2> SUFFICES ASSUME TypeOK, OwnFiles, Next, NEW h \in Helper,
                      pc[h] \in {"unlinkAll", "unlinkPid"}, pc'[h] = "done"
               PROVE  /\ lock.gen \in {h, None}
                      /\ \A b \in Helper :
                            LiveSession(b) /\ pidfile = b => pidfile' = b
    OBVIOUS
  <2>1. lock.gen \in {h, None} /\ child[h] = "gone"
    BY DEF OwnFiles, TearsDown
  <2>2. TeardownFiles(h)
    <3> USE DEF TypeOK, ParentPhase, Goto, runVars, fileVars, devVars
    <3>1. ASSUME NEW g \in Helper, Start(g) PROVE FALSE
      BY <3>1 DEF Start, JoinSession, BecomeBootstrap, Declined, EmptyIsUp,
                  CloseJoin, CloseNoSession
    <3>2. ASSUME NEW g \in Helper, ParentStep(g) PROVE TeardownFiles(h)
      <4>1. CASE Recover(g) \/ CreateLock(g) \/ ForkLeader(g) \/ WritePidfile(g)
                 \/ Reap(g) \/ InitReaps(g) \/ NotOurs(g) \/ Ours(g)
        BY <4>1 DEF Recover, CreateLock, ForkLeader, WritePidfile, Reap,
                    InitReaps, NotOurs, Ours
      <4>2. CASE TeardownClose(g) \/ AddRefused(g) \/ AddAppend(g) \/ AddFork(g)
                 \/ AddDone(g) \/ AddFailed(g) \/ CloseExit(g)
        BY <4>2 DEF TeardownClose, AddRefused, AddAppend, AddFork, AddDone,
                    AddFailed, CloseExit
      <4>3. CASE TeardownFiles(g)
        <5>1. g = h
          BY <4>3 DEF TeardownFiles
        <5> QED
          BY <4>3, <5>1
      <4> QED
        BY <3>2, <4>1, <4>2, <4>3 DEF ParentStep
    <3>3. ASSUME NEW g \in Helper, ChildStep(g) PROVE FALSE
      BY <3>3 DEF ChildStep, Enter, CryptOpen, Mount, ExecLeader, AddExit,
                  ChildFails, CloseLookup, CloseGo, CloseUmount, CloseDevice,
                  CloseUnlist, CloseGivesUp
    <3>4. ASSUME NEW g \in Helper, CleanupStep(g) PROVE FALSE
      BY <3>4 DEF CleanupStep, CleanupNoLock, CleanupFlock, CleanupWithoutFlock,
                  CleanupRead, CleanupSparesLive, CleanupProceeds, CleanupClose,
                  CleanupGivesUp, CleanupUnlink
    <3>5. ASSUME NEW g \in Helper, Environment(g) PROVE FALSE
      BY <3>5 DEF Environment, LeaderDies, AppStarts, AppExits,
                  ReleaseNamespace, KillParent
    <3> QED
      BY <3>1, <3>2, <3>3, <3>4, <3>5 DEF Next
  <2>3. pidfile' = IF pidfile = h THEN None ELSE pidfile
    BY <2>2 DEF TeardownFiles
  <2> QED
    BY <2>1, <2>3 DEF LiveSession, Running
<1> QED
  BY <1>1, <1>2, <1>3, TypeCorrect, PTL DEF Spec, TeardownOnlyOwn

-----------------------------------------------------------------------------
\* The flock admits one run at a time, whatever it does.
LEMMA DisciplineKept ==
    ASSUME Patient, TypeOK, Discipline, [Next]_vars
    PROVE  Discipline'
<1> USE
    DEF TypeOK, Patient, Bootstrap, Discipline, Holders, Exclusive, Phases,
        Active, ParentHolds, ChildHolds, CleanupHolds, Running, Goto,
        ChildGoto, CleanGoto, runVars, fileVars, devVars, Parent, Child,
        Cleanup
<1> QED
  <2>1. ASSUME NEW h \in Helper, Start(h) PROVE Discipline'
    <3>1. CASE \E s \in Source : JoinSession(h, s)
      BY <3>1 DEF JoinSession, Verified
    <3>2. CASE \E s \in Source \union {NoSource} : BecomeBootstrap(h, s)
      BY <3>2 DEF BecomeBootstrap, Verified
    <3>3. CASE Declined(h)
      BY <3>3 DEF Declined
    <3>4. CASE EmptyIsUp(h)
      BY <3>4 DEF EmptyIsUp
    <3>5. CASE CloseJoin(h)
      BY <3>5 DEF CloseJoin, Verified
    <3>6. CASE CloseNoSession(h)
      BY <3>6 DEF CloseNoSession
    <3> QED
      BY <2>1, <3>1, <3>2, <3>3, <3>4, <3>5, <3>6 DEF Start
  <2>2. ASSUME NEW h \in Helper, ParentStep(h) PROVE Discipline'
    <3>1. CASE Recover(h)
      BY <3>1 DEF Recover, NoLock, Drop, CloseOutcomes
    <3>2. CASE CreateLock(h)
      BY <3>2 DEF CreateLock
    <3>3. CASE ForkLeader(h)
      BY <3>3 DEF ForkLeader
    <3>4. CASE WritePidfile(h)
      BY <3>4 DEF WritePidfile
    <3>5. CASE Reap(h)
      BY <3>5 DEF Reap
    <3>6. CASE InitReaps(h)
      BY <3>6 DEF InitReaps
    <3>7. CASE NotOurs(h)
      BY <3>7 DEF NotOurs
    <3>8. CASE Ours(h)
      BY <3>8 DEF Ours
    <3>9. CASE TeardownClose(h)
      BY <3>9 DEF TeardownClose, Drop, CloseOutcomes
    <3>10. CASE TeardownFiles(h)
      BY <3>10 DEF TeardownFiles, NoLock
    <3>11. CASE AddRefused(h)
      BY <3>11 DEF AddRefused
    <3>12. CASE AddAppend(h)
      BY <3>12 DEF AddAppend, AlreadyOpen
    <3>13. CASE AddFork(h)
      BY <3>13 DEF AddFork
    <3>14. CASE AddDone(h)
      BY <3>14 DEF AddDone
    <3>15. CASE AddFailed(h)
      BY <3>15 DEF AddFailed, Drop, CloseOutcomes
    <3>16. CASE CloseExit(h)
      BY <3>16 DEF CloseExit
    <3> QED
      BY <2>2, <3>1, <3>2, <3>3, <3>4, <3>5, <3>6, <3>7, <3>8, <3>9, <3>10,
         <3>11, <3>12, <3>13, <3>14, <3>15, <3>16 DEF ParentStep
  <2>3. ASSUME NEW h \in Helper, ChildStep(h) PROVE Discipline'
    <3>1. CASE Enter(h)
      BY <3>1 DEF Enter
    <3>2. CASE CryptOpen(h)
      BY <3>2 DEF CryptOpen
    <3>3. CASE Mount(h)
      BY <3>3 DEF Mount
    <3>4. CASE ExecLeader(h)
      BY <3>4 DEF ExecLeader
    <3>5. CASE AddExit(h)
      BY <3>5 DEF AddExit
    <3>6. CASE ChildFails(h)
      BY <3>6 DEF ChildFails
    <3>7. CASE CloseLookup(h)
      BY <3>7 DEF CloseLookup, InSession
    <3>8. CASE CloseGo(h)
      BY <3>8 DEF CloseGo
    <3>9. CASE CloseUmount(h)
      BY <3>9 DEF CloseUmount
    <3>10. CASE CloseDevice(h)
      BY <3>10 DEF CloseDevice
    <3>11. CASE CloseUnlist(h)
      BY <3>11 DEF CloseUnlist
    <3>12. CASE CloseGivesUp(h)
      BY <3>12 DEF CloseGivesUp
    <3> QED
      BY <2>3, <3>1, <3>2, <3>3, <3>4, <3>5, <3>6, <3>7, <3>8, <3>9, <3>10,
         <3>11, <3>12 DEF ChildStep
  <2>4. ASSUME NEW h \in Helper, CleanupStep(h) PROVE Discipline'
    <3>1. CASE CleanupNoLock(h)
      BY <3>1 DEF CleanupNoLock
    <3>2. CASE CleanupFlock(h)
      BY <3>2 DEF CleanupFlock, CleanupRead
    <3>3. CASE CleanupWithoutFlock(h)
      BY <3>3 DEF CleanupWithoutFlock, CleanupRead
    <3>4. CASE CleanupSparesLive(h)
      BY <3>4 DEF CleanupSparesLive, LeaderAlive, CleanupExit
    <3>5. CASE CleanupProceeds(h)
      BY <3>5 DEF CleanupProceeds, LeaderAlive
    <3>6. CASE CleanupClose(h)
      BY <3>6 DEF CleanupClose
    <3>7. CASE CleanupGivesUp(h)
      BY <3>7 DEF CleanupGivesUp, CleanupExit, Pinned, Occupied, Inside
    <3>8. CASE CleanupUnlink(h)
      BY <3>8 DEF CleanupUnlink, CleanupExit, NoLock
    <3> QED
      BY <2>4, <3>1, <3>2, <3>3, <3>4, <3>5, <3>6, <3>7, <3>8 DEF CleanupStep
  <2>5. ASSUME NEW h \in Helper, Environment(h) PROVE Discipline'
    <3>1. CASE LeaderDies(h)
      BY <3>1 DEF LeaderDies
    <3>2. CASE AppStarts(h)
      BY <3>2 DEF AppStarts
    <3>3. CASE AppExits(h)
      BY <3>3 DEF AppExits
    <3>4. CASE ReleaseNamespace(h)
      BY <3>4 DEF ReleaseNamespace
    <3>5. CASE KillParent(h)
      BY <3>5 DEF KillParent
    <3> QED
      BY <2>5, <3>1, <3>2, <3>3, <3>4, <3>5 DEF Environment
  <2>6. ASSUME UNCHANGED vars PROVE Discipline'
    BY <2>6 DEF vars
  <2> QED
    BY <2>1, <2>2, <2>3, <2>4, <2>5, <2>6 DEF Next

\* A live session keeps the lock and the pidfile: nobody who replaces or
\* removes them acts while one is up.
LEMMA OwnershipKept ==
    ASSUME Patient, TypeOK, Discipline, Ownership, [Next]_vars
    PROVE  Ownership'
<1> USE SessionAssumption
    DEF TypeOK, Patient, Bootstrap, Discipline, Holders, Exclusive, Phases,
        Active, ParentHolds, ChildHolds, CleanupHolds, Running, Ownership,
        LockOwner, Owned, NoneLive, LiveSession, Goto, ChildGoto, CleanGoto,
        runVars, fileVars, devVars, Parent, Child, Cleanup
<1> QED
  <2>1. ASSUME NEW h \in Helper, Start(h) PROVE Ownership'
    <3>1. CASE \E s \in Source : JoinSession(h, s)
      BY <3>1 DEF JoinSession, Verified
    <3>2. CASE \E s \in Source \union {NoSource} : BecomeBootstrap(h, s)
      BY <3>2 DEF BecomeBootstrap, Verified
    <3>3. CASE Declined(h)
      BY <3>3 DEF Declined
    <3>4. CASE EmptyIsUp(h)
      BY <3>4 DEF EmptyIsUp
    <3>5. CASE CloseJoin(h)
      BY <3>5 DEF CloseJoin, Verified
    <3>6. CASE CloseNoSession(h)
      BY <3>6 DEF CloseNoSession
    <3> QED
      BY <2>1, <3>1, <3>2, <3>3, <3>4, <3>5, <3>6 DEF Start
  <2>2. ASSUME NEW h \in Helper, ParentStep(h) PROVE Ownership'
    <3>1. CASE Recover(h)
      BY <3>1 DEF Recover, NoLock, Drop, CloseOutcomes
    <3>2. CASE CreateLock(h)
      BY <3>2 DEF CreateLock
    <3>3. CASE ForkLeader(h)
      BY <3>3 DEF ForkLeader
    <3>4. CASE WritePidfile(h)
      BY <3>4 DEF WritePidfile
    <3>5. CASE Reap(h)
      BY <3>5 DEF Reap
    <3>6. CASE InitReaps(h)
      BY <3>6 DEF InitReaps
    <3>7. CASE NotOurs(h)
      BY <3>7 DEF NotOurs
    <3>8. CASE Ours(h)
      BY <3>8 DEF Ours
    <3>9. CASE TeardownClose(h)
      BY <3>9 DEF TeardownClose, Drop, CloseOutcomes
    <3>10. CASE TeardownFiles(h)
      BY <3>10 DEF TeardownFiles, NoLock
    <3>11. CASE AddRefused(h)
      BY <3>11 DEF AddRefused
    <3>12. CASE AddAppend(h)
      BY <3>12 DEF AddAppend, AlreadyOpen
    <3>13. CASE AddFork(h)
      BY <3>13 DEF AddFork
    <3>14. CASE AddDone(h)
      BY <3>14 DEF AddDone
    <3>15. CASE AddFailed(h)
      BY <3>15 DEF AddFailed, Drop, CloseOutcomes
    <3>16. CASE CloseExit(h)
      BY <3>16 DEF CloseExit
    <3> QED
      BY <2>2, <3>1, <3>2, <3>3, <3>4, <3>5, <3>6, <3>7, <3>8, <3>9, <3>10,
         <3>11, <3>12, <3>13, <3>14, <3>15, <3>16 DEF ParentStep
  <2>3. ASSUME NEW h \in Helper, ChildStep(h) PROVE Ownership'
    <3>1. CASE Enter(h)
      BY <3>1 DEF Enter
    <3>2. CASE CryptOpen(h)
      BY <3>2 DEF CryptOpen
    <3>3. CASE Mount(h)
      BY <3>3 DEF Mount
    <3>4. CASE ExecLeader(h)
      BY <3>4 DEF ExecLeader
    <3>5. CASE AddExit(h)
      BY <3>5 DEF AddExit
    <3>6. CASE ChildFails(h)
      BY <3>6 DEF ChildFails
    <3>7. CASE CloseLookup(h)
      BY <3>7 DEF CloseLookup, InSession
    <3>8. CASE CloseGo(h)
      BY <3>8 DEF CloseGo
    <3>9. CASE CloseUmount(h)
      BY <3>9 DEF CloseUmount
    <3>10. CASE CloseDevice(h)
      BY <3>10 DEF CloseDevice
    <3>11. CASE CloseUnlist(h)
      BY <3>11 DEF CloseUnlist
    <3>12. CASE CloseGivesUp(h)
      BY <3>12 DEF CloseGivesUp
    <3> QED
      BY <2>3, <3>1, <3>2, <3>3, <3>4, <3>5, <3>6, <3>7, <3>8, <3>9, <3>10,
         <3>11, <3>12 DEF ChildStep
  <2>4. ASSUME NEW h \in Helper, CleanupStep(h) PROVE Ownership'
    <3>1. CASE CleanupNoLock(h)
      BY <3>1 DEF CleanupNoLock
    <3>2. CASE CleanupFlock(h)
      BY <3>2 DEF CleanupFlock, CleanupRead
    <3>3. CASE CleanupWithoutFlock(h)
      BY <3>3 DEF CleanupWithoutFlock, CleanupRead
    <3>4. CASE CleanupSparesLive(h)
      BY <3>4 DEF CleanupSparesLive, LeaderAlive, CleanupExit
    <3>5. CASE CleanupProceeds(h)
      BY <3>5 DEF CleanupProceeds, LeaderAlive
    <3>6. CASE CleanupClose(h)
      BY <3>6 DEF CleanupClose
    <3>7. CASE CleanupGivesUp(h)
      BY <3>7 DEF CleanupGivesUp, CleanupExit, Pinned, Occupied, Inside
    <3>8. CASE CleanupUnlink(h)
      BY <3>8 DEF CleanupUnlink, CleanupExit, NoLock
    <3> QED
      BY <2>4, <3>1, <3>2, <3>3, <3>4, <3>5, <3>6, <3>7, <3>8 DEF CleanupStep
  <2>5. ASSUME NEW h \in Helper, Environment(h) PROVE Ownership'
    <3>1. CASE LeaderDies(h)
      BY <3>1 DEF LeaderDies
    <3>2. CASE AppStarts(h)
      BY <3>2 DEF AppStarts
    <3>3. CASE AppExits(h)
      BY <3>3 DEF AppExits
    <3>4. CASE ReleaseNamespace(h)
      BY <3>4 DEF ReleaseNamespace
    <3>5. CASE KillParent(h)
      BY <3>5 DEF KillParent
    <3> QED
      BY <2>5, <3>1, <3>2, <3>3, <3>4, <3>5 DEF Environment
  <2>6. ASSUME UNCHANGED vars PROVE Ownership'
    BY <2>6 DEF vars
  <2> QED
    BY <2>1, <2>2, <2>3, <2>4, <2>5, <2>6 DEF Next

\* Nothing is opened unlisted, and nothing open is unlisted.
LEMMA RecordingKept ==
    ASSUME Patient, TypeOK, Discipline, Ownership, Recording, [Next]_vars
    PROVE  Recording'
<1> USE SessionAssumption
    DEF TypeOK, Patient, Bootstrap, Discipline, Holders, Exclusive, Phases,
        Active, ParentHolds, ChildHolds, CleanupHolds, Running, LockOwner,
        Ownership, Recording, Listed, Settled, Tracked, Goto, ChildGoto,
        CleanGoto, runVars, fileVars, devVars, Parent, Child, Cleanup
<1> QED
  <2>1. ASSUME NEW h \in Helper, Start(h) PROVE Recording'
    <3>1. CASE \E s \in Source : JoinSession(h, s)
      BY <3>1 DEF JoinSession, Verified
    <3>2. CASE \E s \in Source \union {NoSource} : BecomeBootstrap(h, s)
      BY <3>2 DEF BecomeBootstrap, Verified
    <3>3. CASE Declined(h)
      BY <3>3 DEF Declined
    <3>4. CASE EmptyIsUp(h)
      BY <3>4 DEF EmptyIsUp
    <3>5. CASE CloseJoin(h)
      BY <3>5 DEF CloseJoin, Verified
    <3>6. CASE CloseNoSession(h)
      BY <3>6 DEF CloseNoSession
    <3> QED
      BY <2>1, <3>1, <3>2, <3>3, <3>4, <3>5, <3>6 DEF Start
  <2>2. ASSUME NEW h \in Helper, ParentStep(h) PROVE Recording'
    <3>1. CASE Recover(h)
      BY <3>1 DEF Recover, NoLock, Drop, CloseOutcomes
    <3>2. CASE CreateLock(h)
      BY <3>2 DEF CreateLock
    <3>3. CASE ForkLeader(h)
      BY <3>3 DEF ForkLeader
    <3>4. CASE WritePidfile(h)
      BY <3>4 DEF WritePidfile
    <3>5. CASE Reap(h)
      BY <3>5 DEF Reap
    <3>6. CASE InitReaps(h)
      BY <3>6 DEF InitReaps
    <3>7. CASE NotOurs(h)
      BY <3>7 DEF NotOurs
    <3>8. CASE Ours(h)
      BY <3>8 DEF Ours
    <3>9. CASE TeardownClose(h)
      BY <3>9 DEF TeardownClose, Drop, CloseOutcomes
    <3>10. CASE TeardownFiles(h)
      BY <3>10 DEF TeardownFiles, NoLock
    <3>11. CASE AddRefused(h)
      BY <3>11 DEF AddRefused
    <3>12. CASE AddAppend(h)
      BY <3>12 DEF AddAppend, AlreadyOpen
    <3>13. CASE AddFork(h)
      BY <3>13 DEF AddFork
    <3>14. CASE AddDone(h)
      BY <3>14 DEF AddDone
    <3>15. CASE AddFailed(h)
      BY <3>15 DEF AddFailed, Drop, CloseOutcomes
    <3>16. CASE CloseExit(h)
      BY <3>16 DEF CloseExit
    <3> QED
      BY <2>2, <3>1, <3>2, <3>3, <3>4, <3>5, <3>6, <3>7, <3>8, <3>9, <3>10,
         <3>11, <3>12, <3>13, <3>14, <3>15, <3>16 DEF ParentStep
  <2>3. ASSUME NEW h \in Helper, ChildStep(h) PROVE Recording'
    <3>1. CASE Enter(h)
      BY <3>1 DEF Enter
    <3>2. CASE CryptOpen(h)
      BY <3>2 DEF CryptOpen
    <3>3. CASE Mount(h)
      BY <3>3 DEF Mount
    <3>4. CASE ExecLeader(h)
      BY <3>4 DEF ExecLeader
    <3>5. CASE AddExit(h)
      BY <3>5 DEF AddExit
    <3>6. CASE ChildFails(h)
      BY <3>6 DEF ChildFails
    <3>7. CASE CloseLookup(h)
      BY <3>7 DEF CloseLookup, InSession
    <3>8. CASE CloseGo(h)
      BY <3>8 DEF CloseGo
    <3>9. CASE CloseUmount(h)
      BY <3>9 DEF CloseUmount
    <3>10. CASE CloseDevice(h)
      BY <3>10 DEF CloseDevice
    <3>11. CASE CloseUnlist(h)
      BY <3>11 DEF CloseUnlist
    <3>12. CASE CloseGivesUp(h)
      BY <3>12 DEF CloseGivesUp
    <3> QED
      BY <2>3, <3>1, <3>2, <3>3, <3>4, <3>5, <3>6, <3>7, <3>8, <3>9, <3>10,
         <3>11, <3>12 DEF ChildStep
  <2>4. ASSUME NEW h \in Helper, CleanupStep(h) PROVE Recording'
    <3>1. CASE CleanupNoLock(h)
      BY <3>1 DEF CleanupNoLock
    <3>2. CASE CleanupFlock(h)
      BY <3>2 DEF CleanupFlock, CleanupRead
    <3>3. CASE CleanupWithoutFlock(h)
      BY <3>3 DEF CleanupWithoutFlock, CleanupRead
    <3>4. CASE CleanupSparesLive(h)
      BY <3>4 DEF CleanupSparesLive, LeaderAlive, CleanupExit
    <3>5. CASE CleanupProceeds(h)
      BY <3>5 DEF CleanupProceeds, LeaderAlive
    <3>6. CASE CleanupClose(h)
      BY <3>6 DEF CleanupClose
    <3>7. CASE CleanupGivesUp(h)
      BY <3>7 DEF CleanupGivesUp, CleanupExit, Pinned, Occupied, Inside
    <3>8. CASE CleanupUnlink(h)
      BY <3>8 DEF CleanupUnlink, CleanupExit, NoLock
    <3> QED
      BY <2>4, <3>1, <3>2, <3>3, <3>4, <3>5, <3>6, <3>7, <3>8 DEF CleanupStep
  <2>5. ASSUME NEW h \in Helper, Environment(h) PROVE Recording'
    <3>1. CASE LeaderDies(h)
      BY <3>1 DEF LeaderDies
    <3>2. CASE AppStarts(h)
      BY <3>2 DEF AppStarts
    <3>3. CASE AppExits(h)
      BY <3>3 DEF AppExits
    <3>4. CASE ReleaseNamespace(h)
      BY <3>4 DEF ReleaseNamespace
    <3>5. CASE KillParent(h)
      BY <3>5 DEF KillParent
    <3> QED
      BY <2>5, <3>1, <3>2, <3>3, <3>4, <3>5 DEF Environment
  <2>6. ASSUME UNCHANGED vars PROVE Recording'
    BY <2>6 DEF vars
  <2> QED
    BY <2>1, <2>2, <2>3, <2>4, <2>5, <2>6 DEF Next

\* The duplicate-open guard, checked at the append, still holds at the open.
LEMMA GuardKept ==
    ASSUME Patient, TypeOK, Discipline, Ownership, Recording, Guarded, OneDevicePerSource, [Next]_vars
    PROVE  (Guarded /\ OneDevicePerSource)'
<1> USE SessionAssumption
    DEF TypeOK, Bootstrap, Discipline, Holders, Exclusive, Phases, Active,
        ParentHolds, ChildHolds, CleanupHolds, Running, Ownership, LockOwner,
        Owned, LiveSession, Recording, Listed, Tracked, Guarded,
        OneDevicePerSource, Goto, ChildGoto, CleanGoto, runVars, fileVars,
        devVars, Parent, Child, Cleanup
<1> QED
  <2>1. ASSUME NEW h \in Helper, Start(h) PROVE (Guarded /\ OneDevicePerSource)'
    <3>1. CASE \E s \in Source : JoinSession(h, s)
      BY <3>1 DEF JoinSession, Verified
    <3>2. CASE \E s \in Source \union {NoSource} : BecomeBootstrap(h, s)
      BY <3>2 DEF BecomeBootstrap, Verified
    <3>3. CASE Declined(h)
      BY <3>3 DEF Declined
    <3>4. CASE EmptyIsUp(h)
      BY <3>4 DEF EmptyIsUp
    <3>5. CASE CloseJoin(h)
      BY <3>5 DEF CloseJoin, Verified
    <3>6. CASE CloseNoSession(h)
      BY <3>6 DEF CloseNoSession
    <3> QED
      BY <2>1, <3>1, <3>2, <3>3, <3>4, <3>5, <3>6 DEF Start
  <2>2. ASSUME NEW h \in Helper, ParentStep(h) PROVE (Guarded /\ OneDevicePerSource)'
    <3>1. CASE Recover(h)
      BY <3>1 DEF Recover, NoLock, Drop, CloseOutcomes
    <3>2. CASE CreateLock(h)
      BY <3>2 DEF CreateLock
    <3>3. CASE ForkLeader(h)
      BY <3>3 DEF ForkLeader
    <3>4. CASE WritePidfile(h)
      BY <3>4 DEF WritePidfile
    <3>5. CASE Reap(h)
      BY <3>5 DEF Reap
    <3>6. CASE InitReaps(h)
      BY <3>6 DEF InitReaps
    <3>7. CASE NotOurs(h)
      BY <3>7 DEF NotOurs
    <3>8. CASE Ours(h)
      BY <3>8 DEF Ours
    <3>9. CASE TeardownClose(h)
      BY <3>9 DEF TeardownClose, Drop, CloseOutcomes
    <3>10. CASE TeardownFiles(h)
      BY <3>10 DEF TeardownFiles, NoLock
    <3>11. CASE AddRefused(h)
      BY <3>11 DEF AddRefused
    <3>12. CASE AddAppend(h)
      BY <3>12 DEF AddAppend, AlreadyOpen
    <3>13. CASE AddFork(h)
      BY <3>13 DEF AddFork
    <3>14. CASE AddDone(h)
      BY <3>14 DEF AddDone
    <3>15. CASE AddFailed(h)
      BY <3>15 DEF AddFailed, Drop, CloseOutcomes
    <3>16. CASE CloseExit(h)
      BY <3>16 DEF CloseExit
    <3> QED
      BY <2>2, <3>1, <3>2, <3>3, <3>4, <3>5, <3>6, <3>7, <3>8, <3>9, <3>10,
         <3>11, <3>12, <3>13, <3>14, <3>15, <3>16 DEF ParentStep
  <2>3. ASSUME NEW h \in Helper, ChildStep(h) PROVE (Guarded /\ OneDevicePerSource)'
    <3>1. CASE Enter(h)
      BY <3>1 DEF Enter
    <3>2. CASE CryptOpen(h)
      BY <3>2 DEF CryptOpen
    <3>3. CASE Mount(h)
      BY <3>3 DEF Mount
    <3>4. CASE ExecLeader(h)
      BY <3>4 DEF ExecLeader
    <3>5. CASE AddExit(h)
      BY <3>5 DEF AddExit
    <3>6. CASE ChildFails(h)
      BY <3>6 DEF ChildFails
    <3>7. CASE CloseLookup(h)
      BY <3>7 DEF CloseLookup, InSession
    <3>8. CASE CloseGo(h)
      BY <3>8 DEF CloseGo
    <3>9. CASE CloseUmount(h)
      BY <3>9 DEF CloseUmount
    <3>10. CASE CloseDevice(h)
      BY <3>10 DEF CloseDevice
    <3>11. CASE CloseUnlist(h)
      BY <3>11 DEF CloseUnlist
    <3>12. CASE CloseGivesUp(h)
      BY <3>12 DEF CloseGivesUp
    <3> QED
      BY <2>3, <3>1, <3>2, <3>3, <3>4, <3>5, <3>6, <3>7, <3>8, <3>9, <3>10,
         <3>11, <3>12 DEF ChildStep
  <2>4. ASSUME NEW h \in Helper, CleanupStep(h) PROVE (Guarded /\ OneDevicePerSource)'
    <3>1. CASE CleanupNoLock(h)
      BY <3>1 DEF CleanupNoLock
    <3>2. CASE CleanupFlock(h)
      BY <3>2 DEF CleanupFlock, CleanupRead
    <3>3. CASE CleanupWithoutFlock(h)
      BY <3>3 DEF CleanupWithoutFlock, CleanupRead
    <3>4. CASE CleanupSparesLive(h)
      BY <3>4 DEF CleanupSparesLive, LeaderAlive, CleanupExit
    <3>5. CASE CleanupProceeds(h)
      BY <3>5 DEF CleanupProceeds, LeaderAlive
    <3>6. CASE CleanupClose(h)
      BY <3>6 DEF CleanupClose
    <3>7. CASE CleanupGivesUp(h)
      BY <3>7 DEF CleanupGivesUp, CleanupExit, Pinned, Occupied, Inside
    <3>8. CASE CleanupUnlink(h)
      BY <3>8 DEF CleanupUnlink, CleanupExit, NoLock
    <3> QED
      BY <2>4, <3>1, <3>2, <3>3, <3>4, <3>5, <3>6, <3>7, <3>8 DEF CleanupStep
  <2>5. ASSUME NEW h \in Helper, Environment(h) PROVE (Guarded /\ OneDevicePerSource)'
    <3>1. CASE LeaderDies(h)
      BY <3>1 DEF LeaderDies
    <3>2. CASE AppStarts(h)
      BY <3>2 DEF AppStarts
    <3>3. CASE AppExits(h)
      BY <3>3 DEF AppExits
    <3>4. CASE ReleaseNamespace(h)
      BY <3>4 DEF ReleaseNamespace
    <3>5. CASE KillParent(h)
      BY <3>5 DEF KillParent
    <3> QED
      BY <2>5, <3>1, <3>2, <3>3, <3>4, <3>5 DEF Environment
  <2>6. ASSUME UNCHANGED vars PROVE (Guarded /\ OneDevicePerSource)'
    BY <2>6 DEF vars
  <2> QED
    BY <2>1, <2>2, <2>3, <2>4, <2>5, <2>6 DEF Next

\* Every lock has an owner whose teardown or cleanup is still to come.
LEMMA AccountKept ==
    ASSUME Patient, TypeOK, Discipline, Ownership, Accounted, [Next]_vars
    PROVE  Accounted'
<1> USE SessionAssumption
    DEF TypeOK, Bootstrap, Discipline, Holders, Exclusive, Phases, Active,
        ParentHolds, ChildHolds, CleanupHolds, Running, Ownership, LockOwner,
        Owned, NoneLive, LiveSession, Accounted, BootstrapPhase, Goto,
        ChildGoto, CleanGoto, runVars, fileVars, devVars, Parent, Child,
        Cleanup
<1> QED
  <2>1. ASSUME NEW h \in Helper, Start(h) PROVE Accounted'
    <3>1. CASE \E s \in Source : JoinSession(h, s)
      BY <3>1 DEF JoinSession, Verified
    <3>2. CASE \E s \in Source \union {NoSource} : BecomeBootstrap(h, s)
      BY <3>2 DEF BecomeBootstrap, Verified
    <3>3. CASE Declined(h)
      BY <3>3 DEF Declined
    <3>4. CASE EmptyIsUp(h)
      BY <3>4 DEF EmptyIsUp
    <3>5. CASE CloseJoin(h)
      BY <3>5 DEF CloseJoin, Verified
    <3>6. CASE CloseNoSession(h)
      BY <3>6 DEF CloseNoSession
    <3> QED
      BY <2>1, <3>1, <3>2, <3>3, <3>4, <3>5, <3>6 DEF Start
  <2>2. ASSUME NEW h \in Helper, ParentStep(h) PROVE Accounted'
    <3>1. CASE Recover(h)
      BY <3>1 DEF Recover, NoLock, Drop, CloseOutcomes
    <3>2. CASE CreateLock(h)
      BY <3>2 DEF CreateLock
    <3>3. CASE ForkLeader(h)
      BY <3>3 DEF ForkLeader
    <3>4. CASE WritePidfile(h)
      BY <3>4 DEF WritePidfile
    <3>5. CASE Reap(h)
      BY <3>5 DEF Reap
    <3>6. CASE InitReaps(h)
      BY <3>6 DEF InitReaps
    <3>7. CASE NotOurs(h)
      BY <3>7 DEF NotOurs
    <3>8. CASE Ours(h)
      BY <3>8 DEF Ours
    <3>9. CASE TeardownClose(h)
      BY <3>9 DEF TeardownClose, Drop, CloseOutcomes
    <3>10. CASE TeardownFiles(h)
      BY <3>10 DEF TeardownFiles, NoLock
    <3>11. CASE AddRefused(h)
      BY <3>11 DEF AddRefused
    <3>12. CASE AddAppend(h)
      BY <3>12 DEF AddAppend, AlreadyOpen
    <3>13. CASE AddFork(h)
      BY <3>13 DEF AddFork
    <3>14. CASE AddDone(h)
      BY <3>14 DEF AddDone
    <3>15. CASE AddFailed(h)
      BY <3>15 DEF AddFailed, Drop, CloseOutcomes
    <3>16. CASE CloseExit(h)
      BY <3>16 DEF CloseExit
    <3> QED
      BY <2>2, <3>1, <3>2, <3>3, <3>4, <3>5, <3>6, <3>7, <3>8, <3>9, <3>10,
         <3>11, <3>12, <3>13, <3>14, <3>15, <3>16 DEF ParentStep
  <2>3. ASSUME NEW h \in Helper, ChildStep(h) PROVE Accounted'
    <3>1. CASE Enter(h)
      BY <3>1 DEF Enter
    <3>2. CASE CryptOpen(h)
      BY <3>2 DEF CryptOpen
    <3>3. CASE Mount(h)
      BY <3>3 DEF Mount
    <3>4. CASE ExecLeader(h)
      BY <3>4 DEF ExecLeader
    <3>5. CASE AddExit(h)
      BY <3>5 DEF AddExit
    <3>6. CASE ChildFails(h)
      BY <3>6 DEF ChildFails
    <3>7. CASE CloseLookup(h)
      BY <3>7 DEF CloseLookup, InSession
    <3>8. CASE CloseGo(h)
      BY <3>8 DEF CloseGo
    <3>9. CASE CloseUmount(h)
      BY <3>9 DEF CloseUmount
    <3>10. CASE CloseDevice(h)
      BY <3>10 DEF CloseDevice
    <3>11. CASE CloseUnlist(h)
      BY <3>11 DEF CloseUnlist
    <3>12. CASE CloseGivesUp(h)
      BY <3>12 DEF CloseGivesUp
    <3> QED
      BY <2>3, <3>1, <3>2, <3>3, <3>4, <3>5, <3>6, <3>7, <3>8, <3>9, <3>10,
         <3>11, <3>12 DEF ChildStep
  <2>4. ASSUME NEW h \in Helper, CleanupStep(h) PROVE Accounted'
    <3>1. CASE CleanupNoLock(h)
      BY <3>1 DEF CleanupNoLock
    <3>2. CASE CleanupFlock(h)
      BY <3>2 DEF CleanupFlock, CleanupRead
    <3>3. CASE CleanupWithoutFlock(h)
      BY <3>3 DEF CleanupWithoutFlock, CleanupRead
    <3>4. CASE CleanupSparesLive(h)
      BY <3>4 DEF CleanupSparesLive, LeaderAlive, CleanupExit
    <3>5. CASE CleanupProceeds(h)
      BY <3>5 DEF CleanupProceeds, LeaderAlive
    <3>6. CASE CleanupClose(h)
      BY <3>6 DEF CleanupClose
    <3>7. CASE CleanupGivesUp(h)
      BY <3>7 DEF CleanupGivesUp, CleanupExit, Pinned, Occupied, Inside
    <3>8. CASE CleanupUnlink(h)
      BY <3>8 DEF CleanupUnlink, CleanupExit, NoLock
    <3> QED
      BY <2>4, <3>1, <3>2, <3>3, <3>4, <3>5, <3>6, <3>7, <3>8 DEF CleanupStep
  <2>5. ASSUME NEW h \in Helper, Environment(h) PROVE Accounted'
    <3>1. CASE LeaderDies(h)
      BY <3>1 DEF LeaderDies
    <3>2. CASE AppStarts(h)
      BY <3>2 DEF AppStarts
    <3>3. CASE AppExits(h)
      BY <3>3 DEF AppExits
    <3>4. CASE ReleaseNamespace(h)
      BY <3>4 DEF ReleaseNamespace
    <3>5. CASE KillParent(h)
      BY <3>5 DEF KillParent
    <3> QED
      BY <2>5, <3>1, <3>2, <3>3, <3>4, <3>5 DEF Environment
  <2>6. ASSUME UNCHANGED vars PROVE Accounted'
    BY <2>6 DEF vars
  <2> QED
    BY <2>1, <2>2, <2>3, <2>4, <2>5, <2>6 DEF Next

-----------------------------------------------------------------------------
(* The inductive invariant and what follows from it.                       *)

LEMMA IInvInit == Init => IInv
<1> SUFFICES ASSUME Init PROVE IInv
  OBVIOUS
<1> USE SessionAssumption
    DEF Init, NoLock, Running, ParentHolds, ChildHolds, CleanupHolds
<1>1. TypeOK
  BY DEF TypeOK, ParentPhase, ChildPhase, CleanupPhase
<1>2. Discipline
  BY DEF Discipline, Holders, Exclusive, Phases, Active
<1>3. Ownership
  BY DEF Ownership, LockOwner, Owned, NoneLive, LiveSession, Bootstrap
<1>4. Recording
  BY DEF Recording, Listed, Settled, Tracked
<1>5. Guarded /\ OneDevicePerSource
  BY DEF Guarded, OneDevicePerSource
<1>6. Accounted
  BY DEF Accounted
<1> QED
  BY <1>1, <1>2, <1>3, <1>4, <1>5, <1>6 DEF IInv

LEMMA IInvStep ==
    ASSUME Patient, IInv, [Next]_vars
    PROVE  IInv'
<1> USE DEF IInv
<1>1. TypeOK'
  BY TypeKept
<1>2. Discipline'
  BY DisciplineKept
<1>3. Ownership'
  BY OwnershipKept
<1>4. Recording'
  BY RecordingKept
<1>5. Guarded' /\ OneDevicePerSource'
  BY GuardKept
<1>6. Accounted'
  BY AccountKept
<1> QED
  BY <1>1, <1>2, <1>3, <1>4, <1>5, <1>6

\* The conjunction of the layers is an invariant.
THEOREM Inductive ==
    ASSUME Patient
    PROVE  Spec => []IInv
<1>1. IInv /\ [Next]_vars => IInv'
  BY IInvStep
<1> QED
  BY IInvInit, <1>1, PTL DEF Spec

\* The lock lists every decrypted device, whatever process died where; or the
\* one process that is replacing the lock carries its line.
THEOREM DevicesTracked ==
    ASSUME Patient
    PROVE  Spec => []Tracked
<1>1. IInv => Tracked
  BY DEF IInv, Recording
<1> QED
  BY Inductive, <1>1, PTL

\* No teardown, late cleanup or racing open takes the lock of a live session.
THEOREM LiveOwnsLock ==
    ASSUME Patient
    PROVE  Spec => []LiveSessionOwnsLock
<1>1. IInv => LiveSessionOwnsLock
  BY DEF IInv, Ownership, Owned, LiveSessionOwnsLock
<1> QED
  BY Inductive, <1>1, PTL

\* There are never two workspaces: each would own the lock's one generation.
THEOREM NeverTwoSessions ==
    ASSUME Patient
    PROVE  Spec => []OneSession
<1>1. IInv => OneSession
  BY DEF IInv, Ownership, Owned, OneSession
<1> QED
  BY Inductive, <1>1, PTL

\* Whoever is granted the flock finds the live leader in the pidfile.
THEOREM LeaderFound ==
    ASSUME Patient
    PROVE  Spec => []LeaderFindable
<1>1. IInv => LeaderFindable
  BY DEF IInv, TypeOK, Discipline, Holders, Ownership, Owned, LeaderFindable,
     LiveSession, Bootstrap, ParentHolds
<1> QED
  BY Inductive, <1>1, PTL

\* No session decrypts a container twice.
THEOREM NoDoubleOpen ==
    ASSUME Patient
    PROVE  Spec => []OneDevicePerSource
<1>1. IInv => OneDevicePerSource
  BY DEF IInv
<1> QED
  BY Inductive, <1>1, PTL

\* When every run, teardown and cleanup is over, no key is left in RAM.  A
\* device still open would be in the lock, the lock would belong to a
\* bootstrap, and that bootstrap's own cleanup would have closed it.
THEOREM AllClosed ==
    ASSUME Patient
    PROVE  Spec => []NothingLeftDecrypted
<1>1. IInv => NothingLeftDecrypted
  <2> SUFFICES ASSUME IInv, Over, \A b \in Helper : Bootstrap(b) => pc[b] # "killed",
                      NEW d \in dm
               PROVE  FALSE
    BY DEF NothingLeftDecrypted
  <2>1. lock.there
    BY DEF IInv, Recording, Tracked, Over
  <2>2. lock.gen \in Helper /\ Bootstrap(lock.gen) /\ pc[lock.gen] # "off"
    BY <2>1 DEF IInv, Accounted
  <2>3. pc[lock.gen] = "done" /\ cl[lock.gen] = "done"
    BY <2>2 DEF IInv, Accounted, BootstrapPhase, Bootstrap, Over
  <2> QED
    BY <2>2, <2>3 DEF IInv, Accounted, Bootstrap
<1> QED
  BY Inductive, <1>1, PTL

-----------------------------------------------------------------------------
(* The session implements the ledger.                                      *)

\* Nothing new is recorded and nothing is opened.
Shrinks == dm' \subseteq dm /\ Recorded' \subseteq Recorded

\* Every step records a device, opens a recorded one, settles some, or leaves
\* the ledger alone.
LEMMA LedgerStep ==
    ASSUME IInv, IInv', [Next]_vars
    PROVE  [Ledger!Next]_(Ledger!vars)
<1>1. ASSUME NEW h \in Helper, CreateLock(h) PROVE Shrinks \/ Ledger!Record(h)
  BY <1>1 DEF CreateLock, Shrinks, Ledger!Record, Recorded, IInv, TypeOK,
     Discipline, Exclusive, Active, ParentHolds, Ownership, LockOwner,
     Goto, runVars, devVars
<1>2. ASSUME NEW h \in Helper, AddAppend(h) PROVE Ledger!Record(h)
  BY <1>2 DEF AddAppend, Ledger!Record, Recorded, IInv, TypeOK, Goto, runVars,
     devVars
<1>3. ASSUME NEW h \in Helper, CryptOpen(h) PROVE Ledger!Open(h)
  BY <1>3 DEF CryptOpen, Ledger!Open, Recorded, IInv, TypeOK, Recording, Listed,
     ChildGoto, runVars, fileVars
<1>4. CASE Shrinks
  <2>1. dm' \subseteq Recorded'
    BY DEF IInv, TypeOK, Recording, Tracked, Recorded
  <2> QED
    BY <1>4, <2>1 DEF Shrinks, Ledger!Next, Ledger!Settle
<1> USE DEF IInv, TypeOK, Shrinks, Recorded, Goto, ChildGoto, CleanGoto,
        runVars, fileVars, devVars
<1>5. ASSUME NEW h \in Helper, Start(h) PROVE Shrinks
  <2>1. CASE \E s \in Source : JoinSession(h, s)
    BY <2>1 DEF JoinSession, Verified
  <2>2. CASE \E s \in Source \union {NoSource} : BecomeBootstrap(h, s)
    BY <2>2 DEF BecomeBootstrap, Verified
  <2>3. CASE Declined(h)
    BY <2>3 DEF Declined
  <2>4. CASE EmptyIsUp(h)
    BY <2>4 DEF EmptyIsUp
  <2>5. CASE CloseJoin(h)
    BY <2>5 DEF CloseJoin, Verified
  <2>6. CASE CloseNoSession(h)
    BY <2>6 DEF CloseNoSession
  <2> QED
    BY <1>5, <2>1, <2>2, <2>3, <2>4, <2>5, <2>6 DEF Start
<1>6. ASSUME NEW h \in Helper, ParentStep(h), ~CreateLock(h), ~AddAppend(h)
      PROVE  Shrinks
  <2>1. CASE Recover(h)
    BY <2>1 DEF Recover, NoLock, Drop, CloseOutcomes
  <2>2. CASE ForkLeader(h)
    BY <2>2 DEF ForkLeader
  <2>3. CASE WritePidfile(h)
    BY <2>3 DEF WritePidfile
  <2>4. CASE Reap(h)
    BY <2>4 DEF Reap
  <2>5. CASE InitReaps(h)
    BY <2>5 DEF InitReaps
  <2>6. CASE NotOurs(h)
    BY <2>6 DEF NotOurs
  <2>7. CASE Ours(h)
    BY <2>7 DEF Ours
  <2>8. CASE TeardownClose(h)
    BY <2>8 DEF TeardownClose, Drop, CloseOutcomes
  <2>9. CASE TeardownFiles(h)
    BY <2>9 DEF TeardownFiles, NoLock
  <2>10. CASE AddRefused(h)
    BY <2>10 DEF AddRefused
  <2>11. CASE AddFork(h)
    BY <2>11 DEF AddFork
  <2>12. CASE AddDone(h)
    BY <2>12 DEF AddDone
  <2>13. CASE AddFailed(h)
    BY <2>13 DEF AddFailed, Drop, CloseOutcomes
  <2>14. CASE CloseExit(h)
    BY <2>14 DEF CloseExit
  <2> QED
    BY <1>6, <2>1, <2>2, <2>3, <2>4, <2>5, <2>6, <2>7, <2>8, <2>9, <2>10,
       <2>11, <2>12, <2>13, <2>14 DEF ParentStep
<1>7. ASSUME NEW h \in Helper, ChildStep(h), ~CryptOpen(h) PROVE Shrinks
  <2>1. CASE Enter(h)
    BY <2>1 DEF Enter
  <2>2. CASE Mount(h)
    BY <2>2 DEF Mount
  <2>3. CASE ExecLeader(h)
    BY <2>3 DEF ExecLeader
  <2>4. CASE AddExit(h)
    BY <2>4 DEF AddExit
  <2>5. CASE ChildFails(h)
    BY <2>5 DEF ChildFails
  <2>6. CASE CloseLookup(h)
    BY <2>6 DEF CloseLookup, InSession
  <2>7. CASE CloseGo(h)
    BY <2>7 DEF CloseGo
  <2>8. CASE CloseUmount(h)
    BY <2>8 DEF CloseUmount
  <2>9. CASE CloseDevice(h)
    BY <2>9 DEF CloseDevice
  <2>10. CASE CloseUnlist(h)
    BY <2>10 DEF CloseUnlist
  <2>11. CASE CloseGivesUp(h)
    BY <2>11 DEF CloseGivesUp
  <2> QED
    BY <1>7, <2>1, <2>2, <2>3, <2>4, <2>5, <2>6, <2>7, <2>8, <2>9, <2>10,
       <2>11 DEF ChildStep
<1>8. ASSUME NEW h \in Helper, CleanupStep(h) PROVE Shrinks
  <2>1. CASE CleanupNoLock(h)
    BY <2>1 DEF CleanupNoLock
  <2>2. CASE CleanupFlock(h)
    BY <2>2 DEF CleanupFlock, CleanupRead
  <2>3. CASE CleanupWithoutFlock(h)
    BY <2>3 DEF CleanupWithoutFlock, CleanupRead
  <2>4. CASE CleanupSparesLive(h)
    BY <2>4 DEF CleanupSparesLive, LeaderAlive, CleanupExit
  <2>5. CASE CleanupProceeds(h)
    BY <2>5 DEF CleanupProceeds, LeaderAlive
  <2>6. CASE CleanupClose(h)
    BY <2>6 DEF CleanupClose
  <2>7. CASE CleanupGivesUp(h)
    BY <2>7 DEF CleanupGivesUp, CleanupExit, Pinned, Occupied, Inside
  <2>8. CASE CleanupUnlink(h)
    BY <2>8 DEF CleanupUnlink, CleanupExit, NoLock
  <2> QED
    BY <1>8, <2>1, <2>2, <2>3, <2>4, <2>5, <2>6, <2>7, <2>8 DEF CleanupStep
<1>9. ASSUME NEW h \in Helper, Environment(h) PROVE Shrinks
  <2>1. CASE LeaderDies(h)
    BY <2>1 DEF LeaderDies
  <2>2. CASE AppStarts(h)
    BY <2>2 DEF AppStarts
  <2>3. CASE AppExits(h)
    BY <2>3 DEF AppExits
  <2>4. CASE ReleaseNamespace(h)
    BY <2>4 DEF ReleaseNamespace
  <2>5. CASE KillParent(h)
    BY <2>5 DEF KillParent
  <2> QED
    BY <1>9, <2>1, <2>2, <2>3, <2>4, <2>5 DEF Environment
<1>10. CASE UNCHANGED vars
  BY <1>10 DEF vars, Ledger!vars
<1> QED
  BY <1>1, <1>2, <1>3, <1>4, <1>5, <1>6, <1>7, <1>8, <1>9, <1>10
     DEF Next, Ledger!Next

\* The processes together keep the promise of the ledger: they open only what
\* is recorded, and record it until it is closed.
THEOREM LedgerImplemented ==
    ASSUME Patient
    PROVE  Spec => LedgerSpec
<1>1. Init => Ledger!Init
  BY DEF Init, NoLock, Ledger!Init, Recorded
<1>2. IInv /\ IInv' /\ [Next]_vars => [Ledger!Next]_(Ledger!vars)
  BY LedgerStep
<1> QED
  BY Inductive, <1>1, <1>2, PTL DEF Spec, LedgerSpec, Ledger!Spec
=============================================================================
