----------------------------- MODULE QuitProofs -----------------------------
(***************************************************************************)
(* Quit keeps its promise for every number of sessions and whatever crash: *)
(* the window is not closed over a volume.                                 *)
(***************************************************************************)
EXTENDS Quit, TLAPS

\* The lock covers a session from before its device to after it.
LockCovers ==
    /\ leader \notin {"absent", "asked"} => lock = TRUE
    /\ open = TRUE => lock = TRUE

QuitInv == TypeOK /\ LockCovers

LEMMA QuitInvInit == Init => QuitInv
<1> SUFFICES ASSUME Init PROVE QuitInv
  OBVIOUS
<1>1. TypeOK
  <2>1. opens \in 0..MaxOpens
    BY QuitAssumption DEF QuitAssumption, Init
  <2> QED
    BY <2>1, Zenon DEF Init, TypeOK, LeaderPhase
<1>2. LockCovers
  BY Zenon DEF Init, LockCovers
<1> QED
  BY <1>1, <1>2 DEF QuitInv

\* Every step of the compositor and of the session keeps the invariant.
LEMMA QuitInvStep == QuitInv /\ [Next]_vars => QuitInv'
<1> SUFFICES ASSUME QuitInv, [Next]_vars PROVE QuitInv'
  OBVIOUS
<1> USE QuitAssumption DEF QuitAssumption, QuitInv, TypeOK, LockCovers, LeaderPhase, Up, CompUp
<1>1. CASE BeginQuit
  BY <1>1 DEF BeginQuit, NothingLeft, Exit, sessionVars
<1>2. ASSUME NEW dead \in BOOLEAN, ScanWith(dead) PROVE QuitInv'
  BY <1>2 DEF ScanWith, Closed, Exit, Resend, SendClose, Serving
<1>3. CASE Scan
  BY <1>2, <1>3 DEF Scan
<1>4. CASE ScanProbing
  BY <1>2, <1>4 DEF ScanProbing, SocketDead
<1>5. CASE Crash \/ Signalled
  BY <1>5 DEF Crash, Signalled, sessionVars
<1>6. CASE CompStarts
  BY <1>6 DEF CompStarts, sessionVars
<1>7. CASE WindowChanges
  BY <1>7 DEF WindowChanges, compVars, sessionVars
<1>8. CASE OpenAsked \/ OpenDeclined
  BY <1>8 DEF OpenAsked, OpenDeclined, compVars
<1>9. CASE LockCreated \/ Opened \/ OpenFails
  <2>1. CASE LockCreated
    BY <2>1 DEF LockCreated, compVars
  <2>2. CASE Opened
    BY <2>2 DEF Opened, compVars
  <2>3. CASE OpenFails
    BY <2>3 DEF OpenFails, compVars
  <2> QED
    BY <1>9, <2>1, <2>2, <2>3
<1>10. CASE LeaderStarts
  BY <1>10 DEF LeaderStarts, compVars
<1>11. CASE LeaderSees \/ LeaderNotices \/ HandleClose \/ Terminated
  BY <1>11 DEF LeaderSees, LeaderNotices, HandleClose, Terminated, Serving, compVars
<1>12. CASE LeaderEnds \/ LeaderKilled
  <2>1. CASE LeaderEnds
    BY <2>1 DEF LeaderEnds, compVars
  <2>2. CASE LeaderKilled
    BY <2>2 DEF LeaderKilled, Listening, compVars
  <2> QED
    BY <1>12, <2>1, <2>2
<1>13. CASE VolumesChange \/ Republish
  <2>1. CASE VolumesChange
    BY <2>1 DEF VolumesChange, Serving, compVars
  <2>2. CASE Republish
    BY <2>2 DEF Republish, Serving, compVars
  <2> QED
    BY <1>13, <2>1, <2>2
<1>14. CASE TeardownCloses \/ TeardownUnlocks
  BY <1>14 DEF TeardownCloses, TeardownUnlocks, compVars
<1>15. CASE UNCHANGED vars
  BY <1>15 DEF vars, compVars, sessionVars
<1> QED
  BY <1>1, <1>3, <1>4, <1>5, <1>6, <1>7, <1>8, <1>9, <1>10, <1>11, <1>12,
     <1>13, <1>14, <1>15 DEF Next, CompStep, SessionStep, SessionEvent

\* Every variable keeps its type.
THEOREM QuitTypes == Spec => []TypeOK
<1>1. QuitInv => TypeOK
  BY DEF QuitInv
<1> QED
  BY <1>1, QuitInvInit, QuitInvStep, PTL DEF Spec

\* A step that closes the window finds the lock gone, whichever way it quits.
LEMMA ClosedUnlocked ==
    ASSUME [Next]_vars, comp # "closed", comp' = "closed"
    PROVE ~lock /\ UNCHANGED <<open, leader>>
<1>1. CASE BeginQuit
  BY <1>1 DEF BeginQuit, NothingLeft, Exit, sessionVars
<1>2. ASSUME NEW dead, ScanWith(dead) PROVE ~lock /\ UNCHANGED <<open, leader>>
  BY <1>2 DEF ScanWith, Closed, Exit
<1>3. CASE Scan \/ ScanProbing
  BY <1>2, <1>3 DEF Scan, ScanProbing
<1>4. CASE Crash \/ Signalled \/ CompStarts
  BY <1>4 DEF Crash, Signalled, CompStarts
<1>5. CASE SessionStep \/ SessionEvent \/ WindowChanges \/ UNCHANGED vars
  BY <1>5 DEF SessionStep, SessionEvent, WindowChanges, vars, compVars,
              Opened, LeaderStarts, LeaderSees, LeaderNotices, HandleClose,
              LeaderEnds, Republish, TeardownCloses, TeardownUnlocks,
              OpenAsked, OpenDeclined, LockCreated, OpenFails, Terminated,
              LeaderKilled, VolumesChange
<1> QED
  BY <1>1, <1>3, <1>4, <1>5 DEF Next, CompStep

\* The window is never closed over a volume that is decrypted or being
\* unlocked: begin_quit and the quitting scan both wait for the lock, and the
\* lock covers the session from before the first device to after the last.
THEOREM WindowOutlivesVolumes == Spec => NeverVanishes
<1>1. QuitInv /\ [Next]_vars =>
        (comp # "closed" /\ comp' = "closed" =>
            ~open /\ leader \in {"absent", "asked"})
  BY ClosedUnlocked DEF QuitInv, LockCovers
<1> QED
  BY <1>1, QuitInvInit, QuitInvStep, PTL DEF Spec, NeverVanishes
=============================================================================
