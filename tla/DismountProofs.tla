--------------------------- MODULE DismountProofs ---------------------------
(***************************************************************************)
(* For any number of dismounts, volumes and apps: the session never stops  *)
(* its apps more often than the human agreed to, no signal that a dismount *)
(* waits for is dropped, and one helper at a time is at work.              *)
(***************************************************************************)
EXTENDS Dismount, FiniteSetTheorems, TLAPS

\* A stamp is noted when the human answers, never before.
Unasked ==
    \A a \in Attempt :
        talk[a] \in {"none", "queued", "listen", "ask"} => stamp[a] = None

DismountInv == TypeOK /\ Unasked /\ OneStopPerConsent

LEMMA TypeInit == Init => TypeOK
<1> SUFFICES ASSUME Init PROVE TypeOK
  OBVIOUS
<1>1. request \in BOOLEAN /\ clearing \in BOOLEAN
  BY Zenon DEF Init
<1> QED
  BY <1>1 DEF Init, TypeOK, AppPhase, TalkPhase, HelperPhase

\* Every step keeps every type.
LEMMA TypeStep == TypeOK /\ [Next]_vars => TypeOK'
<1> SUFFICES ASSUME TypeOK, [Next]_vars PROVE TypeOK'
  OBVIOUS
<1> USE DismountAssumption
    DEF TypeOK, AppPhase, TalkPhase, HelperPhase, sessionVars, clearVars,
        talkVars, TalkGoto, HelperGoto, Answer, Mounted
<1>1. ASSUME NEW a \in Attempt, NEW v \in Volume, Request(a, v) PROVE TypeOK'
  BY <1>1 DEF Request
<1>2. ASSUME NEW a \in Attempt, BrokerStep(a) PROVE TypeOK'
  <2>1. CASE Dispatch(a)
    BY <2>1 DEF Dispatch
  <2>2. CASE ReadHolders(a) \/ AbortAsk(a) \/ Reap(a)
    BY <2>2 DEF ReadHolders, AbortAsk, Reap
  <2>3. CASE Go(a)
    BY <2>3 DEF Go
  <2> QED
    BY <1>2, <2>1, <2>2, <2>3 DEF BrokerStep
<1>3. ASSUME NEW a \in Attempt, HumanYes(a) \/ HumanNo(a) \/ WaitExpires(a)
      PROVE TypeOK'
  <2>1. CASE HumanYes(a)
    BY <2>1 DEF HumanYes
  <2>2. CASE HumanNo(a) \/ WaitExpires(a)
    BY <2>2 DEF HumanNo, WaitExpires
  <2> QED
    BY <1>3, <2>1, <2>2
<1>4. ASSUME NEW a \in Attempt,
             HelperStep(a) \/ HelperRefused(a) \/ ParkedExpires(a)
      PROVE TypeOK'
  <2>1. CASE Umount(a) \/ CloseDevice(a)
    BY <2>1 DEF Umount, CloseDevice
  <2>2. CASE HelperEnters(a) \/ CheckMissing(a) \/ Check(a)
    BY <2>2 DEF HelperEnters, CheckMissing, Check
  <2>3. CASE ParkedGo(a) \/ ParkedEof(a) \/ ParkedLeaderGone(a)
             \/ CloseFails(a) \/ HelperRefused(a) \/ ParkedExpires(a)
    BY <2>3 DEF ParkedGo, ParkedEof, ParkedLeaderGone, CloseFails,
                HelperRefused, ParkedExpires
  <2> QED
    BY <1>4, <2>1, <2>2, <2>3 DEF HelperStep
<1>5. CASE ModalStarts \/ ModalEnds \/ BrokerDies
  BY <1>5 DEF ModalStarts, ModalEnds, BrokerDies
<1>6. CASE Scan
  <2>1. request' \in BOOLEAN /\ clearing' \in BOOLEAN
    BY <1>6, Zenon DEF Scan
  <2> QED
    BY <1>6, <2>1 DEF Scan
<1>7. CASE CloseApps \/ LeaderDies
  BY <1>7 DEF CloseApps, LeaderDies
<1>8. CASE Teardown \/ Quit \/ CompGone
  BY <1>8 DEF Teardown, Quit, CompGone
<1>9. ASSUME NEW x \in App,
             AppStarts(x) \/ AppMaps(x) \/ AppUnmaps(x) \/ AppExits(x)
      PROVE TypeOK'
  BY <1>9 DEF AppStarts, AppMaps, AppUnmaps, AppExits
<1>10. CASE UNCHANGED vars
  BY <1>10 DEF vars
<1> QED
  BY <1>1, <1>2, <1>3, <1>4, <1>5, <1>6, <1>7, <1>8, <1>9, <1>10 DEF Next

\* Every variable keeps its type.
THEOREM DismountTypes == Spec => []TypeOK
BY TypeInit, TypeStep, PTL DEF Spec

-----------------------------------------------------------------------------
\* One more answer is one more attempt with a stamp.
LEMMA ConsentAdds ==
    ASSUME TypeOK, Unasked, NEW a \in Attempt, HumanYes(a)
    PROVE  /\ Cardinality(Consented') = Cardinality(Consented) + 1
           /\ Cardinality(Consented) \in Nat
<1> USE DismountAssumption
<1>1. IsFiniteSet(Consented)
  <2>1. Consented \subseteq Attempt
    BY DEF Consented
  <2> QED
    BY <2>1, FS_Subset DEF DismountAssumption
<1>2. a \notin Consented
  BY DEF Unasked, HumanYes, Consented
<1>3. Consented' = Consented \union {a}
  BY DEF TypeOK, HumanYes, Consented, DismountAssumption
<1> QED
  BY <1>1, <1>2, <1>3, FS_AddElement, FS_CardinalityType

LEMMA ConsentsFinite == Cardinality(Consented) \in Nat
<1>1. Consented \subseteq Attempt
  BY DEF Consented
<1> QED
  BY <1>1, DismountAssumption, FS_Subset, FS_CardinalityType
     DEF DismountAssumption

LEMMA DismountInvInit == Init => DismountInv
<1> SUFFICES ASSUME Init PROVE DismountInv
  OBVIOUS
<1>1. Unasked
  BY DEF Init, Unasked
<1>2. done + pokes + Count(clearing) + Count(request) = 0
  BY DEF Init, Count
<1>3. OneStopPerConsent
  BY <1>2, ConsentsFinite DEF OneStopPerConsent
<1> QED
  BY <1>1, <1>3, TypeInit DEF DismountInv

\* A step keeps the stamps of the attempts not yet answered.
LEMMA UnaskedStep == TypeOK /\ Unasked /\ [Next]_vars => Unasked'
<1> SUFFICES ASSUME TypeOK, Unasked, [Next]_vars PROVE Unasked'
  OBVIOUS
<1> USE DEF TypeOK, Unasked, sessionVars, clearVars, talkVars, TalkGoto
<1>1. ASSUME NEW a \in Attempt, NEW v \in Volume, Request(a, v) PROVE Unasked'
  BY <1>1 DEF Request
<1>2. ASSUME NEW a \in Attempt, BrokerStep(a) PROVE Unasked'
  BY <1>2 DEF BrokerStep, Dispatch, ReadHolders, AbortAsk, Go, Reap
<1>3. ASSUME NEW a \in Attempt, HumanYes(a) \/ HumanNo(a) \/ WaitExpires(a)
      PROVE Unasked'
  BY <1>3 DEF HumanYes, HumanNo, WaitExpires
<1>4. ASSUME NEW a \in Attempt,
             HelperStep(a) \/ HelperRefused(a) \/ ParkedExpires(a)
      PROVE Unasked'
  BY <1>4 DEF HelperStep, HelperRefused, ParkedExpires, HelperEnters,
              CheckMissing, Check, ParkedGo, ParkedEof, ParkedLeaderGone,
              Umount, CloseDevice, CloseFails
<1>5. CASE ModalStarts \/ ModalEnds \/ BrokerDies
  BY <1>5 DEF ModalStarts, ModalEnds, BrokerDies
<1>6. CASE Scan \/ CloseApps \/ LeaderDies \/ Teardown \/ Quit \/ CompGone
  BY <1>6 DEF Scan, CloseApps, LeaderDies, Teardown, Quit, CompGone
<1>7. ASSUME NEW x \in App,
             AppStarts(x) \/ AppMaps(x) \/ AppUnmaps(x) \/ AppExits(x)
      PROVE Unasked'
  BY <1>7 DEF AppStarts, AppMaps, AppUnmaps, AppExits
<1>8. CASE UNCHANGED vars
  BY <1>8 DEF vars
<1> QED
  BY <1>1, <1>2, <1>3, <1>4, <1>5, <1>6, <1>7, <1>8 DEF Next

\* A request becomes a latch, a latch a poke and a poke one stop: the sum only
\* grows with an answer.
LEMMA StopsStep ==
    TypeOK /\ Unasked /\ OneStopPerConsent /\ [Next]_vars => OneStopPerConsent'
<1> SUFFICES ASSUME TypeOK, Unasked, OneStopPerConsent, [Next]_vars
             PROVE  OneStopPerConsent'
  OBVIOUS
<1> USE ConsentsFinite
    DEF TypeOK, OneStopPerConsent, sessionVars, clearVars, talkVars
<1>1. ASSUME UNCHANGED <<stamp, done, pokes, clearing, request>>
      PROVE OneStopPerConsent'
  BY <1>1 DEF Consented, Count
<1>2. ASSUME NEW a \in Attempt, HumanYes(a) PROVE OneStopPerConsent'
  <2>1. Count(request') = 1 /\ Count(request) \in 0..1
    BY <1>2 DEF HumanYes, Count
  <2>2. Count(clearing') = Count(clearing) /\ Count(clearing) \in 0..1
    BY <1>2 DEF HumanYes, Count
  <2>3. done' = done /\ pokes' = pokes
    BY <1>2 DEF HumanYes
  <2> QED
    BY <1>2, <2>1, <2>2, <2>3, ConsentAdds
<1>3. CASE Scan
  BY <1>3 DEF Scan, Consented, Count
<1>4. CASE CloseApps
  BY <1>4 DEF CloseApps, Consented, Count
<1>5. CASE LeaderDies
  BY <1>5 DEF LeaderDies, Consented, Count
<1>6. ASSUME NEW a \in Attempt, NEW v \in Volume, Request(a, v)
      PROVE OneStopPerConsent'
  BY <1>1, <1>6 DEF Request
<1>7. ASSUME NEW a \in Attempt,
             BrokerStep(a) \/ HumanNo(a) \/ WaitExpires(a)
      PROVE OneStopPerConsent'
  BY <1>1, <1>7 DEF BrokerStep, Dispatch, ReadHolders, AbortAsk, Go, Reap,
                    HumanNo, WaitExpires
<1>8. ASSUME NEW a \in Attempt,
             HelperStep(a) \/ HelperRefused(a) \/ ParkedExpires(a)
      PROVE OneStopPerConsent'
  BY <1>1, <1>8 DEF HelperStep, HelperRefused, ParkedExpires, HelperEnters,
              CheckMissing, Check, ParkedGo, ParkedEof, ParkedLeaderGone,
              Umount, CloseDevice, CloseFails
<1>9. CASE ModalStarts \/ ModalEnds \/ BrokerDies
  BY <1>1, <1>9 DEF ModalStarts, ModalEnds, BrokerDies
<1>10. CASE Teardown \/ Quit \/ CompGone
  BY <1>1, <1>10 DEF Teardown, Quit, CompGone
<1>11. ASSUME NEW x \in App,
              AppStarts(x) \/ AppMaps(x) \/ AppUnmaps(x) \/ AppExits(x)
       PROVE OneStopPerConsent'
  BY <1>1, <1>11 DEF AppStarts, AppMaps, AppUnmaps, AppExits
<1>12. CASE UNCHANGED vars
  BY <1>1, <1>12 DEF vars
<1> QED
  BY <1>2, <1>3, <1>4, <1>5, <1>6, <1>7, <1>8, <1>9, <1>10, <1>11, <1>12
     DEF Next

\* However many dismounts are asked for, cancelled, timed out or coalesced:
\* each answer of the human stops the session's apps once at most.
THEOREM StopsNeedConsent == Spec => []OneStopPerConsent
<1>1. DismountInv /\ [Next]_vars => DismountInv'
  BY TypeStep, UnaskedStep, StopsStep DEF DismountInv
<1>2. DismountInv => OneStopPerConsent
  BY DEF DismountInv
<1> QED
  BY <1>1, <1>2, DismountInvInit, PTL DEF Spec

-----------------------------------------------------------------------------
\* A stamp that is waited past was the file's when the wait began.
Stamped == \A a \in Attempt : talk[a] = "wait" => stamp[a] \in 0..done

SignalInv == TypeOK /\ Stamped /\ SignalUnderway

signalVars == <<talk, stamp, done, comp, leader, request, clearing, pokes>>

LEMMA SignalInit == Init => SignalInv
BY TypeInit DEF Init, SignalInv, Stamped, SignalUnderway

\* An attempt that is not told to wait takes nothing from those that do.
LEMMA TalkOnly ==
    ASSUME SignalInv, NEW a \in Attempt, NEW phase, phase # "wait",
           TalkGoto(a, phase),
           UNCHANGED <<stamp, done, comp, leader, request, clearing, pokes>>
    PROVE  Stamped' /\ SignalUnderway'
<1>1. \A b \in Attempt : talk'[b] = "wait" => talk[b] = "wait"
  BY DEF TalkGoto, SignalInv, TypeOK
<1> QED
  BY <1>1 DEF SignalInv, Stamped, SignalUnderway

LEMMA SignalStep == SignalInv /\ [Next]_vars => SignalInv'
<1> SUFFICES ASSUME SignalInv, [Next]_vars PROVE Stamped' /\ SignalUnderway'
  BY TypeStep DEF SignalInv
<1> USE DEF sessionVars, clearVars, talkVars
<1>1. ASSUME NEW a \in Attempt, NEW v \in Volume, Request(a, v)
      PROVE  Stamped' /\ SignalUnderway'
  BY <1>1, TalkOnly DEF Request
<1>2. ASSUME NEW a \in Attempt, BrokerStep(a)
      PROVE  Stamped' /\ SignalUnderway'
  BY <1>2, TalkOnly DEF BrokerStep, Dispatch, ReadHolders, AbortAsk, Go, Reap
<1>3. ASSUME NEW a \in Attempt, HumanNo(a) \/ WaitExpires(a)
      PROVE  Stamped' /\ SignalUnderway'
  BY <1>3, TalkOnly DEF HumanNo, WaitExpires
<1>4. ASSUME NEW a \in Attempt, HumanYes(a)
      PROVE  Stamped' /\ SignalUnderway'
  <2>1. SignalUnderway'
    BY <1>4 DEF HumanYes, SignalUnderway
  <2>2. /\ done' = done /\ done \in Nat
        /\ \A b \in Attempt : talk'[b] = "wait" =>
              \/ b = a /\ stamp'[b] = done
              \/ talk[b] = "wait" /\ stamp'[b] = stamp[b]
    BY <1>4 DEF HumanYes, TalkGoto, SignalInv, TypeOK
  <2> QED
    BY <2>1, <2>2 DEF SignalInv, Stamped
<1>5. CASE Scan
  BY <1>5 DEF Scan, SignalInv, TypeOK, Stamped, SignalUnderway
<1>6. CASE CloseApps
  <2>1. done' = done + 1 /\ done \in Nat /\ UNCHANGED <<talk, stamp>>
    BY <1>6 DEF CloseApps, SignalInv, TypeOK
  <2>2. \A b \in Attempt : talk[b] = "wait" => stamp[b] \in Nat /\ stamp[b] <= done
    BY <2>1 DEF SignalInv, Stamped
  <2>3. Stamped'
    BY <2>1, <2>2 DEF Stamped
  <2>4. \A b \in Attempt : talk'[b] = "wait" => done' # stamp'[b]
    BY <2>1, <2>2
  <2> QED
    BY <2>3, <2>4 DEF SignalUnderway
<1>7. CASE LeaderDies
  BY <1>7 DEF LeaderDies, SignalInv, Stamped, SignalUnderway
<1>8. CASE Quit \/ CompGone
  BY <1>8 DEF Quit, CompGone, SignalInv, Stamped, SignalUnderway
<1>9. CASE UNCHANGED signalVars
  BY <1>9 DEF signalVars, SignalInv, Stamped, SignalUnderway
<1>10. ASSUME NEW a \in Attempt,
              HelperStep(a) \/ HelperRefused(a) \/ ParkedExpires(a)
       PROVE  UNCHANGED signalVars
  BY <1>10 DEF HelperStep, HelperRefused, ParkedExpires, HelperEnters,
               CheckMissing, Check, ParkedGo, ParkedEof, ParkedLeaderGone,
               Umount, CloseDevice, CloseFails, signalVars
<1>11. ModalStarts \/ ModalEnds \/ BrokerDies \/ Teardown => UNCHANGED signalVars
  BY DEF ModalStarts, ModalEnds, BrokerDies, Teardown, signalVars
<1>12. ASSUME NEW x \in App,
              AppStarts(x) \/ AppMaps(x) \/ AppUnmaps(x) \/ AppExits(x)
       PROVE  UNCHANGED signalVars
  BY <1>12 DEF AppStarts, AppMaps, AppUnmaps, AppExits, signalVars
<1>13. UNCHANGED vars => UNCHANGED signalVars
  BY DEF vars, signalVars
<1> QED
  BY <1>1, <1>2, <1>3, <1>4, <1>5, <1>6, <1>7, <1>8, <1>9, <1>10, <1>11, <1>12,
     <1>13 DEF Next

\* For any number of attempts that share one request file, one latch and one
\* stamp: what an agreed dismount waits for is given or on its way. This is the
\* safety half of NoLostWakeup.
THEOREM SignalNeverDropped == Spec => []SignalUnderway
<1>1. SignalInv => SignalUnderway
  BY DEF SignalInv
<1> QED
  BY <1>1, SignalInit, SignalStep, PTL DEF Spec

-----------------------------------------------------------------------------
\* The phases of a helper that has the session flock.
AtWork == {"check", "parked", "umount", "close"}

HelperAlone ==
    \A a, b \in Attempt : helper[a] \in AtWork /\ helper[b] \in AtWork => a = b

LEMMA AloneStep == TypeOK /\ HelperAlone /\ [Next]_vars => HelperAlone'
<1> SUFFICES ASSUME TypeOK, HelperAlone, [Next]_vars PROVE HelperAlone'
  OBVIOUS
<1> USE DEF TypeOK, HelperAlone, AtWork, HelperGoto
<1>1. ASSUME NEW a \in Attempt, Dispatch(a) PROVE HelperAlone'
  BY <1>1 DEF Dispatch
<1>2. ASSUME NEW a \in Attempt, HelperEnters(a) PROVE HelperAlone'
  BY <1>2 DEF HelperEnters, Flocked
<1>3. ASSUME NEW a \in Attempt,
             \/ CheckMissing(a) \/ Check(a) \/ ParkedGo(a) \/ ParkedEof(a)
             \/ ParkedLeaderGone(a) \/ ParkedExpires(a) \/ HelperRefused(a)
             \/ Umount(a) \/ CloseDevice(a) \/ CloseFails(a)
      PROVE  HelperAlone'
  BY <1>3 DEF CheckMissing, Check, ParkedGo, ParkedEof, ParkedLeaderGone,
              ParkedExpires, HelperRefused, Umount, CloseDevice, CloseFails
<1>4. CASE helper' = helper
  BY <1>4
<1>5. ASSUME NEW a \in Attempt, NEW v \in Volume, Request(a, v)
      PROVE  helper' = helper
  BY <1>5 DEF Request
<1>6. ASSUME NEW a \in Attempt,
             \/ ReadHolders(a) \/ AbortAsk(a) \/ Go(a) \/ Reap(a)
             \/ HumanYes(a) \/ HumanNo(a) \/ WaitExpires(a)
      PROVE  helper' = helper
  BY <1>6 DEF ReadHolders, AbortAsk, Go, Reap, HumanYes, HumanNo, WaitExpires
<1>7. ModalStarts \/ ModalEnds \/ BrokerDies => helper' = helper
  BY DEF ModalStarts, ModalEnds, BrokerDies
<1>8. Scan \/ CloseApps \/ LeaderDies \/ Teardown \/ Quit \/ CompGone =>
         helper' = helper
  BY DEF Scan, CloseApps, LeaderDies, Teardown, Quit, CompGone
<1>9. ASSUME NEW x \in App,
             AppStarts(x) \/ AppMaps(x) \/ AppUnmaps(x) \/ AppExits(x)
      PROVE  helper' = helper
  BY <1>9 DEF AppStarts, AppMaps, AppUnmaps, AppExits
<1>10. UNCHANGED vars => helper' = helper
  BY DEF vars
<1> QED
  BY <1>1, <1>2, <1>3, <1>4, <1>5, <1>6, <1>7, <1>8, <1>9, <1>10
     DEF Next, BrokerStep, HelperStep

\* Two dismounts at once: their helpers work one after the other, from the first
\* look at the holders to the end, because both do so under the session flock.
THEOREM HelpersTakeTurns == Spec => []HelperAlone
<1>1. Init => HelperAlone
  BY DEF Init, HelperAlone, AtWork
<1>2. TypeOK /\ HelperAlone /\ [Next]_vars => TypeOK' /\ HelperAlone'
  BY TypeStep, AloneStep
<1> QED
  BY <1>1, <1>2, TypeInit, PTL DEF Spec
=============================================================================
