----------------------------- MODULE ShellProofs ----------------------------
(***************************************************************************)
(* What the human lets go of is let go of inside, for any windows, keys    *)
(* and buttons; the keyboard moves only when the human moves it, and the   *)
(* window stack stays one.                                                 *)
(***************************************************************************)
EXTENDS Shell, SequenceTheorems, TLAPS

\* The seat's keys are the human's, and none while the host has the keyboard.
KeysInv ==
    /\ hostFocus \in BOOLEAN
    /\ KeysFollow
    /\ hostFocus = FALSE => keysSeat = {}

\* A drag has a button that is down, or one whose release the toolbar kept: what
\* smithay takes for pressed is one or the other, a click grab and a drag last as
\* long as something is pressed, and a move or resize comes out of a click grab.
GrabInv ==
    /\ grab = [kind |-> grab.kind, win |-> grab.win] /\ grab.kind \in Grabs
    /\ pressed \subseteq held \union kept
    /\ grab.kind \in {"click", "dnd"} => pressed # {}
    /\ GrabEnds

Inv == KeysInv /\ GrabInv

LEMMA InvInit == Init => Inv
BY DEF Init, Inv, KeysInv, GrabInv, KeysFollow, GrabEnds, NoGrab, Grabs

\* The keys: every step of them, and every other step leaves them alone.
LEMMA KeysStep == ASSUME KeysInv, [Next]_vars PROVE KeysInv'
<1> USE DEF KeysInv, KeysFollow
<1>1. ASSUME NEW k \in Keys, KeyDown(k) PROVE KeysInv'
  BY <1>1 DEF KeyDown
<1>2. ASSUME NEW k \in Keys, KeyUp(k) PROVE KeysInv'
  BY <1>2 DEF KeyUp
<1>3. CASE HostFocus
  BY <1>3 DEF HostFocus, ReleasePressedKeys
<1>4. CASE UNCHANGED keyVars
  BY <1>4 DEF keyVars
<1>5. Pointer => UNCHANGED keyVars
  BY DEF Pointer, Motion, Press, Release, keyVars
<1>6. \A w \in Windows : Client(w) => UNCHANGED keyVars
  BY DEF Client, NewToplevel, ToplevelDestroyed, MaximizeRequest, MoveRequest,
         ResizeRequest, DndRequested, PopupGrab, Commit, keyVars
<1>7. MenuCloses \/ ToolbarBuilt \/ PopupCloses => UNCHANGED keyVars
  BY DEF MenuCloses, ToolbarBuilt, PopupCloses, keyVars
<1> QED
  BY <1>1, <1>2, <1>3, <1>4, <1>5, <1>6, <1>7 DEF Next, Keyboard, vars

\* A press begins a drag and a release ends it, wherever the pointer has been.
LEMMA PressStep ==
    ASSUME GrabInv, NEW b \in Buttons, NEW wants \in BOOLEAN, Press(b, wants)
    PROVE  GrabInv'
<1> USE DEF GrabInv, GrabEnds, Grabs
<1>1. held' = held \union {b}
  BY DEF Press
<1>2. CASE ToolbarKeeps(wants)
  BY <1>1, <1>2 DEF Press, ToolbarButton
<1>3. CASE ~ToolbarKeeps(wants)
  <2>1. pressed' = pressed \union {b} /\ grab' = GrabPressed /\ kept' = kept \ {b}
    BY <1>3 DEF Press
  <2>2. GrabPressed = [kind |-> GrabPressed.kind, win |-> GrabPressed.win]
        /\ GrabPressed.kind \in Grabs
    BY DEF GrabPressed, NoGrab
  <2> QED
    BY <1>1, <2>1, <2>2
<1> QED
  BY <1>2, <1>3

LEMMA ReleaseStep ==
    ASSUME GrabInv, NEW b \in Buttons, NEW wants \in BOOLEAN, Release(b, wants)
    PROVE  GrabInv'
<1> USE DEF GrabInv, GrabEnds, Grabs
<1>1. held' = held \ {b}
  BY DEF Release
<1>2. CASE ToolbarKeeps(wants)
  <2>1. grab.kind = "none" /\ UNCHANGED <<grab, pressed>>
    BY <1>2 DEF Release, ToolbarKeeps, ToolbarFirst, Grabbed, ToolbarButton
  <2>2. kept' = kept \union ({b} \intersect pressed)
    BY <1>2, <2>1 DEF Release, Unheard, Grabbed
  <2> QED
    BY <1>1, <2>1, <2>2
<1>3. CASE ~ToolbarKeeps(wants)
  <2>1. pressed' = pressed \ {b} /\ kept' = kept \ {b}
    BY <1>3 DEF Release
  <2>2. pressed' \subseteq held' \union kept'
    BY <1>1, <2>1
  <2>3. CASE GrabEndsWith(pressed')
    BY <1>1, <1>3, <2>1, <2>2, <2>3 DEF Release, NoGrab
  <2>4. CASE ~GrabEndsWith(pressed')
    <3>1. grab' = grab
      BY <1>3, <2>4 DEF Release
    <3>2. grab.kind \in {"none", "popup"} \/ pressed' # {}
      BY <2>4 DEF GrabEndsWith
    <3> QED
      BY <2>2, <2>4, <3>1, <3>2 DEF GrabEndsWith
  <2> QED
    BY <2>3, <2>4
<1> QED
  BY <1>2, <1>3

LEMMA PointerStep == ASSUME GrabInv, Pointer PROVE GrabInv'
<1>1. ASSUME NEW spot \in Spots, NEW wants \in BOOLEAN, Motion(spot, wants)
      PROVE  GrabInv'
  BY <1>1 DEF Motion, buttonVars, GrabInv, GrabEnds, Grabs
<1> QED
  BY <1>1, PressStep, ReleaseStep DEF Pointer

\* A client gets a drag only out of the click that is going on.
LEMMA ClientStep ==
    ASSUME GrabInv, NEW w \in Windows, Client(w) PROVE GrabInv'
<1> USE DEF GrabInv, GrabEnds, Grabs, humanVars, buttonVars
<1>1. CASE NewToplevel(w) \/ MaximizeRequest(w) \/ Commit(w)
  BY <1>1 DEF NewToplevel, MaximizeRequest, Commit
<1>2. CASE ToplevelDestroyed(w)
  BY <1>2 DEF ToplevelDestroyed, NoGrab
<1>3. CASE MoveRequest(w) \/ ResizeRequest(w) \/ DndRequested(w)
  BY <1>3 DEF MoveRequest, ResizeRequest, DndRequested, CheckGrab
<1>4. CASE PopupGrab(w)
  BY <1>4 DEF PopupGrab
<1> QED
  BY <1>1, <1>2, <1>3, <1>4 DEF Client

LEMMA GrabStep == ASSUME GrabInv, [Next]_vars PROVE GrabInv'
<1> USE DEF humanVars, buttonVars, GrabInv, GrabEnds
<1>1. CASE Keyboard \/ MenuCloses \/ ToolbarBuilt
  BY <1>1 DEF Keyboard, HostFocus, KeyDown, KeyUp, MenuCloses, ToolbarBuilt
<1>2. CASE PopupCloses
  BY <1>2 DEF PopupCloses, NoGrab, Grabs
<1>3. CASE UNCHANGED vars
  BY <1>3 DEF vars
<1> QED
  BY <1>1, <1>2, <1>3, PointerStep, ClientStep DEF Next

\* Neither a grab nor a key outlives what the human holds, but for a grab that a
\* button holds up whose release was kept before it: the toolbar is asked first
\* only while no grab is active, and losing the keyboard releases every key
\* (process_input_event, release_pressed_keys).
THEOREM NothingStaysStuck == Spec => []NothingStuck
<1>1. Inv /\ [Next]_vars => Inv'
  BY KeysStep, GrabStep DEF Inv
<1>2. Inv => NothingStuck
  BY DEF Inv, KeysInv, GrabInv, NothingStuck
<1> QED
  BY <1>1, <1>2, InvInit, PTL DEF Spec

\* No key stays pressed for the apps that the human has let go of.
THEOREM KeysReleased == Spec => []KeysFollow
<1>1. Init => KeysInv
  BY InvInit DEF Inv
<1>2. KeysInv => KeysFollow
  BY DEF KeysInv
<1> QED
  BY <1>1, <1>2, KeysStep, PTL DEF Spec

-----------------------------------------------------------------------------
(* The focus.                                                              *)

\* The keyboard moves from one window to another by the human's click or by a
\* popup's grab: a window that maps takes it only where nothing has it
\* (new_toplevel), and one that goes gives it to nobody.
THEOREM FocusNotStolen == Spec => FocusKept
<1> DEFINE Kept == focus # None /\ focus' \notin {focus, None} =>
                      held # held' \/ PopupGrab(focus')
<1>1. [Next]_vars => [Kept]_vars
  <2> SUFFICES ASSUME Next, focus # None, focus' \notin {focus, None}
               PROVE  held # held' \/ PopupGrab(focus')
    OBVIOUS
  <2>1. CASE Pointer
    <3>1. ASSUME NEW spot \in Spots, NEW wants \in BOOLEAN, Motion(spot, wants)
          PROVE  FALSE
      BY <3>1 DEF Motion
    <3>2. ASSUME NEW b \in Buttons, NEW wants \in BOOLEAN, Press(b, wants)
          PROVE  held # held'
      BY <3>2 DEF Press
    <3>3. ASSUME NEW b \in Buttons, NEW wants \in BOOLEAN, Release(b, wants)
          PROVE  FALSE
      BY <3>3 DEF Release, ToolbarButton, deskVars
    <3> QED
      BY <2>1, <3>1, <3>2, <3>3 DEF Pointer
  <2>2. ASSUME NEW w \in Windows, Client(w) PROVE PopupGrab(focus')
    <3>1. ~NewToplevel(w)
      BY DEF NewToplevel, FocusNew
    <3>2. ~ToplevelDestroyed(w)
      BY DEF ToplevelDestroyed
    <3>3. PopupGrab(w) => focus' = w
      BY DEF PopupGrab
    <3> QED
      BY <2>2, <3>1, <3>2, <3>3
         DEF Client, MaximizeRequest, MoveRequest, ResizeRequest, DndRequested,
             Commit, deskVars
  <2>3. CASE Keyboard \/ MenuCloses \/ ToolbarBuilt \/ PopupCloses
    BY <2>3 DEF Keyboard, HostFocus, KeyDown, KeyUp, MenuCloses, ToolbarBuilt,
                PopupCloses, deskVars
  <2> QED
    BY <2>1, <2>2, <2>3 DEF Next
<1> QED
  BY <1>1, PTL DEF Spec, FocusKept

-----------------------------------------------------------------------------
(* The window stack.                                                       *)

\* A sequence in which each of some windows is once.
Once(s, S) == s \in Seq(Windows) /\ IsInjective(s) /\ ToSet(s) = S

LEMMA AppendOnce ==
    ASSUME NEW s, NEW S, Once(s, S), NEW w \in Windows, w \notin S
    PROVE  Once(Append(s, w), S \union {w})
<1> DEFINE t == Append(s, w)
           n == Len(s)
<1>1. /\ s \in Seq(Windows) /\ n \in Nat /\ DOMAIN s = 1..n
      /\ \A i \in 1..n : s[i] \in S
      /\ \A x \in S : \E i \in 1..n : s[i] = x
      /\ \A i, j \in 1..n : s[i] = s[j] => i = j
  BY LenProperties DEF Once, ToSet, IsInjective
<1>2. /\ t \in Seq(Windows) /\ DOMAIN t = 1..(n + 1)
      /\ \A i \in 1..n : t[i] = s[i]
      /\ t[n + 1] = w
  BY <1>1, AppendProperties, LenProperties
<1> HIDE DEF t, n
<1>3. \A i \in 1..(n + 1) : i \in 1..n \/ i = n + 1
  BY <1>1
<1>4. IsInjective(t)
  BY <1>1, <1>2, <1>3 DEF IsInjective
<1>5. ToSet(t) = S \union {w}
  <2>1. \A i \in 1..(n + 1) : t[i] \in S \union {w}
    BY <1>1, <1>2, <1>3
  <2>2. \A i \in 1..n : i \in 1..(n + 1)
    BY <1>1
  <2>3. \A x \in S \union {w} : \E i \in 1..(n + 1) : t[i] = x
    <3>1. n + 1 \in 1..(n + 1)
      BY <1>1
    <3> QED
      BY <1>1, <1>2, <2>2, <3>1
  <2> QED
    BY <1>2, <2>1, <2>3 DEF ToSet
<1> QED
  BY <1>2, <1>4, <1>5 DEF Once, t

LEMMA WithoutOnce ==
    ASSUME Once(stack, Mapped), NEW w \in Mapped
    PROVE  Once(Without(w), Mapped \ {w})
<1> DEFINE n == Len(stack)
           i == CHOOSE j \in DOMAIN stack : stack[j] = w
           a == SubSeq(stack, 1, i - 1)
           b == SubSeq(stack, i + 1, n)
           r == a \o b
<1>1. /\ stack \in Seq(Windows) /\ n \in Nat /\ DOMAIN stack = 1..n
      /\ \A k \in 1..n : stack[k] \in Windows
      /\ \A j, k \in 1..n : stack[j] = stack[k] => j = k
  BY LenProperties DEF Once, IsInjective
<1>2. i \in 1..n /\ stack[i] = w
  BY <1>1 DEF Mapped, ToSet
<1>3. r = Without(w)
  BY DEF Without, RemoveAt
<1> HIDE DEF n, i
<1>4. /\ a \in Seq(Windows) /\ Len(a) = i - 1
      /\ \A k \in 1..(i - 1) : a[k] = stack[k]
  <2>1. \A k \in 1..(i - 1) : stack[k] \in Windows
    BY <1>1, <1>2
  <2>2. /\ a \in Seq(Windows) /\ Len(a) = IF 1 <= i - 1 THEN i - 1 - 1 + 1 ELSE 0
        /\ \A k \in 1..(i - 1 - 1 + 1) : a[k] = stack[1 + k - 1]
    BY <1>2, <2>1, SubSeqProperties
  <2> QED
    BY <1>1, <1>2, <2>2
<1>5. /\ b \in Seq(Windows) /\ Len(b) = n - i
      /\ \A k \in 1..(n - i) : b[k] = stack[i + k]
  <2>1. \A k \in (i + 1)..n : stack[k] \in Windows
    BY <1>1, <1>2
  <2>2. /\ b \in Seq(Windows) /\ Len(b) = IF i + 1 <= n THEN n - (i + 1) + 1 ELSE 0
        /\ \A k \in 1..(n - (i + 1) + 1) : b[k] = stack[i + 1 + k - 1]
    BY <1>1, <1>2, <2>1, SubSeqProperties
  <2> QED
    BY <1>1, <1>2, <2>2
<1>6. /\ r \in Seq(Windows) /\ Len(r) = n - 1
      /\ \A k \in 1..(n - 1) : r[k] = IF k < i THEN stack[k] ELSE stack[k + 1]
  <2> HIDE DEF a, b
  <2>1. /\ r \in Seq(Windows) /\ Len(r) = Len(a) + Len(b)
        /\ \A k \in 1..(Len(a) + Len(b)) :
              r[k] = IF k <= Len(a) THEN a[k] ELSE b[k - Len(a)]
    BY <1>4, <1>5, ConcatProperties
  <2>2. Len(r) = n - 1
    BY <1>1, <1>2, <1>4, <1>5, <2>1
  <2>3. ASSUME NEW k \in 1..(n - 1)
        PROVE  r[k] = IF k < i THEN stack[k] ELSE stack[k + 1]
    <3>1. r[k] = IF k <= i - 1 THEN a[k] ELSE b[k - (i - 1)]
      BY <1>1, <1>2, <1>4, <1>5, <2>1
    <3>2. CASE k < i
      BY <1>1, <1>2, <1>4, <3>1, <3>2
    <3>3. CASE ~(k < i)
      <4>1. k - (i - 1) \in 1..(n - i) /\ i + (k - (i - 1)) = k + 1
        BY <1>1, <1>2, <3>3
      <4>2. r[k] = b[k - (i - 1)]
        BY <1>1, <1>2, <3>1, <3>3
      <4> QED
        BY <1>5, <3>3, <4>1, <4>2
    <3> QED
      BY <3>2, <3>3
  <2> QED
    BY <2>1, <2>2, <2>3
<1>7. DOMAIN r = 1..(n - 1)
  BY <1>6, LenProperties
<1> HIDE DEF r
<1> DEFINE at(k) == IF k < i THEN k ELSE k + 1
<1>8. \A k \in 1..(n - 1) : at(k) \in 1..n \ {i} /\ r[k] = stack[at(k)]
  BY <1>1, <1>2, <1>6
<1>9. \A k \in 1..n \ {i} : \E m \in 1..(n - 1) : at(m) = k
  <2> SUFFICES ASSUME NEW k \in 1..n \ {i} PROVE \E m \in 1..(n - 1) : at(m) = k
    OBVIOUS
  <2>1. CASE k < i
    <3>1. k \in 1..(n - 1) /\ at(k) = k
      BY <1>1, <1>2, <2>1
    <3> QED
      BY <3>1
  <2>2. CASE ~(k < i)
    <3>1. k - 1 \in 1..(n - 1) /\ at(k - 1) = k
      BY <1>1, <1>2, <2>2
    <3> QED
      BY <3>1
  <2> QED
    BY <2>1, <2>2
<1>10. \A k, m \in 1..(n - 1) : at(k) = at(m) => k = m
  BY <1>1, <1>2
<1> HIDE DEF at
<1>11. IsInjective(r)
  BY <1>1, <1>7, <1>8, <1>10 DEF IsInjective
<1>12. ToSet(r) = Mapped \ {w}
  <2>1. \A k \in 1..(n - 1) : r[k] \in Mapped \ {w}
    BY <1>1, <1>2, <1>8 DEF Mapped, ToSet
  <2>2. \A x \in Mapped \ {w} : \E k \in 1..(n - 1) : r[k] = x
    BY <1>1, <1>2, <1>8, <1>9 DEF Mapped, ToSet
  <2> QED
    BY <1>7, <2>1, <2>2 DEF ToSet
<1> QED
  BY <1>3, <1>6, <1>11, <1>12 DEF Once

LEMMA RaisedOnce ==
    ASSUME Once(stack, Mapped), NEW w \in Mapped
    PROVE  Once(Raised(w), Mapped)
<1>1. Once(Without(w), Mapped \ {w})
  BY WithoutOnce
<1>2. w \in Windows
  BY LenProperties DEF Once, Mapped, ToSet
<1>3. Once(Append(Without(w), w), (Mapped \ {w}) \union {w})
  BY <1>1, <1>2, AppendOnce
<1>4. (Mapped \ {w}) \union {w} = Mapped
  OBVIOUS
<1> QED
  BY <1>3, <1>4 DEF Raised

LEMMA UnderIs ==
    ASSUME Once(stack, Mapped), NEW spot
    PROVE  Under(spot) \in Mapped \union {None}
<1>1. stack # <<>> => Last(stack) \in Mapped
  <2>1. stack # <<>> => Len(stack) \in 1..Len(stack)
    BY EmptySeq, LenProperties DEF Once
  <2>2. DOMAIN stack = 1..Len(stack)
    BY LenProperties DEF Once
  <2> QED
    BY <2>1, <2>2 DEF Last, Mapped, ToSet
<1> QED
  BY <1>1 DEF Under

\* The stack, who has the focus, and the window that a drag is about.
StackInv ==
    /\ Once(stack, Mapped)
    /\ focus \in Mapped \union {None}
    /\ grab \in [kind : Grabs, win : Windows \union {None}]
    /\ grab.kind \in {"move", "resize"} => grab.win \in Mapped

\* The variables that are only sets and flags.
FlagInv ==
    /\ {ptr, location} \subseteq Spots
    /\ held \subseteq Buttons /\ pressed \subseteq Buttons /\ kept \subseteq Buttons
    /\ keysHeld \subseteq Keys /\ keysSeat \subseteq Keys
    /\ {hostFocus, toolbar, overStrip, menu} \subseteq BOOLEAN
    /\ resizing \in [Windows -> {"idle", "resizing", "waiting"}]

LEMMA DeskInit == Init => StackInv /\ FlagInv
<1> SUFFICES ASSUME Init PROVE StackInv /\ FlagInv
  OBVIOUS
<1>1. stack = <<>> /\ focus = None /\ grab = NoGrab
  BY DEF Init
<1>2. stack \in Seq(Windows) /\ DOMAIN stack = {}
  BY <1>1
<1>3. Once(stack, Mapped)
  BY <1>2 DEF Once, Mapped, IsInjective
<1>4. FlagInv
  BY DEF Init, FlagInv, Spots
<1> QED
  BY <1>1, <1>3, <1>4 DEF StackInv, NoGrab, Grabs

\* A step that leaves the stack, or raises a window of it, and gives the focus to
\* a window of it.
LEMMA StackSame ==
    ASSUME StackInv, focus' \in Mapped \union {None},
           stack' = stack \/ \E w \in Mapped : stack' = Raised(w),
           grab' \in [kind : Grabs, win : Windows \union {None}],
           grab'.kind \in {"move", "resize"} => grab'.win \in Mapped
    PROVE  StackInv'
<1>1. Once(stack', Mapped)
  BY RaisedOnce DEF StackInv
<1>2. Mapped' = Mapped
  BY <1>1 DEF Once, Mapped
<1>3. Once(stack, Mapped)'
  BY <1>1, <1>2 DEF Once
<1> QED
  BY <1>2, <1>3 DEF StackInv

LEMMA PointerDesk == ASSUME StackInv, FlagInv, Pointer PROVE StackInv' /\ FlagInv'
<1>0. /\ Once(stack, Mapped) /\ focus \in Mapped \union {None}
      /\ Mapped \subseteq Windows
      /\ grab \in [kind : Grabs, win : Windows \union {None}]
      /\ grab.kind \in {"move", "resize"} => grab.win \in Mapped
  BY LenProperties DEF StackInv, Once, Mapped, ToSet
<1>u. \A spot : Under(spot) \in Mapped \union {None}
  BY <1>0, UnderIs
<1>1. ASSUME NEW spot \in Spots, NEW wants \in BOOLEAN, Motion(spot, wants)
      PROVE  StackInv' /\ FlagInv'
  <2>1. FlagInv'
    BY <1>1 DEF Motion, FlagInv, keyVars, buttonVars
  <2>2. UNCHANGED <<focus, grab>>
    BY <1>1 DEF Motion
  <2>3. stack' = stack \/ \E w \in Mapped : stack' = Raised(w)
    BY <1>0, <1>1 DEF Motion
  <2> QED
    BY <1>0, <2>1, <2>2, <2>3, StackSame
<1>2. ASSUME NEW b \in Buttons, NEW wants \in BOOLEAN, Press(b, wants)
      PROVE  StackInv' /\ FlagInv'
  <2>1. FlagInv'
    BY <1>2 DEF Press, ToolbarButton, FlagInv, keyVars
  <2>2. CASE ToolbarKeeps(wants)
    <3>1. UNCHANGED <<focus, stack, grab>>
      BY <1>2, <2>2 DEF Press, ToolbarButton, deskVars
    <3> QED
      BY <1>0, <2>1, <3>1, StackSame
  <2>3. CASE ~ToolbarKeeps(wants)
    <3>1. grab' = GrabPressed
      BY <1>2, <2>3 DEF Press
    <3>2. /\ GrabPressed \in [kind : Grabs, win : Windows \union {None}]
          /\ GrabPressed.kind \in {"move", "resize"} => GrabPressed.win \in Mapped
      BY <1>0, <1>u DEF GrabPressed, NoGrab, Grabs
    <3>3. /\ focus' \in Mapped \union {None}
          /\ stack' = stack \/ \E w \in Mapped : stack' = Raised(w)
      BY <1>0, <1>u, <1>2, <2>3 DEF Press, FocusClick, deskVars
    <3> QED
      BY <2>1, <3>1, <3>2, <3>3, StackSame
  <2> QED
    BY <2>1, <2>2, <2>3
<1>3. ASSUME NEW b \in Buttons, NEW wants \in BOOLEAN, Release(b, wants)
      PROVE  StackInv' /\ FlagInv'
  <2>1. FlagInv'
    <3>1. resizing' \in [Windows -> {"idle", "resizing", "waiting"}]
      BY <1>3 DEF Release, ToolbarButton, Settle, FlagInv
    <3>2. /\ menu' \in BOOLEAN /\ pressed' \subseteq Buttons
         /\ held' \subseteq Buttons /\ kept' \subseteq Buttons
      BY <1>3 DEF Release, ToolbarButton, Unheard, FlagInv
    <3>3. UNCHANGED <<ptr, keyVars, toolbar, overStrip, location>>
      BY <1>3 DEF Release, ToolbarButton
    <3> QED
      BY <3>1, <3>2, <3>3 DEF FlagInv, keyVars
  <2>2. UNCHANGED <<focus, stack>>
    BY <1>3 DEF Release, ToolbarButton, deskVars
  <2>3. grab' \in {grab, NoGrab}
    BY <1>3 DEF Release, ToolbarButton
  <2>4. /\ grab' \in [kind : Grabs, win : Windows \union {None}]
        /\ grab'.kind \in {"move", "resize"} => grab'.win \in Mapped
    BY <1>0, <2>3 DEF NoGrab, Grabs
  <2> QED
    BY <1>0, <2>1, <2>2, <2>4, StackSame
<1> QED
  BY <1>1, <1>2, <1>3 DEF Pointer

LEMMA ClientDesk ==
    ASSUME StackInv, FlagInv, NEW w \in Windows, Client(w)
    PROVE  StackInv' /\ FlagInv'
<1>0. /\ Once(stack, Mapped) /\ focus \in Mapped \union {None}
      /\ grab \in [kind : Grabs, win : Windows \union {None}]
      /\ grab.kind \in {"move", "resize"} => grab.win \in Mapped
      /\ resizing \in [Windows -> {"idle", "resizing", "waiting"}]
  BY DEF StackInv, FlagInv
<1>1. FlagInv'
  <2>1. resizing' \in [Windows -> {"idle", "resizing", "waiting"}]
    BY <1>0 DEF Client, NewToplevel, ToplevelDestroyed, MaximizeRequest,
                MoveRequest, ResizeRequest, DndRequested, PopupGrab, Commit
  <2>2. UNCHANGED <<humanVars, keyVars, barVars, location, buttonVars>>
    BY DEF Client, NewToplevel, ToplevelDestroyed, MaximizeRequest,
           MoveRequest, ResizeRequest, DndRequested, PopupGrab, Commit
  <2> QED
    BY <2>1, <2>2 DEF FlagInv, humanVars, keyVars, barVars, buttonVars
<1>2. CASE NewToplevel(w)
  <2>1. Once(stack', Mapped \union {w})
    BY <1>0, <1>2, AppendOnce DEF NewToplevel
  <2>2. Mapped' = Mapped \union {w}
    BY <2>1 DEF Once, Mapped
  <2>3. Once(stack, Mapped)'
    BY <2>1, <2>2 DEF Once
  <2> QED
    BY <1>0, <1>1, <1>2, <2>2, <2>3 DEF NewToplevel, FocusNew, StackInv
<1>3. CASE ToplevelDestroyed(w)
  <2>1. Once(stack', Mapped \ {w})
    BY <1>0, <1>3, WithoutOnce DEF ToplevelDestroyed
  <2>2. Mapped' = Mapped \ {w}
    BY <2>1 DEF Once, Mapped
  <2>3. Once(stack, Mapped)'
    BY <2>1, <2>2 DEF Once
  <2>4. focus' \in Mapped' \union {None}
    BY <1>0, <1>3, <2>2 DEF ToplevelDestroyed
  <2>5. /\ grab' \in [kind : Grabs, win : Windows \union {None}]
        /\ grab'.kind \in {"move", "resize"} => grab'.win \in Mapped'
    <3>1. CASE grab = [kind |-> "popup", win |-> w]
      BY <1>3, <3>1 DEF ToplevelDestroyed, NoGrab, Grabs
    <3>2. CASE grab # [kind |-> "popup", win |-> w] /\ grab.win = w
      BY <1>0, <1>3, <3>2 DEF ToplevelDestroyed
    <3>3. CASE grab # [kind |-> "popup", win |-> w] /\ grab.win # w
      BY <1>0, <1>3, <2>2, <3>3 DEF ToplevelDestroyed
    <3> QED
      BY <3>1, <3>2, <3>3
  <2> QED
    BY <1>1, <2>3, <2>4, <2>5 DEF StackInv
<1>4. CASE MaximizeRequest(w)
  BY <1>0, <1>1, <1>4, StackSame DEF MaximizeRequest
<1>5. CASE MoveRequest(w) \/ ResizeRequest(w) \/ DndRequested(w)
  <2>1. /\ UNCHANGED <<focus, stack>> /\ w \in Mapped
        /\ \E kind \in {"move", "resize", "dnd"} :
              grab' = [kind |-> kind, win |-> w]
    BY <1>5 DEF MoveRequest, ResizeRequest, DndRequested, CheckGrab, deskVars
  <2>2. grab' \in [kind : Grabs, win : Windows \union {None}] /\ grab'.win = w
    BY <2>1 DEF Grabs
  <2> QED
    BY <1>0, <1>1, <2>1, <2>2, StackSame
<1>6. CASE PopupGrab(w)
  <2>1. stack' = stack /\ focus' = w /\ w \in Mapped
    BY <1>6 DEF PopupGrab
  <2>2. grab' \in {grab, [kind |-> "popup", win |-> w]}
    BY <1>6 DEF PopupGrab
  <2>3. /\ grab' \in [kind : Grabs, win : Windows \union {None}]
        /\ grab'.kind \in {"move", "resize"} => grab'.win \in Mapped
    BY <1>0, <2>2 DEF Grabs
  <2> QED
    BY <1>1, <2>1, <2>3, StackSame
<1>7. CASE Commit(w)
  BY <1>0, <1>1, <1>7, StackSame DEF Commit, deskVars
<1> QED
  BY <1>2, <1>3, <1>4, <1>5, <1>6, <1>7 DEF Client

LEMMA DeskStep == StackInv /\ FlagInv /\ [Next]_vars => StackInv' /\ FlagInv'
<1> SUFFICES ASSUME StackInv, FlagInv, [Next]_vars PROVE StackInv' /\ FlagInv'
  OBVIOUS
<1>0. /\ focus \in Mapped \union {None}
      /\ grab \in [kind : Grabs, win : Windows \union {None}]
      /\ grab.kind \in {"move", "resize"} => grab.win \in Mapped
  BY DEF StackInv
<1>1. CASE Keyboard
  <2>1. FlagInv'
    BY <1>1 DEF Keyboard, HostFocus, KeyDown, KeyUp, ReleasePressedKeys,
                FlagInv, humanVars, barVars, buttonVars
  <2>2. UNCHANGED <<stack, focus, grab>>
    BY <1>1 DEF Keyboard, HostFocus, KeyDown, KeyUp, deskVars
  <2> QED
    BY <1>0, <2>1, <2>2, StackSame
<1>2. CASE MenuCloses \/ ToolbarBuilt \/ PopupCloses
  <2>1. FlagInv'
    BY <1>2 DEF MenuCloses, ToolbarBuilt, PopupCloses, FlagInv, humanVars,
                keyVars, barVars, buttonVars
  <2>2. UNCHANGED <<stack, focus>> /\ grab' \in {grab, NoGrab}
    BY <1>2 DEF MenuCloses, ToolbarBuilt, PopupCloses, deskVars
  <2>3. /\ grab' \in [kind : Grabs, win : Windows \union {None}]
        /\ grab'.kind \in {"move", "resize"} => grab'.win \in Mapped
    BY <1>0, <2>2 DEF NoGrab, Grabs
  <2> QED
    BY <1>0, <2>1, <2>2, <2>3, StackSame
<1>3. CASE UNCHANGED vars
  <2>1. UNCHANGED <<stack, focus, grab>> /\ FlagInv'
    BY <1>3 DEF vars, humanVars, keyVars, barVars, buttonVars, deskVars, FlagInv
  <2> QED
    BY <1>0, <2>1, StackSame
<1> QED
  BY <1>1, <1>2, <1>3, PointerDesk, ClientDesk DEF Next

\* A window is mapped once, whoever raises it in the middle of what, the keyboard
\* is with a mapped window or with none, and every variable keeps its type.
THEOREM ShellTypes == Spec => []TypeOK
<1>1. StackInv /\ FlagInv => TypeOK
  <2> SUFFICES ASSUME StackInv, FlagInv PROVE TypeOK
    OBVIOUS
  <2>1. Mapped \subseteq Windows /\ IsInjective(stack)
    BY LenProperties DEF StackInv, Once, Mapped, ToSet
  <2> QED
    BY <2>1 DEF StackInv, FlagInv, TypeOK
<1> QED
  BY <1>1, DeskInit, DeskStep, PTL DEF Spec
=============================================================================
