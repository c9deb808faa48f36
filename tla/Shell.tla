------------------------------- MODULE Shell -------------------------------
(***************************************************************************)
(* Input routing: which of the human's pointer and key events reach the    *)
(* toolbar, which the apps, and the grabs, the focus and the window stack  *)
(* they move.                                                              *)
(*                                                                         *)
(* Three parties track one pointer: the human moves it, egui is fed it     *)
(* until a grab begins, and smithay gets what the toolbar does not keep.   *)
(* Every event is handled to its end on the one thread.                    *)
(***************************************************************************)
EXTENDS Integers, Sequences, FiniteSets, SequencesExt

CONSTANTS
    Windows,       \* the toplevels apps may map, each of a client of its own
    Buttons,       \* the mouse buttons; "left" is BTN_LEFT
    Keys,          \* the keys of the keyboard
    None           \* no window

ASSUME ShellAssumption ==
    /\ None \notin Windows /\ "left" \in Buttons
    /\ Windows \intersect {"strip", "bare", "pile"} = {}

\* Where the pointer may be: on the strip, on the bare backdrop, where all
\* windows overlap, or where only this window is.
Spots == {"strip", "bare", "pile"} \union Windows

Grabs == {"none", "click", "move", "resize", "dnd", "popup"}

VARIABLES
    \* the human
    ptr,           \* where the pointer is
    held,          \* the buttons held down
    keysHeld,      \* the keys held down
    hostFocus,     \* the host gives this window the keyboard
    \* the toolbar
    toolbar,       \* it has been built
    overStrip,     \* egui's pointer is over the strip
    menu,          \* a menu is open below the strip
    \* smithay
    location,      \* where its pointer is
    pressed,       \* current_pressed
    grab,          \* the pointer grab, and the window it is about
    keysSeat,      \* pressed_keys
    focus,         \* the keyboard focus (a popup's counts as its window's)
    stack,         \* the mapped windows, topmost last
    resizing,      \* ResizeSurfaceState of each window
    \* history
    kept           \* the buttons whose release the toolbar kept to itself while
                   \* no grab was on, and smithay still takes for pressed

humanVars == <<ptr, held>>
keyVars == <<keysHeld, keysSeat, hostFocus>>
barVars == <<toolbar, overStrip, menu>>
buttonVars == <<pressed, kept>>
deskVars == <<focus, stack>>
vars == <<humanVars, keyVars, barVars, location, buttonVars, grab, deskVars,
          resizing>>

NoGrab == [kind |-> "none", win |-> None]
Mapped == ToSet(stack)

Init ==
    /\ ptr = "bare" /\ held = {} /\ keysHeld = {} /\ hostFocus = TRUE
    /\ toolbar = FALSE /\ overStrip = FALSE /\ menu = FALSE
    /\ location = "bare" /\ pressed = {} /\ grab = NoGrab
    /\ keysSeat = {} /\ focus = None /\ stack = <<>>
    /\ resizing = [w \in Windows |-> "idle"] /\ kept = {}

-----------------------------------------------------------------------------
(* The pointer.                                                            *)

Grabbed == grab.kind # "none"

\* surface_under, element_under: the topmost window there.
Under(spot) ==
    CASE spot = "pile" /\ stack # <<>> -> Last(stack)
      [] spot \in Mapped -> spot
      [] OTHER -> None

\* The stack without a window of it, which is there once.
Without(w) == RemoveAt(stack, CHOOSE i \in DOMAIN stack : stack[i] = w)

\* Mutant of Raised: what is raised also stays where it was.
RaisedTwice(w) == Append(stack, w)

\* raise_element; map_element, which activates, does it too.
Raised(w) == Append(Without(w), w)

\* Mutant of ToolbarFirst: the toolbar is asked also during a grab.
ToolbarAlways == toolbar

\* The toolbar is asked first, unless a grab is active.
ToolbarFirst == toolbar /\ ~Grabbed

\* PointerMotionAbsolute, to a spot.  "wants" is wants_pointer: egui has a menu
\* there.  What the toolbar keeps, smithay does not see.
Motion(spot, wants) ==
    /\ wants => menu
    /\ spot # ptr
    /\ ptr' = spot
    /\ overStrip' = IF ToolbarFirst THEN spot = "strip" ELSE overStrip
    /\ IF ToolbarFirst /\ (spot = "strip" \/ wants)
       THEN UNCHANGED <<location, stack>>
       ELSE /\ location' = spot
            \* MoveSurfaceGrab::motion
            /\ stack' = IF grab.kind = "move" THEN Raised(grab.win) ELSE stack
    /\ UNCHANGED <<held, keyVars, toolbar, menu, buttonVars, grab, focus, resizing>>

\* Whether the toolbar keeps a button event, by its own pointer.
ToolbarKeeps(wants) == ToolbarFirst /\ (overStrip \/ wants)

\* A button event the toolbar keeps; its menus open and close.
ToolbarButton ==
    /\ menu' \in BOOLEAN
    /\ UNCHANGED <<location, pressed, grab, deskVars, resizing>>

\* Focus follows the click: what is under it is raised and gets the keyboard,
\* and the bare backdrop takes the keyboard from all.
FocusClick ==
    LET w == Under(location) IN
    /\ focus' = w
    /\ stack' = IF w = None THEN stack ELSE Raised(w)

\* A popup's grab ends with a press outside its client; another press is the
\* default grab's, which becomes a click grab, or falls to the grab there is.
GrabPressed ==
    CASE ~Grabbed -> [kind |-> "click", win |-> Under(location)]
      [] grab.kind = "popup" /\ Under(location) # grab.win -> NoGrab
      [] OTHER -> grab

\* PointerButton, pressed.
Press(b, wants) ==
    /\ wants => menu
    /\ b \notin held
    /\ held' = held \union {b}
    /\ kept' = IF ToolbarKeeps(wants) THEN kept ELSE kept \ {b}
    /\ IF ToolbarKeeps(wants) THEN ToolbarButton
       ELSE /\ IF Grabbed THEN UNCHANGED deskVars ELSE FocusClick
            /\ pressed' = pressed \union {b}
            /\ grab' = GrabPressed
            /\ menu' = (menu /\ ~ToolbarFirst)
            /\ UNCHANGED <<location, resizing>>
    /\ UNCHANGED <<ptr, keyVars, toolbar, overStrip>>

\* A click grab and a drag end when no button is pressed any more, a move and a
\* resize as soon as the left one is not.
GrabEndsWith(down) ==
    \/ grab.kind \in {"click", "dnd"} /\ down = {}
    \/ grab.kind \in {"move", "resize"} /\ "left" \notin down

\* ResizeSurfaceGrab::button: the last commit may still move the window.
Settle ==
    resizing' = IF grab.kind = "resize"
                THEN [resizing EXCEPT ![grab.win] = "waiting"] ELSE resizing

\* History: this release is one that smithay waits for, with no grab on.
Unheard(b) == IF Grabbed THEN {} ELSE {b} \intersect pressed

\* PointerButton, released.
Release(b, wants) ==
    /\ wants => menu
    /\ b \in held
    /\ held' = held \ {b}
    /\ kept' = IF ToolbarKeeps(wants) THEN kept \union Unheard(b) ELSE kept \ {b}
    /\ IF ToolbarKeeps(wants) THEN ToolbarButton
       ELSE /\ pressed' = pressed \ {b}
            /\ IF GrabEndsWith(pressed') THEN grab' = NoGrab /\ Settle
               ELSE UNCHANGED <<grab, resizing>>
            /\ UNCHANGED <<menu, location, deskVars>>
    /\ UNCHANGED <<ptr, keyVars, toolbar, overStrip>>

\* egui closes its menu by itself: Escape, or an item that was chosen.
MenuCloses ==
    /\ menu
    /\ menu' = FALSE
    /\ UNCHANGED <<humanVars, keyVars, toolbar, overStrip, location, buttonVars,
                   grab, deskVars, resizing>>

\* The first frame builds the toolbar, egui's pointer at the origin.
ToolbarBuilt ==
    /\ ~toolbar
    /\ toolbar' = TRUE /\ overStrip' = TRUE
    /\ UNCHANGED <<humanVars, keyVars, menu, location, buttonVars, grab,
                   deskVars, resizing>>

-----------------------------------------------------------------------------
(* The clients.                                                            *)

\* Mutant of FocusNew: a window that maps takes the keyboard.
FocusNewAlways(w) == focus' = w

\* A new window gets the keyboard only where nothing has it.
FocusNew(w) ==
    focus' = IF grab.kind # "popup" /\ focus = None THEN w ELSE focus

\* new_toplevel: mapped on top of the others.
NewToplevel(w) ==
    /\ w \notin Mapped
    /\ stack' = Append(stack, w)
    /\ FocusNew(w)
    /\ UNCHANGED <<humanVars, keyVars, barVars, location, buttonVars, grab, resizing>>

\* toplevel_destroyed, and what the toolkit drops with the surface.  No client
\* closes a window in the middle of its own drag.
ToplevelDestroyed(w) ==
    /\ w \in Mapped
    /\ grab.win = w => grab.kind \notin {"move", "resize"}
    /\ stack' = Without(w)
    /\ focus' = IF focus = w THEN None ELSE focus
    /\ grab' = CASE grab = [kind |-> "popup", win |-> w] -> NoGrab
                 [] grab.win = w -> [grab EXCEPT !.win = None]
                 [] OTHER -> grab
    /\ resizing' = [resizing EXCEPT ![w] = "idle"]
    /\ UNCHANGED <<humanVars, keyVars, barVars, location, buttonVars>>

\* check_grab: the request carries the serial of the click this window got.
CheckGrab(w) == w \in Mapped /\ grab = [kind |-> "click", win |-> w]

\* move_request.
MoveRequest(w) ==
    /\ CheckGrab(w)
    /\ grab' = [kind |-> "move", win |-> w]
    /\ UNCHANGED <<humanVars, keyVars, barVars, location, buttonVars, deskVars,
                   resizing>>

\* resize_request, ResizeSurfaceGrab::start.
ResizeRequest(w) ==
    /\ CheckGrab(w)
    /\ grab' = [kind |-> "resize", win |-> w]
    /\ resizing' = [resizing EXCEPT ![w] = "resizing"]
    /\ UNCHANGED <<humanVars, keyVars, barVars, location, buttonVars, deskVars>>

\* dnd_requested.
DndRequested(w) ==
    /\ CheckGrab(w)
    /\ grab' = [kind |-> "dnd", win |-> w]
    /\ UNCHANGED <<humanVars, keyVars, barVars, location, buttonVars, deskVars,
                   resizing>>

\* grab: a popup of this window takes the keyboard, and the pointer unless a
\* grab of another is active, in which case the popup is dismissed.  No client
\* opens one in the middle of its own drag.
PopupGrab(w) ==
    /\ w \in Mapped /\ grab.kind # "popup"
    /\ grab.win = w => grab.kind = "click"
    /\ focus' = w
    /\ grab' = IF Grabbed /\ grab.win # w THEN grab
               ELSE [kind |-> "popup", win |-> w]
    /\ UNCHANGED <<humanVars, keyVars, barVars, location, buttonVars, stack,
                   resizing>>

\* The client closes its popup.
PopupCloses ==
    /\ grab.kind = "popup"
    /\ grab' = NoGrab
    /\ UNCHANGED <<humanVars, keyVars, barVars, location, buttonVars, deskVars,
                   resizing>>

\* maximize_request: the window fills the work area, on top.
MaximizeRequest(w) ==
    /\ w \in Mapped
    /\ stack' = Raised(w)
    /\ UNCHANGED <<humanVars, keyVars, barVars, location, buttonVars, grab, focus,
                   resizing>>

\* A commit: the first one after a resize ends it.
Commit(w) ==
    /\ w \in Mapped /\ resizing[w] = "waiting"
    /\ resizing' = [resizing EXCEPT ![w] = "idle"]
    /\ UNCHANGED <<humanVars, keyVars, barVars, location, buttonVars, grab, deskVars>>

-----------------------------------------------------------------------------
(* The keyboard.                                                           *)

\* A key goes down while the host delivers keys.
KeyDown(k) ==
    /\ hostFocus /\ k \notin keysHeld
    /\ keysHeld' = keysHeld \union {k} /\ keysSeat' = keysSeat \union {k}
    /\ UNCHANGED <<humanVars, hostFocus, barVars, location, buttonVars, grab,
                   deskVars, resizing>>

\* A key goes up; without the keyboard nobody tells the seat.
KeyUp(k) ==
    /\ k \in keysHeld
    /\ keysHeld' = keysHeld \ {k}
    /\ keysSeat' = IF hostFocus THEN keysSeat \ {k} ELSE keysSeat
    /\ UNCHANGED <<humanVars, hostFocus, barVars, location, buttonVars, grab,
                   deskVars, resizing>>

\* Mutant of ReleasePressedKeys: they stay pressed.
ReleaseNothing == UNCHANGED keysSeat

\* release_pressed_keys.
ReleasePressedKeys == keysSeat' = {}

\* WinitEvent::Focus.
HostFocus ==
    /\ hostFocus' = ~hostFocus
    /\ IF hostFocus THEN ReleasePressedKeys ELSE UNCHANGED keysSeat
    /\ UNCHANGED <<humanVars, keysHeld, barVars, location, buttonVars, grab,
                   deskVars, resizing>>

-----------------------------------------------------------------------------
Pointer ==
    \E wants \in BOOLEAN :
        \/ \E spot \in Spots : Motion(spot, wants)
        \/ \E b \in Buttons : Press(b, wants) \/ Release(b, wants)

Client(w) ==
    \/ NewToplevel(w) \/ ToplevelDestroyed(w) \/ MaximizeRequest(w)
    \/ MoveRequest(w) \/ ResizeRequest(w) \/ DndRequested(w)
    \/ PopupGrab(w) \/ Commit(w)

Keyboard == HostFocus \/ \E k \in Keys : KeyDown(k) \/ KeyUp(k)

Next ==
    \/ Pointer \/ Keyboard \/ MenuCloses \/ ToolbarBuilt \/ PopupCloses
    \/ \E w \in Windows : Client(w)

Spec == Init /\ [][Next]_vars

-----------------------------------------------------------------------------
\* Every variable keeps its type; a window is mapped once.
TypeOK ==
    /\ {ptr, location} \subseteq Spots
    /\ {held, pressed, kept} \subseteq SUBSET Buttons
    /\ {keysHeld, keysSeat} \subseteq SUBSET Keys
    /\ {hostFocus, toolbar, overStrip, menu} \subseteq BOOLEAN
    /\ grab \in [kind : Grabs, win : Windows \union {None}]
    /\ focus \in Mapped \union {None}
    /\ IsInjective(stack) /\ Mapped \subseteq Windows
    /\ resizing \in [Windows -> {"idle", "resizing", "waiting"}]

\* When every button is up, no window is glued to the cursor: wherever the
\* pointer wandered during a drag, over the strip or a menu too, the release that
\* ends it got through.  What the toolbar may keep is the release of a second
\* button, of which smithay was told but whose grab had ended before; smithay
\* then counts that button as pressed until it is clicked again, and "kept" names
\* it.  No release that comes during a grab is ever one of these.
GrabEnds == held = {} /\ kept = {} => grab.kind \in {"none", "popup"}

\* No key is held for the apps that the human does not hold, however the host
\* took the keyboard away and gave it back.
KeysFollow == keysSeat \subseteq keysHeld

\* What the human has let go of is not held inside: neither a grab nor a key.
NothingStuck == GrabEnds /\ KeysFollow

\* The keyboard moves from one window to another by the human's click or by a
\* popup's grab, never because a window appeared or another one went.
FocusKept ==
    [][ focus # None /\ focus' \notin {focus, None} =>
            held # held' \/ PopupGrab(focus') ]_vars
=============================================================================
