------------------------------- MODULE Frame -------------------------------
(***************************************************************************)
(* The render loop: what marks the output dirty, how a frame is asked for, *)
(* what the frame does, and what of it reaches the screen.                 *)
(*                                                                         *)
(* Two regions of the screen are told apart: the scene (windows, cursor,   *)
(* backdrop), whose changes the damage tracker sees by itself, and the     *)
(* strip, which egui paints into the framebuffer behind the tracker's back *)
(* and which is reported by a commit counter.  The event loop is one       *)
(* thread, so a frame is one step; the host makes its GL calls fail.       *)
(***************************************************************************)
EXTENDS Integers, Sequences, FiniteSets

CONSTANTS
    MaxDeltas,     \* bound: how many texture updates egui produces
    FullFrames,    \* frames drawn whole after a resize (4 in the code)
    Ages,          \* the buffer ages the host reports
    Fails          \* what may fail: bind, draw, submit

ASSUME FrameAssumption ==
    /\ {MaxDeltas, FullFrames} \subseteq Nat
    /\ Ages \subseteq 0..2
    /\ Fails \subseteq {"bind", "draw", "submit"}

Regions == {"scene", "strip"}

VARIABLES
    \* what should be on the screen
    notice,         \* the banner: none, fresh, or past NOTICE_TTL
    cursor,         \* cursor_status: named, surface, dead (a surface not alive)
    awaited,        \* a menu item was clicked and not yet acted upon
    \* State and Toolbar
    dirty,          \* dirty
    toolbarChanged, \* toolbar_changed
    toolbar,        \* none yet, built, or failed
    click,          \* a menu click in the toolbar's event queue
    pending,        \* texture updates of the output that run() left to paint
    stripHot,       \* the pointer was on the strip at the last input
    \* the frame source
    requested,      \* winit has been asked for a frame
    fullRedraw,     \* full_redraw
    tracked,        \* what the damage tracker has recorded of each region:
                    \* nothing, an old content, the current one
    covered,        \* the banner was part of the strip it has recorded
    frames,         \* how many frames it has recorded (2: or more) ...
    last,           \* ... and the damage of the last of them
    \* what came out
    made,           \* how many texture updates egui has produced
    textures,       \* those uploaded, in order
    shown,          \* the regions whose current content is on the screen
    lost,           \* those whose current content was lost in a swap
    banner,         \* the banner is on the screen
    hostCursor      \* the host draws its cursor over the window

humanVars == <<notice, cursor, awaited>>
stateVars == <<dirty, toolbarChanged, toolbar, click, pending, stripHot>>
trackVars == <<fullRedraw, tracked, covered, frames, last>>
outVars == <<made, textures, banner, hostCursor>>
screenVars == <<shown, lost>>
vars == <<humanVars, stateVars, requested, trackVars, outVars, screenVars>>

Init ==
    /\ notice = "none" /\ cursor = "named" /\ awaited = FALSE
    /\ dirty = TRUE /\ toolbarChanged = TRUE /\ toolbar = "none"
    /\ click = FALSE /\ pending = <<>> /\ stripHot = FALSE
    /\ requested = FALSE /\ fullRedraw = 0
    /\ tracked = [r \in Regions |-> "nothing"] /\ covered = FALSE
    /\ frames = 0 /\ last = {}
    /\ made = 0 /\ textures = <<>> /\ shown = {} /\ lost = {}
    /\ banner = FALSE /\ hostCursor = TRUE

-----------------------------------------------------------------------------
(* What asks for a frame.                                                  *)

\* dirty, and State::wake.
Dirty == dirty' = TRUE /\ requested' = TRUE

\* These regions get a new content.  The tracker compares the scene's elements
\* itself.
Changes(rs) ==
    /\ shown' = shown \ rs /\ lost' = lost \ rs
    /\ tracked' = IF "scene" \in rs /\ tracked["scene"] = "current"
                  THEN [tracked EXCEPT !["scene"] = "old"] ELSE tracked

\* CompositorHandler::commit: an app has drawn.
Commit ==
    /\ Changes({"scene"}) /\ Dirty
    /\ UNCHANGED <<humanVars, toolbarChanged, toolbar, click, pending, stripHot,
                   fullRedraw, covered, frames, last, outVars>>

\* cursor_image: the client under the pointer wants another cursor.
CursorImage ==
    /\ \E c \in {"named", "surface"} \ {cursor} : cursor' = c
    /\ Dirty
    /\ UNCHANGED <<notice, awaited, toolbarChanged, toolbar, click, pending,
                   stripHot, trackVars, outVars, screenVars>>

\* toplevel_destroyed: a window is gone that committed nothing, and with its
\* client the cursor surface.
ToplevelDestroyed ==
    /\ Changes({"scene"}) /\ Dirty
    /\ cursor' = IF cursor = "surface" THEN "dead" ELSE cursor
    /\ UNCHANGED <<notice, awaited, toolbarChanged, toolbar, click, pending,
                   stripHot, fullRedraw, covered, frames, last, outVars>>

\* An input.  On the strip, or in an open menu, it is the toolbar's: its output
\* may change, and a menu item may be clicked.  Elsewhere it may drag a window.
Input(hot, clicked) ==
    /\ clicked => toolbar = "built" /\ hot /\ ~awaited
    /\ IF hot \/ stripHot THEN Changes({"strip"}) ELSE Changes({"scene"})
    /\ click' = (click \/ clicked)
    /\ awaited' = (awaited \/ clicked)
    /\ toolbarChanged' = (toolbarChanged \/ hot \/ stripHot)
    /\ stripHot' = hot
    /\ Dirty
    /\ UNCHANGED <<notice, cursor, toolbar, pending, fullRedraw, covered, frames,
                   last, outVars>>

\* WinitEvent::Resized.  The tracker drops its records when the size differs.
Resized ==
    /\ shown' = {} /\ lost' = {}
    /\ fullRedraw' = FullFrames
    /\ tracked' = [r \in Regions |-> "nothing"] /\ frames' = 0 /\ last' = {}
    /\ toolbarChanged' = TRUE /\ Dirty
    /\ UNCHANGED <<humanVars, toolbar, click, pending, stripHot, covered,
                   outVars>>

\* The discovery scan has found something: for the strip, the backdrop, or a
\* notice to show.
ScanChanged ==
    /\ \E r \in Regions : Changes({r})
    /\ \/ UNCHANGED notice
       \/ toolbar = "built" /\ notice' = "fresh"
    /\ toolbarChanged' = TRUE /\ Dirty
    /\ UNCHANGED <<cursor, awaited, toolbar, click, pending, stripHot,
                   fullRedraw, covered, frames, last, outVars>>

\* NOTICE_TTL passes; nobody is told.
NoticeExpires ==
    /\ notice = "fresh"
    /\ notice' = "expired"
    /\ UNCHANGED <<cursor, awaited, stateVars, requested, trackVars, outVars,
                   screenVars>>

\* The pacing timer.
Tick ==
    /\ dirty /\ ~requested
    /\ requested' = TRUE
    /\ UNCHANGED <<humanVars, stateVars, trackVars, outVars, screenVars>>

-----------------------------------------------------------------------------
(* A frame.  "delta" says whether egui has texture updates in it, "again"  *)
(* whether egui wants another frame.                                       *)

\* The toolbar runs in this frame.
Ran == toolbar = "built"

\* Mutant of Queued: an output that was never painted is dropped.
QueuedAfresh(delta) ==
    IF Ran THEN (IF delta THEN <<made + 1>> ELSE <<>>) ELSE pending

\* Toolbar::run: the new output takes the place of one that was not painted,
\* whose texture updates it takes along, oldest first.
Queued(delta) ==
    IF delta THEN Append(pending, made + 1) ELSE pending

\* The commit counter has moved, or the overlay's geometry has: it is its first
\* frame, or the banner came or went.
OverlayMoved ==
    \/ tracked["strip"] # "current"
    \/ toolbarChanged
    \/ covered # (notice = "fresh")

\* What the elements of this frame differ in from the recorded frame.
NewDamage ==
    {r \in Regions : IF r = "scene" THEN tracked[r] # "current"
                     ELSE Ran /\ OverlayMoved}

\* The buffer age the frame is drawn with.
Age(reported) == IF fullRedraw > 0 THEN 0 ELSE reported

\* OutputDamageTracker: everything, when the buffer's content is unknown or too
\* old for the records; else what is new, and what that buffer missed.
Damage(age) ==
    IF age = 0 \/ frames < age \/ tracked["scene"] = "nothing" THEN Regions
    ELSE NewDamage \union (IF age = 2 THEN last ELSE {})

\* Mutant of Countdown: counted down below zero.
CountdownOn == fullRedraw - 1

Countdown == IF fullRedraw > 0 THEN fullRedraw - 1 ELSE 0

\* The part every frame begins with: the flag is consumed and the toolbar run.
Begin(delta) ==
    /\ requested
    /\ delta => Ran /\ made < MaxDeltas
    /\ made' = IF delta THEN made + 1 ELSE made
    /\ click' = (click /\ ~Ran)
    /\ notice' = IF Ran /\ notice = "expired" THEN "none" ELSE notice
    /\ fullRedraw' = Countdown
    /\ UNCHANGED stripHot

\* The menu selection is acted upon.
Act == awaited' = (awaited /\ ~(Ran /\ click))

\* Mutant of ActFirst: the selection goes with the frame.
ActNever == UNCHANGED awaited

\* It is before anything is rendered, so also in a frame that fails.
ActFirst == Act

\* Mutant of SetCursor: a surface that is gone stays the cursor.
SetCursorAlways ==
    /\ cursor' = cursor
    /\ hostCursor' = (cursor' = "named")

\* A dead cursor surface gives way to the default; the host's cursor is hidden
\* exactly while a client's own is drawn.
SetCursor ==
    /\ cursor' = IF cursor = "dead" THEN "named" ELSE cursor
    /\ hostCursor' = (cursor' = "named")

\* Mutant of Retry: a frame that failed is not asked for again.
RetryNever == dirty' = FALSE /\ toolbarChanged' = FALSE /\ requested' = FALSE

\* A frame that failed is tried again at once.
Retry == dirty' = TRUE /\ toolbarChanged' = TRUE /\ requested' = TRUE

\* bind() fails, before the tracker has seen anything; or render_output does,
\* and the tracker forgets what it had recorded.
RenderFails(delta) ==
    /\ Begin(delta) /\ ActFirst /\ SetCursor /\ Retry
    /\ pending' = Queued(delta)
    /\ \/ /\ "bind" \in Fails
          /\ tracked' = IF toolbarChanged /\ tracked["strip"] = "current"
                        THEN [tracked EXCEPT !["strip"] = "old"] ELSE tracked
          /\ UNCHANGED <<frames, last>>
       \/ /\ "draw" \in Fails
          /\ tracked' = [r \in Regions |-> "nothing"] /\ frames' = 0 /\ last' = {}
    /\ UNCHANGED <<toolbar, textures, covered, screenVars, banner>>

\* The tracker's records after a frame with this damage.  What is only drawn
\* for the buffer's sake is not new.
Recorded(damage) ==
    /\ tracked' = [r \in Regions |->
                      IF r = "scene" \/ Ran THEN "current" ELSE "nothing"]
    /\ covered' = (Ran /\ notice = "fresh")
    /\ IF damage = {} THEN UNCHANGED <<frames, last>>
       ELSE /\ frames' = IF frames = 0 THEN 1 ELSE 2
            /\ last' = IF tracked["scene"] = "nothing" THEN Regions
                       ELSE NewDamage

\* The toolbar is built once a first frame has made the GL context current.
BuildToolbar ==
    IF toolbar = "none" THEN toolbar' \in {"built", "failed"}
    ELSE UNCHANGED toolbar

\* Toolbar::paint, into a framebuffer that will be submitted.
Paint(damage, delta) ==
    IF damage # {} /\ Ran
    THEN textures' = textures \o Queued(delta) /\ pending' = <<>>
    ELSE pending' = Queued(delta) /\ UNCHANGED textures

\* What of the damage the frame draws.
Drawn(damage) == {r \in damage : r = "scene" \/ Ran}

\* The buffer reaches the screen: the host takes over what is damaged.
Submit(damage) ==
    /\ shown' = shown \union Drawn(damage) /\ lost' = lost \ Drawn(damage)
    /\ banner' = IF Ran /\ "strip" \in damage THEN notice = "fresh" ELSE banner

\* Up to the swap, a frame that renders.
Render(age, delta, again) ==
    /\ again => Ran
    /\ Begin(delta) /\ Act /\ SetCursor
    /\ Recorded(Damage(age))
    /\ BuildToolbar
    /\ Paint(Damage(age), delta)
    /\ toolbarChanged' = again

\* A frame that is rendered and, if anything was damaged, submitted.
Rendered(reported, delta, again) ==
    /\ Render(Age(reported), delta, again)
    /\ Submit(Damage(Age(reported)))
    /\ dirty' = (again \/ (toolbar = "none" /\ toolbar' = "built"))
    /\ requested' = dirty'

\* A frame that is rendered and lost in the swap.  The pacing timer is to bring
\* the next one.
SubmitFails(reported, delta, again) ==
    /\ "submit" \in Fails /\ Damage(Age(reported)) # {}
    /\ Render(Age(reported), delta, again)
    /\ dirty' = TRUE /\ requested' = FALSE
    /\ lost' = lost \union (Drawn(Damage(Age(reported))) \ shown)
    /\ UNCHANGED <<shown, banner>>

-----------------------------------------------------------------------------
Changing ==
    \/ Commit \/ CursorImage \/ ToplevelDestroyed \/ Resized \/ ScanChanged
    \/ \E hot, clicked \in BOOLEAN : Input(hot, clicked)

RedrawWorks ==
    \E age \in Ages, delta, again \in BOOLEAN : Rendered(age, delta, again)

RedrawFails ==
    \/ \E delta \in BOOLEAN : RenderFails(delta)
    \/ \E age \in Ages, delta, again \in BOOLEAN : SubmitFails(age, delta, again)

Redraw == RedrawWorks \/ RedrawFails

Next == Changing \/ NoticeExpires \/ Tick \/ Redraw

Spec == Init /\ [][Next]_vars

\* The timer runs, winit delivers a frame that was asked for, time passes, and
\* the errors the code calls transient are: a frame asked for again and again
\* works in the end.  Nobody has to do anything.
Fairness ==
    /\ WF_vars(Tick) /\ WF_vars(Redraw) /\ SF_vars(RedrawWorks)
    /\ WF_vars(NoticeExpires)

FairSpec == Spec /\ Fairness

-----------------------------------------------------------------------------
\* Every variable keeps its type.
TypeOK ==
    /\ notice \in {"none", "fresh", "expired"}
    /\ cursor \in {"named", "surface", "dead"}
    /\ {awaited, dirty, toolbarChanged, click, stripHot, requested, covered,
        banner, hostCursor} \subseteq BOOLEAN
    /\ toolbar \in {"none", "built", "failed"}
    /\ fullRedraw \in 0..FullFrames
    /\ tracked \in [Regions -> {"nothing", "old", "current"}]
    /\ frames \in 0..2 /\ last \subseteq Regions
    /\ made \in 0..MaxDeltas
    /\ pending \in Seq(1..made) /\ textures \in Seq(1..made)
    /\ {shown, lost} \subseteq SUBSET Regions

\* egui sends a texture update once: every one of them is uploaded, in its
\* order, or waits to be, however many frames were never painted.
NoDeltaLost == textures \o pending = [i \in 1..made |-> i]

\* Every menu click is acted upon, also when the frame it falls in fails.
ClickActed == awaited ~> ~awaited

\* What changes is on the screen in the end, without another input or commit
\* having to bring it there; except what is lost in a swap after the tracker
\* has recorded it, which waits for the next change.
ChangeShown ==
    \A r \in Regions :
        r \notin shown ~>
            r \in shown \union lost \/ (r = "strip" /\ toolbar = "failed")

\* A client that dies with the cursor it drew gives the host's cursor back,
\* unless another one draws its own.
CursorReturns == cursor = "dead" ~> hostCursor \/ cursor = "surface"
=============================================================================
