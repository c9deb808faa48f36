---------------------------- MODULE FrameProofs ----------------------------
(***************************************************************************)
(* However many frames are never painted, no texture update is lost,      *)
(* repeated or reordered: for any number of updates and any failures.      *)
(* And every variable keeps its type.                                      *)
(***************************************************************************)
EXTENDS Frame, SequenceTheorems, TLAPS

\* What egui has produced, in its order.
Produced(n) == [i \in 1..n |-> i]

Inv ==
    /\ made \in Nat
    /\ pending \in Seq(Nat) /\ textures \in Seq(Nat)
    /\ NoDeltaLost

\* One more update goes to the end of what waits.
LEMMA QueueGrows ==
    ASSUME NEW n \in Nat, NEW s \in Seq(Nat), NEW t \in Seq(Nat),
           s \o t = Produced(n)
    PROVE  s \o Append(t, n + 1) = Produced(n + 1)
<1>1. n + 1 \in Nat /\ s \o t \in Seq(Nat)
  <2>1. n + 1 \in Nat
    OBVIOUS
  <2>2. s \o t \in Seq(Nat)
    BY ConcatProperties, Zenon
  <2> QED
    BY <2>1, <2>2
<1>2. s \o Append(t, n + 1) = Append(s \o t, n + 1)
  <2>1. <<n + 1>> \in Seq(Nat)
    BY <1>1
  <2>2. /\ Append(t, n + 1) = t \o <<n + 1>>
        /\ Append(s \o t, n + 1) = (s \o t) \o <<n + 1>>
    BY <1>1, AppendIsConcat
  <2>3. (s \o t) \o <<n + 1>> = s \o (t \o <<n + 1>>)
    BY <2>1, ConcatAssociative
  <2> QED
    BY <2>2, <2>3
<1>3. Append(Produced(n), n + 1) = Produced(n + 1)
  <2>1. Produced(n) \in Seq(Nat) /\ Len(Produced(n)) = n
    BY DEF Produced
  <2> QED
    BY <2>1 DEF Produced
<1> QED
  BY <1>2, <1>3

\* A painted frame and one that is not painted agree on what has been taken
\* from egui: it is uploaded, or it waits.
LEMMA FrameKeeps ==
    ASSUME Inv, NEW delta \in BOOLEAN,
           made' = IF delta THEN made + 1 ELSE made,
           \/ textures' = textures \o Queued(delta) /\ pending' = <<>>
           \/ pending' = Queued(delta) /\ UNCHANGED textures
    PROVE  Inv'
<1> USE DEF Inv
<1>1. Queued(delta) \in Seq(Nat)
  BY DEF Queued
<1>2. textures \o Queued(delta) = Produced(made')
  <2>1. CASE delta
    BY <2>1, QueueGrows DEF Queued, NoDeltaLost, Produced
  <2>2. CASE ~delta
    BY <2>2 DEF Queued, NoDeltaLost, Produced
  <2> QED
    BY <2>1, <2>2
<1>3. CASE textures' = textures \o Queued(delta) /\ pending' = <<>>
  <2>1. textures' \in Seq(Nat) /\ textures' \o pending' = textures'
    BY <1>1, <1>3
  <2> QED
    BY <1>2, <1>3, <2>1 DEF NoDeltaLost, Produced
<1>4. CASE pending' = Queued(delta) /\ UNCHANGED textures
  BY <1>1, <1>2, <1>4 DEF NoDeltaLost, Produced
<1> QED
  BY <1>3, <1>4

LEMMA InvInit == Init => Inv
BY DEF Init, Inv, NoDeltaLost

\* Only a frame runs the toolbar or paints.
LEMMA InvStep == ASSUME Inv, [Next]_vars PROVE Inv'
<1>1. ASSUME UNCHANGED <<made, pending, textures>> PROVE Inv'
  BY <1>1 DEF Inv, NoDeltaLost
<1>2. CASE Changing
  BY <1>1, <1>2 DEF Changing, Commit, CursorImage, ToplevelDestroyed, Input,
         Resized, ScanChanged, outVars, stateVars
<1>3. CASE NoticeExpires \/ Tick \/ UNCHANGED vars
  BY <1>1, <1>3 DEF NoticeExpires, Tick, vars, outVars, stateVars
<1>4. ASSUME NEW delta \in BOOLEAN, RenderFails(delta) PROVE Inv'
  BY <1>4, FrameKeeps DEF RenderFails, Begin
<1>5. ASSUME NEW age, NEW delta \in BOOLEAN, NEW again, Render(age, delta, again)
      PROVE  Inv'
  <2>1. /\ made' = IF delta THEN made + 1 ELSE made
        /\ Paint(Damage(age), delta)
    BY <1>5 DEF Render, Begin
  <2> QED
    BY <2>1, FrameKeeps DEF Paint
<1>6. CASE Redraw
  <2>1. CASE RedrawWorks
    <3>1. PICK age \in Ages, delta \in BOOLEAN, again \in BOOLEAN :
                 Rendered(age, delta, again)
      BY <2>1 DEF RedrawWorks
    <3> QED
      BY <3>1, <1>5 DEF Rendered
  <2>2. CASE RedrawFails
    BY <2>2, <1>4, <1>5 DEF RedrawFails, SubmitFails
  <2> QED
    BY <1>6, <2>1, <2>2 DEF Redraw
<1> QED
  BY <1>2, <1>3, <1>6 DEF Next

\* Toolbar::run and Toolbar::paint: what egui sends once reaches the GPU once
\* and in its order, or still waits.
THEOREM DeltasKept == Spec => []NoDeltaLost
<1>1. Inv => NoDeltaLost
  BY DEF Inv
<1> QED
  BY InvInit, InvStep, <1>1, PTL DEF Spec

-----------------------------------------------------------------------------
(* Types.                                                                  *)

\* The texture updates that egui has produced by then.
DeltaTypes ==
    /\ made \in 0..MaxDeltas
    /\ pending \in Seq(1..made) /\ textures \in Seq(1..made)

\* The rest of the state.
ScreenTypes ==
    /\ notice \in {"none", "fresh", "expired"}
    /\ cursor \in {"named", "surface", "dead"}
    /\ awaited \in BOOLEAN /\ dirty \in BOOLEAN /\ toolbarChanged \in BOOLEAN
    /\ click \in BOOLEAN /\ stripHot \in BOOLEAN /\ requested \in BOOLEAN
    /\ covered \in BOOLEAN /\ banner \in BOOLEAN /\ hostCursor \in BOOLEAN
    /\ toolbar \in {"none", "built", "failed"}
    /\ fullRedraw \in 0..FullFrames
    /\ tracked \in [Regions -> {"nothing", "old", "current"}]
    /\ frames \in 0..2 /\ last \subseteq Regions
    /\ shown \subseteq Regions /\ lost \subseteq Regions

LEMMA TypesInit == Init => DeltaTypes /\ ScreenTypes
<1>1. Init => ScreenTypes
  <2>1. 0 \in 0..FullFrames /\ 0 \in 0..2
    BY FrameAssumption
  <2>2. Init => tracked \in [Regions -> {"nothing", "old", "current"}]
    BY DEF Init
  <2> QED
    BY <2>1, <2>2 DEF Init, ScreenTypes
<1>2. Init => DeltaTypes
  <2>1. <<>> \in Seq(1..0)
    OBVIOUS
  <2> QED
    BY <2>1, FrameAssumption DEF Init, DeltaTypes
<1> QED
  BY <1>1, <1>2

\* What a frame does to the updates, whether it paints or not.
LEMMA FrameDeltas ==
    ASSUME DeltaTypes, NEW delta \in BOOLEAN, delta => made < MaxDeltas,
           made' = IF delta THEN made + 1 ELSE made,
           \/ textures' = textures \o Queued(delta) /\ pending' = <<>>
           \/ pending' = Queued(delta) /\ UNCHANGED textures
    PROVE  DeltaTypes'
<1>1. made \in Nat /\ made' \in 0..MaxDeltas /\ 1..made \subseteq 1..made'
  BY FrameAssumption DEF DeltaTypes
<1>2. pending \in Seq(1..made') /\ textures \in Seq(1..made')
  <2>1. pending \in Seq(1..made) /\ textures \in Seq(1..made)
    BY DEF DeltaTypes
  <2> QED
    BY <1>1, <2>1, SeqMonotonic
<1>3. Queued(delta) \in Seq(1..made')
  <2>1. CASE delta
    <3>1. made + 1 \in 1..made'
      BY <1>1, <2>1
    <3>2. Append(pending, made + 1) \in Seq(1..made')
      BY <1>2, <3>1, AppendProperties
    <3> QED
      BY <2>1, <3>2 DEF Queued
  <2>2. CASE ~delta
    BY <1>2, <2>2 DEF Queued
  <2> QED
    BY <2>1, <2>2
<1>4. textures \o Queued(delta) \in Seq(1..made')
  BY <1>2, <1>3, ConcatProperties, Zenon
<1>5. <<>> \in Seq(1..made')
  OBVIOUS
<1> QED
  BY <1>1, <1>2, <1>3, <1>4, <1>5 DEF DeltaTypes

LEMMA DeltaTypesStep == ASSUME DeltaTypes, [Next]_vars PROVE DeltaTypes'
<1>1. ASSUME UNCHANGED <<made, pending, textures>> PROVE DeltaTypes'
  BY <1>1 DEF DeltaTypes
<1>2. CASE Changing
  BY <1>1, <1>2 DEF Changing, Commit, CursorImage, ToplevelDestroyed, Input,
         Resized, ScanChanged, outVars, stateVars
<1>3. CASE NoticeExpires \/ Tick \/ UNCHANGED vars
  BY <1>1, <1>3 DEF NoticeExpires, Tick, vars, outVars, stateVars
<1>4. ASSUME NEW delta \in BOOLEAN, RenderFails(delta) PROVE DeltaTypes'
  BY <1>4, FrameDeltas DEF RenderFails, Begin
<1>5. ASSUME NEW age, NEW delta \in BOOLEAN, NEW again, Render(age, delta, again)
      PROVE  DeltaTypes'
  <2>1. /\ made' = IF delta THEN made + 1 ELSE made
        /\ delta => made < MaxDeltas
        /\ Paint(Damage(age), delta)
    BY <1>5 DEF Render, Begin
  <2> QED
    BY <2>1, FrameDeltas DEF Paint
<1>6. CASE Redraw
  BY <1>4, <1>5, <1>6 DEF Redraw, RedrawWorks, RedrawFails, Rendered, SubmitFails
<1> QED
  BY <1>2, <1>3, <1>6 DEF Next

\* What the beginning of a frame does to its part of the state.
LEMMA BeginTypes ==
    ASSUME ScreenTypes, NEW delta, Begin(delta)
    PROVE  /\ click' \in BOOLEAN /\ notice' \in {"none", "fresh", "expired"}
           /\ fullRedraw' \in 0..FullFrames /\ stripHot' = stripHot
<1>1. click' = (click /\ ~Ran) /\ stripHot' = stripHot
  BY DEF Begin
<1>2. notice' \in {notice, "none"}
  BY DEF Begin
<1>3. fullRedraw' \in 0..FullFrames
  BY FrameAssumption DEF Begin, Countdown, ScreenTypes
<1> QED
  BY <1>1, <1>2, <1>3 DEF ScreenTypes

LEMMA DamageIs == ASSUME ScreenTypes, NEW age PROVE Damage(age) \subseteq Regions
BY DEF Damage, NewDamage, ScreenTypes

\* A frame that renders, up to its swap.
LEMMA RenderTypes ==
    ASSUME ScreenTypes, NEW age, NEW delta \in BOOLEAN, NEW again \in BOOLEAN,
           Render(age, delta, again)
    PROVE  /\ click' \in BOOLEAN /\ notice' \in {"none", "fresh", "expired"}
           /\ fullRedraw' \in 0..FullFrames /\ stripHot' \in BOOLEAN
           /\ cursor' \in {"named", "surface", "dead"}
           /\ awaited' \in BOOLEAN /\ hostCursor' \in BOOLEAN
           /\ toolbarChanged' \in BOOLEAN /\ covered' \in BOOLEAN
           /\ toolbar' \in {"none", "built", "failed"}
           /\ tracked' \in [Regions -> {"nothing", "old", "current"}]
           /\ frames' \in 0..2 /\ last' \subseteq Regions
<1>1. Begin(delta) /\ Act /\ SetCursor /\ Recorded(Damage(age)) /\ BuildToolbar
      /\ toolbarChanged' = again
  BY DEF Render
<1>2. /\ click' \in BOOLEAN /\ notice' \in {"none", "fresh", "expired"}
      /\ fullRedraw' \in 0..FullFrames /\ stripHot' \in BOOLEAN
  BY <1>1, BeginTypes DEF ScreenTypes
<1>3. cursor' \in {"named", "surface", "dead"} /\ hostCursor' \in BOOLEAN
  BY <1>1 DEF SetCursor, ScreenTypes
<1>4. awaited' \in BOOLEAN /\ toolbar' \in {"none", "built", "failed"}
  BY <1>1 DEF Act, BuildToolbar, ScreenTypes
<1>5. /\ tracked' \in [Regions -> {"nothing", "old", "current"}]
      /\ covered' \in BOOLEAN
  BY <1>1 DEF Recorded, ScreenTypes
<1>6. frames' \in 0..2 /\ last' \subseteq Regions
  BY <1>1 DEF Recorded, NewDamage, ScreenTypes
<1> QED
  BY <1>1, <1>2, <1>3, <1>4, <1>5, <1>6

LEMMA ScreenTypesStep == ASSUME ScreenTypes, [Next]_vars PROVE ScreenTypes'
<1> USE DEF ScreenTypes
<1>1. ASSUME NEW rs \in SUBSET Regions, Changes(rs)
      PROVE  /\ shown' \subseteq Regions /\ lost' \subseteq Regions
             /\ tracked' \in [Regions -> {"nothing", "old", "current"}]
  BY <1>1 DEF Changes
<1>2. CASE Changing
  <2> USE DEF Dirty, humanVars, stateVars, trackVars, outVars, screenVars
  <2>1. CASE Commit
    BY <1>1, <2>1 DEF Commit, Regions
  <2>2. CASE CursorImage
    BY <2>2 DEF CursorImage
  <2>3. CASE ToplevelDestroyed
    BY <1>1, <2>3 DEF ToplevelDestroyed, Regions
  <2>4. ASSUME NEW hot \in BOOLEAN, NEW clicked \in BOOLEAN, Input(hot, clicked)
        PROVE  ScreenTypes'
    <3>1. Changes({"strip"}) \/ Changes({"scene"})
      BY <2>4 DEF Input
    <3>2. /\ shown' \subseteq Regions /\ lost' \subseteq Regions
          /\ tracked' \in [Regions -> {"nothing", "old", "current"}]
      BY <1>1, <3>1 DEF Regions
    <3>3. /\ click' \in BOOLEAN /\ awaited' \in BOOLEAN
          /\ toolbarChanged' \in BOOLEAN /\ stripHot' \in BOOLEAN
          /\ dirty' = TRUE /\ requested' = TRUE
      BY <2>4 DEF Input
    <3>4. UNCHANGED <<notice, cursor, toolbar, fullRedraw, covered, frames, last,
                      banner, hostCursor>>
      BY <2>4 DEF Input
    <3> QED
      BY <3>2, <3>3, <3>4
  <2>5. CASE Resized
    BY <2>5, FrameAssumption DEF Resized
  <2>6. CASE ScanChanged
    <3>1. PICK r \in Regions : Changes({r})
      BY <2>6 DEF ScanChanged
    <3>2. /\ shown' \subseteq Regions /\ lost' \subseteq Regions
          /\ tracked' \in [Regions -> {"nothing", "old", "current"}]
      BY <1>1, <3>1
    <3> QED
      BY <2>6, <3>2 DEF ScanChanged
  <2> QED
    BY <1>2, <2>1, <2>2, <2>3, <2>4, <2>5, <2>6 DEF Changing
<1>3. CASE NoticeExpires \/ Tick \/ UNCHANGED vars
  <2> USE DEF humanVars, stateVars, trackVars, outVars, screenVars
  <2>1. CASE NoticeExpires
    BY <2>1 DEF NoticeExpires
  <2>2. CASE Tick
    BY <2>2 DEF Tick
  <2>3. CASE UNCHANGED vars
    BY <2>3 DEF vars
  <2> QED
    BY <1>3, <2>1, <2>2, <2>3
<1>4. ASSUME NEW delta \in BOOLEAN, RenderFails(delta) PROVE ScreenTypes'
  <2>1. Begin(delta) /\ Act /\ SetCursor /\ Retry
    BY <1>4 DEF RenderFails, ActFirst
  <2>2. /\ click' \in BOOLEAN /\ notice' \in {"none", "fresh", "expired"}
        /\ fullRedraw' \in 0..FullFrames /\ stripHot' = stripHot
    BY <2>1, BeginTypes
  <2>3. /\ cursor' \in {"named", "surface", "dead"} /\ hostCursor' \in BOOLEAN
        /\ awaited' \in BOOLEAN
        /\ dirty' = TRUE /\ toolbarChanged' = TRUE /\ requested' = TRUE
    BY <2>1 DEF SetCursor, Act, Retry
  <2>4. /\ tracked' \in [Regions -> {"nothing", "old", "current"}]
        /\ frames' \in 0..2 /\ last' \subseteq Regions
    BY <1>4 DEF RenderFails
  <2>5. UNCHANGED <<toolbar, covered, shown, lost, banner>>
    BY <1>4 DEF RenderFails, screenVars
  <2> QED
    BY <2>2, <2>3, <2>4, <2>5
<1>5. ASSUME NEW age, NEW delta \in BOOLEAN, NEW again \in BOOLEAN,
             Rendered(age, delta, again)
      PROVE  ScreenTypes'
  <2>1. Render(Age(age), delta, again) /\ Submit(Damage(Age(age)))
    BY <1>5 DEF Rendered
  <2>2. dirty' \in BOOLEAN /\ requested' \in BOOLEAN
    BY <1>5 DEF Rendered
  <2>3. Drawn(Damage(Age(age))) \subseteq Regions
    BY DamageIs DEF Drawn
  <2>4. shown' \subseteq Regions /\ lost' \subseteq Regions /\ banner' \in BOOLEAN
    BY <2>1, <2>3 DEF Submit
  <2> QED
    BY <2>1, <2>2, <2>4, RenderTypes
<1>6. ASSUME NEW age, NEW delta \in BOOLEAN, NEW again \in BOOLEAN,
             SubmitFails(age, delta, again)
      PROVE  ScreenTypes'
  <2>1. /\ Render(Age(age), delta, again) /\ dirty' = TRUE /\ requested' = FALSE
        /\ lost' = lost \union (Drawn(Damage(Age(age))) \ shown)
        /\ UNCHANGED <<shown, banner>>
    BY <1>6 DEF SubmitFails
  <2>2. Drawn(Damage(Age(age))) \subseteq Regions
    BY DamageIs DEF Drawn
  <2>3. lost' \subseteq Regions
    BY <2>1, <2>2
  <2> QED
    BY <2>1, <2>3, RenderTypes
<1> QED
  BY <1>2, <1>3, <1>4, <1>5, <1>6
     DEF Next, Redraw, RedrawWorks, RedrawFails

\* Every variable keeps its type: the countdown of full frames never goes below
\* zero, and no texture update is made up.
THEOREM FrameTypes == Spec => []TypeOK
<1>1. DeltaTypes /\ ScreenTypes => TypeOK
  BY DEF DeltaTypes, ScreenTypes, TypeOK
<1>2. DeltaTypes /\ ScreenTypes /\ [Next]_vars => DeltaTypes' /\ ScreenTypes'
  BY DeltaTypesStep, ScreenTypesStep
<1> QED
  BY <1>1, <1>2, TypesInit, PTL DEF Spec
=============================================================================
