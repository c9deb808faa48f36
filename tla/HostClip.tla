------------------------------ MODULE HostClip ------------------------------
(***************************************************************************)
(* The clipboard bridge: Copy out puts a text of the sandbox on the host's *)
(* clipboard and counts down to take it away again, Paste in fetches the   *)
(* host's text for the sandbox, and the exit of the compositor stops the   *)
(* worker before the display it borrows goes.                              *)
(*                                                                         *)
(* Three parties: the compositor's event loop (clipboard.rs, winit.rs,     *)
(* main.rs), the worker thread with its command channel (hostclip.rs), and *)
(* the host, which talks to the worker over two ordered streams.  Its      *)
(* answers are awaited without a bound, so it may hang the worker.         *)
(* A text is named by the Copy out it came from.                           *)
(***************************************************************************)
EXTENDS Integers, Sequences, FiniteSets

CONSTANTS
    MaxCopies,     \* bound: how often the human copies out
    MaxQueue,      \* bound: how many commands the human piles up unhandled
    MaxPullers,    \* MAX_CLIP_THREADS: threads draining an app's selection
    Primary,       \* the host's device has the primary selection
    Faults         \* what the host may do: hang, be lost, have no protocol

ASSUME HostClipAssumption ==
    /\ {MaxCopies, MaxQueue, MaxPullers} \subseteq Nat
    /\ Primary \in BOOLEAN
    /\ Faults \subseteq {"hung", "lost", "bare"}

None == 0
Foreign == -1
Copies == 1..MaxCopies

VARIABLES
    \* the event loop
    main,        \* run, pasting (blocked in load), clearing (in
                 \* clear_on_exit), winding (in wait_stopped), dropped, abandoned
    clip,        \* clip_source: none, or a text pasted in for the volumes that
                 \* are open, or for earlier ones: none, this, earlier
    volumes,     \* none, open, or closed since the last scan
    published,   \* the clear policy in the published file
    applied,     \* clip_clear_applied
    pullers,     \* the Copy outs whose drain thread has not finished
    \* the worker
    pc,          \* loop, loading, reading, planning, flushing, acked, stopped
    cmds,        \* its channel
    source,      \* the selection source it owns, by Copy out
    owns,        \* owns_clip
    serve,       \* the text it serves
    pushed,      \* the text last pushed and not yet cleared
    wiping,      \* clear_pushed: the text being cleared
    enabled,     \* clear_enabled
    armed,       \* a deadline is set
    exiting,     \* the clear under way answers ClearOnExit
    asked,       \* the Load under way still has somebody waiting for it
    \* the host
    host,        \* up, hung, lost
    sel,         \* what its clipboard holds
    prim,        \* the text of ours its primary selection holds, or None
    readback,    \* the primary selection as last read back
    toHost,      \* requests under way
    fromHost,    \* Cancelled events under way
    copies       \* how often the human copied out (bounded by MaxCopies)

loopVars == <<main, clip, volumes, published, applied, pullers>>
workVars == <<pc, source, owns, serve, pushed, wiping, enabled, armed, exiting,
              asked>>
hostVars == <<host, sel, prim>>
wireVars == <<toHost, fromHost, readback>>
vars == <<loopVars, workVars, cmds, hostVars, wireVars, copies>>

Cmd(op, arg) == [op |-> op, arg |-> arg]

\* DEFAULT_CLEAR_POLICY is on, and the event loop starts from the same value.
\* A host without the protocol ends the worker at once.
Init ==
    /\ main = "run" /\ clip = "none" /\ volumes = "none"
    /\ published = TRUE /\ applied = TRUE /\ pullers = {}
    /\ pc \in {"loop"} \union (IF "bare" \in Faults THEN {"stopped"} ELSE {})
    /\ cmds = <<>>
    /\ source = None /\ owns = FALSE /\ serve = None /\ pushed = None
    /\ wiping = None /\ enabled = TRUE /\ armed = FALSE /\ exiting = FALSE
    /\ asked = FALSE
    /\ host = "up" /\ sel = None /\ prim = None
    /\ toHost = <<>> /\ fromHost = <<>> /\ readback = None
    /\ copies = 0

-----------------------------------------------------------------------------
(* The event loop.  The human's input reaches it through the host.         *)

\* The process, and with it the worker's thread, is still there.
Alive == main \notin {"dropped", "abandoned"}

\* The event loop has not ended.
Running == main \in {"run", "pasting"}

\* HostClipboard::store, load, set_policy, clear_on_exit: a line in the
\* channel, which is closed once the worker has returned.
Send(cmd) == cmds' = IF pc = "stopped" THEN cmds ELSE Append(cmds, cmd)

\* Mutant of Room: the cap is off by one.
RoomForOneMore == Cardinality(pullers) <= MaxPullers

\* Another drain thread may start.
Room == Cardinality(pullers) < MaxPullers

\* pull_to_host while an app owns the sandbox's selection: a thread drains it.
\* Over the cap nothing happens.
CopyOutApp ==
    /\ main = "run" /\ host = "up" /\ volumes = "open" /\ copies < MaxCopies
    /\ copies' = copies + 1
    /\ pullers' = IF Room THEN pullers \union {copies'} ELSE pullers
    /\ UNCHANGED <<main, clip, volumes, published, applied, workVars,
                   cmds, hostVars, wireVars>>

\* pull_to_host while the compositor itself serves a pasted text.
CopyOutOwn ==
    /\ main = "run" /\ host = "up" /\ clip # "none" /\ copies < MaxCopies
    /\ copies' = copies + 1
    /\ Send(Cmd("store", copies'))
    /\ UNCHANGED <<loopVars, workVars, hostVars, wireVars>>

\* A drain thread ends with the app's text, or with nothing it can store.
PullerEnds(c) ==
    /\ Alive /\ c \in pullers
    /\ pullers' = pullers \ {c}
    /\ Send(Cmd("store", c)) \/ UNCHANGED cmds
    /\ UNCHANGED <<main, clip, volumes, published, applied, workVars,
                   hostVars, wireVars, copies>>

\* push_from_host: the loop waits for the worker's answer, at most a second.
PasteIn ==
    /\ main = "run" /\ host = "up" /\ pc # "stopped" /\ Len(cmds) < MaxQueue
    /\ main' = "pasting"
    /\ Send(Cmd("load", 1))
    /\ UNCHANGED <<clip, volumes, published, applied, pullers, workVars,
                   hostVars, wireVars, copies>>

\* The receiver is dropped: a late answer reaches nobody.
PasteTimesOut ==
    /\ main = "pasting"
    /\ main' = "run"
    /\ asked' = FALSE
    /\ cmds' = [i \in DOMAIN cmds |->
                   IF cmds[i].op = "load" THEN Cmd("load", 0) ELSE cmds[i]]
    /\ UNCHANGED <<clip, volumes, published, applied, pullers, pc, source,
                   owns, serve, pushed, wiping, enabled, armed, exiting,
                   hostVars, wireVars, copies>>

\* Mutant of Forget: a pasted text stays until the next Paste in.
ForgetNothing == clip

\* clear_sandbox_selection, when the scan sees the last volume gone.
Forget == IF volumes = "closed" THEN "none" ELSE clip

\* The part of run_discovery_scan about volumes and the clear policy.
Scan ==
    /\ main = "run" /\ Len(cmds) < MaxQueue
    /\ volumes' = IF volumes = "closed" THEN "none" ELSE volumes
    /\ clip' = Forget
    /\ applied' = published
    /\ IF published # applied
       THEN Send(Cmd("policy", IF published THEN 1 ELSE 0))
       ELSE UNCHANGED cmds
    /\ UNCHANGED <<main, published, pullers, workVars, hostVars,
                   wireVars, copies>>

\* Volumes come and go.  An open takes longer than a scan interval, and so does
\* a human with an open volume: the scan sees that a volume is there, and it
\* sees the last one gone before the next one is there.
OpenVolume ==
    /\ Running /\ volumes = "none"
    /\ volumes' = "open"
    /\ UNCHANGED <<main, clip, published, applied, pullers, workVars,
                   cmds, hostVars, wireVars, copies>>

CloseVolumes ==
    /\ Running /\ volumes = "open"
    /\ volumes' = "closed"
    /\ clip' = IF clip = "this" THEN "earlier" ELSE clip
    /\ UNCHANGED <<main, published, applied, pullers, workVars, cmds,
                   hostVars, wireVars, copies>>

\* The human changes the policy, at most once between two scans.
SetPolicy ==
    /\ Running /\ published = applied
    /\ published' = ~published
    /\ UNCHANGED <<main, clip, volumes, applied, pullers, workVars, cmds,
                   hostVars, wireVars, copies>>

\* The event loop has ended: clear_on_exit asks for the clear and waits.  What
\* the loop kept is not read again.
Exit ==
    /\ main = "run"
    /\ main' = "clearing"
    /\ Send(Cmd("exit", 0))
    /\ clip' = "none" /\ volumes' = "none"
    /\ published' = TRUE /\ applied' = TRUE
    /\ UNCHANGED <<pullers, workVars, hostVars, wireVars, copies>>

\* The answer came, or the channel closed, or EXIT_CLEAR_WAIT_MS passed.
ClearWaitEnds ==
    /\ main = "clearing"
    /\ main' = "winding"
    /\ UNCHANGED <<clip, volumes, published, applied, pullers, workVars,
                   cmds, hostVars, wireVars, copies>>

\* Mutant of Stopped: the worker's answer is taken for its end.
StoppedOrAcked == pc \in {"acked", "stopped"}

\* The flag that the worker's guard sets when its thread ends.
Stopped == pc = "stopped"

\* wait_stopped succeeds: the worker is joined, the winit backend dropped.
JoinAndDrop ==
    /\ main = "winding" /\ Stopped
    /\ main' = "dropped"
    /\ UNCHANGED <<clip, volumes, published, applied, pullers, workVars,
                   cmds, hostVars, wireVars, copies>>

\* Mutant of Abandon: the worker is joined however long it takes.
AbandonNever == FALSE /\ UNCHANGED vars

\* WORKER_STOP_WAIT passes: process::exit, and no destructor runs.  Threads,
\* channel and connection go with the process; nothing is modelled after it.
Abandon ==
    /\ main = "winding"
    /\ main' = "abandoned"
    /\ pullers' = {} /\ cmds' = <<>> /\ toHost' = <<>> /\ fromHost' = <<>>
    /\ readback' = None /\ pc' = "stopped" /\ asked' = FALSE
    /\ source' = None /\ owns' = FALSE /\ serve' = None /\ pushed' = None
    /\ wiping' = None /\ armed' = FALSE /\ exiting' = FALSE
    /\ UNCHANGED <<clip, volumes, published, applied, enabled, hostVars,
                   copies>>

-----------------------------------------------------------------------------
(* The worker.                                                             *)

\* Cmd::Store: a new source replaces the old one, and the countdown restarts.
HandleStore(c) ==
    /\ toHost' = Append(toHost, Cmd("set", c))
    /\ source' = c /\ owns' = TRUE /\ serve' = c /\ pushed' = c
    /\ armed' = enabled
    /\ UNCHANGED <<pc, wiping, enabled, exiting, clip, main>>

\* Cmd::Policy: off cancels the countdown, on starts it for a text of ours
\* that is still out there.
HandlePolicy(on) ==
    /\ enabled' = on
    /\ armed' = (on /\ (armed \/ (owns /\ pushed # None)))
    /\ UNCHANGED <<pc, source, owns, serve, pushed, wiping, exiting, toHost,
                   clip, main>>

\* Cmd::Load: read_selection makes a round trip first.  With no offer from the host
\* it returns at once; here that is a round trip too, one that yields nothing.
HandleLoad ==
    /\ pc' = "loading"
    /\ UNCHANGED <<source, owns, serve, pushed, wiping, enabled, armed, exiting,
                   toHost, clip, main>>

\* The beginning of clear_pushed, up to its first wait for the host.
ClearPushed(atExit) ==
    /\ armed' = FALSE
    /\ exiting' = atExit
    /\ wiping' = pushed /\ pushed' = None
    /\ serve' = IF pushed = None THEN serve ELSE None
    /\ pc' = IF pushed = None THEN (IF atExit THEN "acked" ELSE "loop")
             ELSE IF Primary THEN "reading" ELSE "planning"
    /\ UNCHANGED <<source, owns, enabled, toHost, clip, main>>

\* One command of the channel, handle_cmd.
HandleCmd ==
    /\ Alive /\ pc = "loop" /\ cmds # <<>>
    /\ cmds' = Tail(cmds)
    /\ LET cmd == Head(cmds) IN
          \/ cmd.op = "store" /\ HandleStore(cmd.arg)
          \/ cmd.op = "policy" /\ HandlePolicy(cmd.arg = 1)
          \/ cmd.op = "load" /\ HandleLoad
          \/ cmd.op = "exit" /\ ClearPushed(TRUE)
    /\ asked' = (Head(cmds).op = "load" /\ Head(cmds).arg = 1)
    /\ UNCHANGED <<volumes, published, applied, pullers, hostVars,
                   fromHost, readback, copies>>

\* The countdown has elapsed; the channel is drained before it is looked at.
DeadlineFires ==
    /\ Alive /\ pc = "loop" /\ cmds = <<>> /\ armed
    /\ ClearPushed(FALSE)
    /\ UNCHANGED <<asked, volumes, published, applied, pullers, cmds, hostVars,
                   fromHost, readback, copies>>

\* A round trip returns: all requests were seen and all events dispatched, or
\* the connection is gone.
RoundTrip == host = "lost" \/ (host = "up" /\ toHost = <<>> /\ fromHost = <<>>)

\* The answer to a Load: taken by the caller that still waits for this one.
\* The text may be missing or no UTF-8.
ReplyLoad ==
    /\ Alive /\ pc = "loading" /\ RoundTrip
    /\ pc' = "loop"
    /\ IF asked
       THEN main' = "run" /\ clip' \in {clip, "this"}
       ELSE UNCHANGED <<main, clip>>
    /\ asked' = FALSE
    /\ UNCHANGED <<volumes, published, applied, pullers, source, owns,
                   serve, pushed, wiping, enabled, armed, exiting, cmds,
                   hostVars, wireVars, copies>>

\* read_selection of the primary selection has its round trip behind it.
ReadPrimary ==
    /\ Alive /\ pc = "reading" /\ RoundTrip
    /\ pc' = "planning"
    /\ readback' = IF host = "lost" THEN None ELSE prim
    /\ UNCHANGED <<loopVars, source, owns, serve, pushed, wiping, enabled,
                   armed, exiting, asked, cmds, hostVars, toHost, fromHost, copies>>

\* Mutant of PlanClear: the clipboard is left alone as the primary would be.
PlanClearPrimaryOnly ==
    <<FALSE, Primary /\ readback = wiping>>

\* plan_clear: the clipboard while it is ours, the primary selection while it
\* reads back as the text we pushed.
PlanClear == <<owns, Primary /\ readback = wiping>>

\* The rest of clear_pushed, up to the round trip at its end.
CarryOut ==
    /\ Alive /\ pc = "planning"
    /\ pc' = "flushing"
    /\ toHost' = toHost
                 \o (IF PlanClear[1] THEN <<Cmd("unset", 0)>> ELSE <<>>)
                 \o (IF PlanClear[2] THEN <<Cmd("unsetPrimary", 0)>> ELSE <<>>)
    /\ source' = IF PlanClear[1] THEN None ELSE source
    /\ owns' = (owns /\ ~PlanClear[1])
    /\ wiping' = None
    /\ readback' = None
    /\ UNCHANGED <<loopVars, serve, pushed, enabled, armed, exiting, asked,
                   cmds, hostVars, fromHost, copies>>

Flushed ==
    /\ Alive /\ pc = "flushing" /\ RoundTrip
    /\ pc' = IF exiting THEN "acked" ELSE "loop"
    /\ UNCHANGED <<loopVars, source, owns, serve, pushed, wiping, enabled,
                   armed, exiting, asked, cmds, hostVars, wireVars, copies>>

\* The worker returns: after the clear of an exit, or from its loop when the
\* connection is lost.  Its end of the channel goes with it.
Return ==
    /\ Alive
    /\ pc = "acked" \/ (pc = "loop" /\ host = "lost")
    /\ pc' = "stopped"
    /\ cmds' = <<>>
    /\ UNCHANGED <<loopVars, source, owns, serve, pushed, wiping, enabled,
                   armed, exiting, asked, hostVars, wireVars, copies>>

\* Mutant of Disowned: any Cancelled is taken for the current source's.
DisownedByAny(c) == TRUE

\* Only the current source's Cancelled says the host replaced our text.
Disowned(c) == source = c

\* A Cancelled event is dispatched, in the loop or during a round trip.
Dispatch ==
    /\ Alive /\ fromHost # <<>>
    /\ pc \in {"loop", "loading", "reading", "flushing"}
    /\ fromHost' = Tail(fromHost)
    /\ LET gone == Disowned(Head(fromHost)) IN
          /\ source' = IF gone THEN None ELSE source
          /\ owns' = (owns /\ ~gone)
    /\ UNCHANGED <<loopVars, pc, serve, pushed, wiping, enabled, armed, exiting,
                   asked, cmds, hostVars, toHost, readback, copies>>

-----------------------------------------------------------------------------
(* The host.                                                               *)

\* The clipboard changes hands, and the source that held it is told.
SelBecomes(what) ==
    /\ sel' = what
    /\ fromHost' = IF sel \in Copies THEN Append(fromHost, sel) ELSE fromHost

\* The host carries out the next request.
HostApplies ==
    /\ Alive /\ host = "up" /\ toHost # <<>>
    /\ toHost' = Tail(toHost)
    /\ LET req == Head(toHost) IN
          \/ req.op = "set" /\ SelBecomes(req.arg) /\ UNCHANGED prim
          \/ req.op = "unset" /\ SelBecomes(None) /\ UNCHANGED prim
          \/ req.op = "unsetPrimary" /\ prim' = None /\ UNCHANGED <<sel, fromHost>>
    /\ UNCHANGED <<loopVars, workVars, cmds, host, readback, copies>>

\* The human copies something else on the host.
HostCopies ==
    /\ Alive /\ host = "up"
    /\ SelBecomes(Foreign)
    /\ UNCHANGED <<loopVars, workVars, cmds, host, prim, toHost, readback,
                   copies>>

\* The human selects a text on the host: one pasted from the clipboard, or some
\* other text.
HostSelects ==
    /\ Alive /\ host = "up"
    /\ prim' \in {None} \union ({sel} \ {Foreign})
    /\ UNCHANGED <<loopVars, workVars, cmds, host, sel, wireVars, copies>>

\* It stops answering, which only who waits for it can notice, or it is gone.
HostFails ==
    /\ Alive /\ host = "up"
    /\ \/ host' = "hung" /\ pc \in {"loading", "reading", "flushing"}
       \/ host' = "lost" /\ pc \in {"loop", "loading", "reading", "flushing"}
    /\ host' \in Faults
    /\ UNCHANGED <<loopVars, workVars, cmds, sel, prim, wireVars, copies>>

-----------------------------------------------------------------------------
Human ==
    \/ CopyOutApp \/ CopyOutOwn \/ PasteIn \/ OpenVolume \/ CloseVolumes
    \/ SetPolicy \/ Exit

Loop ==
    \/ PasteTimesOut \/ Scan \/ ClearWaitEnds \/ JoinAndDrop \/ Abandon
    \/ \E c \in Copies : PullerEnds(c)

Worker ==
    \/ HandleCmd \/ DeadlineFires \/ ReplyLoad \/ ReadPrimary \/ CarryOut
    \/ Flushed \/ Return \/ Dispatch

Host == HostApplies \/ HostCopies \/ HostSelects \/ HostFails

Next == Human \/ Loop \/ Worker \/ Host

Spec == Init /\ [][Next]_vars

\* Bounded waits end, the loop scans on a timer, the worker's thread and a host
\* that answers are scheduled.  Nobody has to copy, and the host may hang.  The
\* deadline is looked at whenever the channel has been drained.
Fairness ==
    /\ WF_vars(PasteTimesOut) /\ WF_vars(Scan) /\ WF_vars(ClearWaitEnds)
    /\ WF_vars(JoinAndDrop) /\ WF_vars(Abandon)
    /\ WF_vars(Worker) /\ SF_vars(DeadlineFires) /\ WF_vars(HostApplies)

FairSpec == Spec /\ Fairness

-----------------------------------------------------------------------------
\* Every variable keeps its type.
TypeOK ==
    /\ main \in {"run", "pasting", "clearing", "winding", "dropped", "abandoned"}
    /\ clip \in {"none", "this", "earlier"}
    /\ volumes \in {"none", "open", "closed"}
    /\ {published, applied} \subseteq BOOLEAN
    /\ {owns, enabled, armed, exiting, asked} \subseteq BOOLEAN
    /\ pullers \subseteq Copies /\ Cardinality(pullers) <= MaxPullers
    /\ pc \in {"loop", "loading", "reading", "planning", "flushing", "acked",
               "stopped"}
    /\ {source, serve, pushed, wiping} \subseteq Copies \union {None}
    /\ host \in {"up", "hung", "lost"}
    /\ sel \in Copies \union {None, Foreign} /\ prim \in Copies \union {None}
    /\ \A i \in DOMAIN cmds : cmds[i].op \in {"store", "load", "policy", "exit"}
    /\ \A i \in DOMAIN toHost : toHost[i].op \in {"set", "unset", "unsetPrimary"}
    /\ \A i \in DOMAIN fromHost : fromHost[i] \in Copies

\* A request that changes the host's clipboard is on its way.
Changing == \E i \in DOMAIN toHost : toHost[i].op \in {"set", "unset"}

\* A text of the sandbox on the host's clipboard is always being counted down,
\* unless the human has turned that off: through replacements on either side,
\* late Cancelled events and policy changes, no text is ever forgotten there.
CountsDown ==
    sel \in Copies /\ pc # "stopped" /\ ~Changing =>
        armed \/ ~enabled \/ (pc \in {"reading", "planning"} /\ owns)

\* The display is freed only after the worker's thread has ended, and then no
\* text of the sandbox is left on the host or in the worker: the clear is out
\* before the last roundtrip, whatever was still queued behind it.
ExitIsClean ==
    main = "dropped" =>
        /\ pc = "stopped"
        /\ host # "lost" => pushed = None /\ (sel \in Copies => Changing)

\* A text pasted in for one session's volumes is not served to the next one's.
NoCarryOver == volumes = "open" => clip # "earlier"

\* The worker has emptied its channel.
Drained == pc = "loop" /\ cmds = <<>>

\* A text copied out leaves the host's clipboard in the end, as long as the
\* policy is on, the host answers and Veracage runs.  The human must not press
\* Paste in faster than the worker answers, for ever: its channel goes first.
CopyCleared ==
    []<>(Drained \/ host # "up" \/ ~Running) =>
        \A c \in Copies :
            sel = c ~> sel # c \/ ~enabled \/ host # "up" \/ ~Running

\* The exit comes to an end, also with a host that never answers again.
ExitEnds == main = "clearing" ~> main \in {"dropped", "abandoned"}
=============================================================================
