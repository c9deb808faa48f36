-------------------------------- MODULE Quit --------------------------------
(***************************************************************************)
(* Quitting Veracage: the window goes away only when nothing is decrypted  *)
(* any more, and the session ends when the window is gone.                 *)
(*                                                                         *)
(* The compositor (winit.rs, toolbar.rs) knows the session by what it can  *)
(* read in two directories: the `.apps` file and socket its leader         *)
(* publishes, and the session lock of the root helper.  The leader         *)
(* (leader.py) knows the compositor by its pidfile and its socket.  Each   *)
(* polls the other, and either may be killed.  One session at a time is    *)
(* modelled, reopened up to MaxOpens times; Session shows that there are   *)
(* never two, and how the teardown closes the devices.                     *)
(***************************************************************************)
EXTENDS Naturals

CONSTANTS
    MaxOpens,      \* bound: how many sessions are started in all
    CrashPhases,   \* the phases of the session in which the compositor may
                   \* end without removing its socket: a crash, or an exit
                   \* that abandons a busy clipboard worker
    SignalPhases   \* those in which SIGTERM or SIGINT may end its event loop

LeaderPhase == {"absent", "asked", "opening", "opened", "up", "seen", "ending",
                "dead"}

ASSUME QuitAssumption ==
    /\ MaxOpens \in Nat
    /\ CrashPhases \subseteq LeaderPhase
    /\ SignalPhases \subseteq LeaderPhase

VARIABLES
    comp,        \* the compositor: run, asking, dismounting; closed by its own
                 \* decision, or killed
    socket,      \* the compositor's Wayland socket file is there
    window,      \* some app window is on screen
    listed,      \* state.leaders: the last scan found a session
    verdict,     \* dead_leaders: the last probe found its socket dead
    leader,      \* how far the session has got
    closeVerb,   \* a close line waits on the leader's app socket
    file,        \* the .apps file: none, empty, or listing volumes
    lock,        \* the session lock is there
    open,        \* a device is decrypted
    opens        \* how many sessions were started (bounded by MaxOpens)

compVars    == <<comp, socket, listed, verdict>>
sessionVars == <<leader, closeVerb, file, lock, open, opens>>
vars == <<compVars, window, sessionVars>>

\* compositor_is_up, as the leader sees it.
Up == comp \in {"run", "asking", "dismounting"}
CompUp == Up /\ socket

\* The leader listens on its app socket.
Serving == leader \in {"up", "seen"}
Listening == leader \in {"up", "seen", "ending"}

\* leader_socket_dead: an .apps file with nobody behind its socket.
SocketDead == file # "none" /\ ~Listening

Init ==
    /\ comp = "run"
    /\ socket = TRUE
    /\ window = FALSE
    /\ listed = FALSE
    /\ verdict = FALSE
    /\ leader = "absent"
    /\ closeVerb = FALSE
    /\ file = "none"
    /\ lock = FALSE
    /\ open = FALSE
    /\ opens = 0

-----------------------------------------------------------------------------
(* The compositor.                                                         *)

\* A clean end of the event loop removes the socket; nothing else is kept.
Exit ==
    /\ comp' = "closed"
    /\ socket' = FALSE
    /\ window' = FALSE

\* Mutant of NothingLeft: the menu's list of sessions decides, not the lock.
NothingListed == ~listed

\* begin_quit: no session in the last scan and no lock on disk.  A directory that
\* cannot be read counts as no lock; here it can always be read.
NothingLeft == ~listed /\ ~lock

\* Quit in the menu, or the window's close button: gone at once when there is
\* nothing to close, else the apps are asked (again).
BeginQuit ==
    /\ comp = "run"
    /\ IF NothingLeft
       THEN Exit
       ELSE comp' = "asking" /\ UNCHANGED <<socket, window>>
    /\ UNCHANGED <<listed, verdict, sessionVars>>

\* close_session for the session the scan found: the line reaches a leader
\* that listens, and is lost on a dead socket.
SendClose(found) == closeVerb' = (closeVerb \/ (found /\ Serving))

\* Mutant of Resend: the sessions are told once, when the dismount starts.
ResendNothing(found) == UNCHANGED closeVerb

\* Every scan of a dismounting compositor tells the sessions again.
Resend(found) == SendClose(found)

\* The volumes are closed: none listed, and the lock unlinked.
Closed(found) == ~(found /\ file = "volumes") /\ ~lock

\* run_discovery_scan, whose probe verdict is `dead`.
ScanWith(dead) ==
    LET found == file # "none" /\ ~dead IN
    /\ listed' = found
    /\ verdict' = dead
    /\ \/ /\ comp = "run" \/ (comp = "asking" /\ window)
          /\ UNCHANGED <<comp, socket, window, closeVerb>>
       \/ /\ comp = "asking" /\ ~window
          /\ comp' = "dismounting"
          /\ SendClose(found)
          /\ UNCHANGED <<socket, window>>
       \/ /\ comp = "dismounting" /\ Closed(found)
          /\ Exit
          /\ UNCHANGED closeVerb
       \/ /\ comp = "dismounting" /\ ~Closed(found)
          /\ Resend(found)
          /\ UNCHANGED <<comp, socket, window>>
    /\ UNCHANGED <<leader, file, lock, open, opens>>

\* A scan between two probes goes by the remembered verdict.
Scan == ScanWith(file # "none" /\ verdict)

\* Once a second the scan probes the socket again.
ScanProbing == ScanWith(SocketDead)

\* A crash, or process::exit with the clipboard worker still busy.
Crash ==
    /\ Up
    /\ leader \in CrashPhases
    /\ comp' = "killed"
    /\ window' = FALSE
    /\ UNCHANGED <<socket, listed, verdict, sessionVars>>

\* SIGTERM or SIGINT stops the event loop, whatever is open.
Signalled ==
    /\ Up
    /\ leader \in SignalPhases
    /\ comp' = "killed"
    /\ socket' = FALSE
    /\ window' = FALSE
    /\ UNCHANGED <<listed, verdict, sessionVars>>

\* ensure_compositor_up: the helper clears a stale socket and execs a new one.
CompStarts ==
    /\ ~Up
    /\ opens < MaxOpens
    /\ comp' = "run"
    /\ socket' = TRUE
    /\ listed' = FALSE
    /\ verdict' = FALSE
    /\ UNCHANGED <<window, sessionVars>>

\* Apps come and go, and with them their windows: only in a live session.
WindowChanges ==
    /\ Up
    /\ window \/ Serving
    /\ window' = ~window
    /\ UNCHANGED <<compVars, sessionVars>>

-----------------------------------------------------------------------------
(* The session: the root helper up to the exec, then the leader.           *)

\* `veracage open`: the compositor is up, the human is at the polkit prompt.
OpenAsked ==
    /\ leader = "absent" /\ CompUp
    /\ opens < MaxOpens
    /\ leader' = "asked"
    /\ opens' = opens + 1
    /\ UNCHANGED <<compVars, window, closeVerb, file, lock, open>>

OpenDeclined ==
    /\ leader = "asked"
    /\ leader' = "absent"
    /\ UNCHANGED <<compVars, window, closeVerb, file, lock, open, opens>>

\* The helper writes the session lock before it opens anything.
LockCreated ==
    /\ leader = "asked"
    /\ leader' = "opening"
    /\ lock' = TRUE
    /\ UNCHANGED <<compVars, window, closeVerb, file, open, opens>>

\* The container is decrypted and mounted; an empty session has none.
Opened ==
    /\ leader = "opening"
    /\ leader' = "opened"
    /\ open' \in BOOLEAN
    /\ UNCHANGED <<compVars, window, closeVerb, file, lock, opens>>

\* The wrong passphrase, a dirty filesystem, no leader to exec.
OpenFails ==
    /\ leader \in {"opening", "opened"}
    /\ leader' = "dead"
    /\ UNCHANGED <<compVars, window, closeVerb, file, lock, open, opens>>

\* Mutant of LeaderStarts: the leader does not look for the compositor.
LeaderStartsBlind ==
    /\ leader = "opened"
    /\ leader' = "up"
    /\ file' = IF open THEN "volumes" ELSE "empty"
    /\ closeVerb' = FALSE
    /\ UNCHANGED <<compVars, window, lock, open, opens>>

\* run_leader: without a compositor socket it ends at once; else it publishes.
LeaderStarts ==
    /\ leader = "opened"
    /\ IF socket
       THEN /\ leader' = "up"
            /\ file' = IF open THEN "volumes" ELSE "empty"
            /\ closeVerb' = FALSE
       ELSE leader' = "dead" /\ UNCHANGED <<file, closeVerb>>
    /\ UNCHANGED <<compVars, window, lock, open, opens>>

\* comp_seen: the serve loop has seen the compositor up once.
LeaderSees ==
    /\ leader = "up"
    /\ CompUp
    /\ leader' = "seen"
    /\ UNCHANGED <<compVars, window, closeVerb, file, lock, open, opens>>

\* The serve loop ends: the compositor is gone after it was seen.
LeaderNotices ==
    /\ leader = "seen"
    /\ ~CompUp
    /\ leader' = "ending"
    /\ UNCHANGED <<compVars, window, closeVerb, file, lock, open, opens>>

\* The serve loop ends: the close verb was read, or SIGTERM arrived.
HandleClose ==
    /\ Serving
    /\ closeVerb
    /\ leader' = "ending"
    /\ UNCHANGED <<compVars, window, closeVerb, file, lock, open, opens>>

Terminated ==
    /\ Serving
    /\ leader' = "ending"
    /\ UNCHANGED <<compVars, window, closeVerb, file, lock, open, opens>>

\* The apps are stopped, the file and the socket unlinked, the leader exits.
LeaderEnds ==
    /\ leader = "ending"
    /\ leader' = "dead"
    /\ window' = FALSE
    /\ file' = "none"
    /\ closeVerb' = FALSE
    /\ UNCHANGED <<compVars, lock, open, opens>>

\* SIGKILL (the suspend hook's force path): the .apps file stays behind.
LeaderKilled ==
    /\ Listening
    /\ leader' = "dead"
    /\ window' = FALSE
    /\ closeVerb' = FALSE
    /\ UNCHANGED <<compVars, file, lock, open, opens>>

\* A volume joins the live session, or the last one is dismounted.
VolumesChange ==
    /\ Serving
    /\ open' = ~open
    /\ UNCHANGED <<compVars, window, leader, closeVerb, file, lock, opens>>

\* Mutant of Republish: an empty listing is written as a blank line.
RepublishBlank ==
    /\ Serving
    /\ file # (IF open THEN "volumes" ELSE "empty")
    /\ file' = IF open THEN "volumes" ELSE "blank"
    /\ UNCHANGED <<compVars, window, leader, closeVerb, lock, open, opens>>

\* The leader rewrites its file on a later turn of its loop.
Republish ==
    /\ Serving
    /\ file # (IF open THEN "volumes" ELSE "empty")
    /\ file' = IF open THEN "volumes" ELSE "empty"
    /\ UNCHANGED <<compVars, window, leader, closeVerb, lock, open, opens>>

\* The teardown closes the devices and then removes the lock.
TeardownCloses ==
    /\ leader = "dead" /\ open
    /\ open' = FALSE
    /\ UNCHANGED <<compVars, window, leader, closeVerb, file, lock, opens>>

TeardownUnlocks ==
    /\ leader = "dead" /\ ~open
    /\ lock' = FALSE
    /\ leader' = "absent"
    /\ UNCHANGED <<compVars, window, closeVerb, file, open, opens>>

-----------------------------------------------------------------------------
CompStep ==
    BeginQuit \/ Scan \/ ScanProbing \/ Crash \/ Signalled \/ CompStarts

\* What the session does by itself.
SessionStep ==
    \/ Opened \/ LeaderStarts \/ LeaderSees \/ LeaderNotices \/ HandleClose
    \/ LeaderEnds \/ Republish \/ TeardownCloses \/ TeardownUnlocks

\* What happens to it.
SessionEvent ==
    \/ OpenAsked \/ OpenDeclined \/ LockCreated \/ OpenFails
    \/ Terminated \/ LeaderKilled \/ VolumesChange

Next == CompStep \/ SessionStep \/ SessionEvent \/ WindowChanges

Spec == Init /\ [][Next]_vars

\* The compositor scans and probes on timers, the leader's loop turns, the
\* helper and the teardown run.  The human need not answer, quit or open.
\* The volume set changes finitely often while a leader is to be ended, so
\* each step of the session that stays enabled is taken.
Fairness ==
    /\ WF_vars(Scan) /\ WF_vars(ScanProbing)
    /\ WF_vars(Opened) /\ WF_vars(LeaderStarts)
    /\ WF_vars(LeaderSees) /\ WF_vars(LeaderNotices)
    /\ WF_vars(HandleClose) /\ WF_vars(LeaderEnds)
    /\ WF_vars(TeardownCloses) /\ WF_vars(TeardownUnlocks)

FairSpec == Spec /\ Fairness

-----------------------------------------------------------------------------
\* Every variable keeps its type.
TypeOK ==
    /\ comp \in {"run", "asking", "dismounting", "closed", "killed"}
    /\ socket \in BOOLEAN
    /\ window \in BOOLEAN
    /\ listed \in BOOLEAN
    /\ verdict \in BOOLEAN
    /\ leader \in LeaderPhase
    /\ closeVerb \in BOOLEAN
    /\ file \in {"none", "empty", "volumes"}
    /\ lock \in BOOLEAN
    /\ open \in BOOLEAN
    /\ opens \in 0..MaxOpens

\* Veracage never takes its window away while a volume is decrypted or being
\* unlocked: neither a stale list of sessions, nor a stale verdict on a leader's
\* socket, nor an open in flight lets it go early.
NeverVanishes ==
    [][comp # "closed" /\ comp' = "closed" =>
          ~open /\ leader \in {"absent", "asked"}]_vars

\* The teardown of a quit ends and the window goes, also when an open was still
\* in flight, a leader was killed or a late leader never heard the first close.
QuitEnds == comp = "dismounting" ~> ~Up

\* A session never outlives the window: however the compositor went, unless it
\* is started again, nothing stays decrypted behind the human's back.
SessionFollowsWindow == ~Up ~> Up \/ (~open /\ ~lock)
=============================================================================
