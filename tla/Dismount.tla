------------------------------ MODULE Dismount ------------------------------
(***************************************************************************)
(* The dismount conversation: how one `veracage close-volume` gets past    *)
(* the apps that hold its volume without a second authentication.          *)
(*                                                                         *)
(* Four processes take part.  The broker (agent-rs/src/broker.rs) runs the *)
(* attempt, asks the human and relays the answer.  The root helper         *)
(* (run_close_volume) holds the session flock, reports the holders on its  *)
(* stdout and parks on its stdin.  The compositor (winit.rs) asks the      *)
(* app windows to close.  The session leader (leader.py) stops what is     *)
(* left and stamps closeapps.done.  They share two files, whose timestamps *)
(* are the messages: the broker's closeapps and the leader's               *)
(* closeapps.done.  An attempt runs in one session, with its volumes       *)
(* already mounted; how sessions come and go is Session's subject.         *)
(***************************************************************************)
EXTENDS Naturals, FiniteSets

CONSTANTS
    Attempt,   \* the dismounts the human asks for, each at most once
    Volume,    \* the volumes of the session
    App,       \* the sandboxed apps, each launched at most once
    None       \* no volume, no stamp

ASSUME DismountAssumption ==
    /\ IsFiniteSet(Attempt)
    /\ None \notin Volume
    /\ None \notin Nat

VARIABLES
    volume,    \* each volume: mounted, detached (decrypted, no mount), closed
    leader,    \* the session leader: up or dead
    app,       \* the phase of each app
    bound,     \* the volumes each app's own namespace binds
    comp,      \* the compositor: run, quitting, gone
    request,   \* a closeapps request the compositor has not seen
    clearing,  \* the compositor's clearing_apps latch
    pokes,     \* the close-apps lines sent and not yet handled
    done,      \* closeapps.done: how often it was stamped
    broker,    \* the broker's loop: free, modal (blocked in a dialog), dead
    target,    \* the volume each attempt closes
    talk,      \* the broker's side of each attempt
    stamp,     \* closeapps.done as each attempt's wait began (asked_at)
    answer,    \* what each helper's stdin carries: nothing, go, eof
    helper     \* the root helper's side of each attempt

sessionVars == <<volume, leader, app, bound>>
clearVars   == <<comp, request, clearing, pokes, done>>
talkVars    == <<broker, target, talk, stamp, answer>>
vars == <<sessionVars, clearVars, talkVars, helper>>

AppPhase    == {"off", "windowless", "window", "dying", "gone"}
TalkPhase   == {"none", "queued", "listen", "ask", "wait", "told", "aborted",
                "over"}
HelperPhase == {"none", "auth", "check", "parked", "umount", "close",
                "ok", "busy", "failed"}

Mounted == {v \in Volume : volume[v] = "mounted"}

\* foreign_holders: the processes outside the leader's namespace that bind v.
Holders(v) ==
    {x \in App : app[x] \in {"windowless", "window", "dying"} /\ v \in bound[x]}

\* windows_on_screen: the apps that can answer for themselves.
Windows == {x \in App : app[x] = "window"}

\* The session flock, which a helper holds from its first look to its exit.
Flocked ==
    \E a \in Attempt : helper[a] \in {"check", "parked", "umount", "close"}

HelperGoto(a, phase) == helper' = [helper EXCEPT ![a] = phase]
TalkGoto(a, phase)   == talk' = [talk EXCEPT ![a] = phase]
Answer(a, what)      == answer' = [answer EXCEPT ![a] = what]

Init ==
    /\ volume = [v \in Volume |-> "mounted"]
    /\ leader = "up"
    /\ app = [x \in App |-> "off"]
    /\ bound = [x \in App |-> {}]
    /\ comp = "run"
    /\ request = FALSE
    /\ clearing = FALSE
    /\ pokes = 0
    /\ done = 0
    /\ broker = "free"
    /\ target = [a \in Attempt |-> None]
    /\ talk = [a \in Attempt |-> "none"]
    /\ stamp = [a \in Attempt |-> None]
    /\ answer = [a \in Attempt |-> "none"]
    /\ helper = [a \in Attempt |-> "none"]

-----------------------------------------------------------------------------
(* The broker's single-threaded loop.                                      *)

\* Close volume, in the menu or from the idle timer: a verb in the command
\* log.  A quitting compositor does not drain its dismount queue.
Request(a, v) ==
    /\ comp = "run" /\ leader = "up"
    /\ talk[a] = "none"
    /\ v \in Mounted
    /\ TalkGoto(a, "queued")
    /\ target' = [target EXCEPT ![a] = v]
    /\ UNCHANGED <<sessionVars, clearVars, broker, stamp, answer, helper>>

\* The broker drains the log and runs the one privileged attempt.
Dispatch(a) ==
    /\ broker = "free"
    /\ talk[a] = "queued"
    /\ TalkGoto(a, "listen")
    /\ HelperGoto(a, "auth")
    /\ UNCHANGED <<sessionVars, clearVars, broker, target, stamp, answer>>

\* The holders line is read: "Close <apps> to continue." goes up as a child.
ReadHolders(a) ==
    /\ broker = "free"
    /\ talk[a] = "listen" /\ helper[a] = "parked"
    /\ TalkGoto(a, "ask")
    /\ UNCHANGED <<sessionVars, clearVars, broker, target, stamp, answer, helper>>

\* The human answered Close: note the stamp, then ask the compositor.
HumanYes(a) ==
    /\ broker = "free"
    /\ talk[a] = "ask"
    /\ TalkGoto(a, "wait")
    /\ stamp' = [stamp EXCEPT ![a] = done]
    /\ request' = TRUE
    /\ UNCHANGED <<sessionVars, comp, clearing, pokes, done, broker, target,
                   answer, helper>>

\* The human answered Cancel, or no dialog tool runs: the helper's stdin is
\* dropped.
HumanNo(a) ==
    /\ broker = "free"
    /\ talk[a] \in {"ask", "listen"} /\ helper[a] = "parked"
    /\ TalkGoto(a, "told")
    /\ Answer(a, "eof")
    /\ UNCHANGED <<sessionVars, clearVars, broker, target, stamp, helper>>

\* The compositor is gone: the question goes down, the stdin stays open.
AbortAsk(a) ==
    /\ broker = "free"
    /\ talk[a] = "ask" /\ comp = "gone"
    /\ TalkGoto(a, "aborted")
    /\ UNCHANGED <<sessionVars, clearVars, broker, target, stamp, answer, helper>>

\* A stamp other than the one noted: the apps are gone, let the helper go on.
Go(a) ==
    /\ broker = "free"
    /\ talk[a] = "wait" /\ done # stamp[a]
    /\ TalkGoto(a, "told")
    /\ Answer(a, "go")
    /\ UNCHANGED <<sessionVars, clearVars, broker, target, stamp, helper>>

\* APPS_CLOSED_WAIT is over: an app's own prompt was left unanswered.  A
\* compositor that runs has read the request by then.
WaitExpires(a) ==
    /\ broker = "free"
    /\ talk[a] = "wait" /\ done = stamp[a]
    /\ comp = "run" => ~request
    /\ TalkGoto(a, "told")
    /\ Answer(a, "eof")
    /\ UNCHANGED <<sessionVars, clearVars, broker, target, stamp, helper>>

Reap(a) ==
    /\ broker = "free"
    /\ talk[a] \notin {"none", "queued", "over"}
    /\ helper[a] \in {"ok", "busy", "failed"}
    /\ TalkGoto(a, "over")
    /\ UNCHANGED <<sessionVars, clearVars, broker, target, stamp, answer, helper>>

\* The file picker and the passphrase prompt block the loop.
ModalStarts ==
    /\ broker = "free"
    /\ broker' = "modal"
    /\ UNCHANGED <<sessionVars, clearVars, target, talk, stamp, answer, helper>>

ModalEnds ==
    /\ broker = "modal"
    /\ broker' = "free"
    /\ UNCHANGED <<sessionVars, clearVars, target, talk, stamp, answer, helper>>

\* Mutant of BrokerDies: another child holds the write end of the stdin.
BrokerDiesUnnoticed ==
    /\ broker # "dead"
    /\ broker' = "dead"
    /\ UNCHANGED <<sessionVars, clearVars, target, talk, stamp, answer, helper>>

\* The broker dies, and its end of every helper's stdin with it.
BrokerDies ==
    /\ broker # "dead"
    /\ broker' = "dead"
    /\ answer' = [a \in Attempt |->
                     IF answer[a] = "none" /\ talk[a] \notin {"none", "queued"}
                     THEN "eof" ELSE answer[a]]
    /\ UNCHANGED <<sessionVars, clearVars, target, talk, stamp, helper>>

-----------------------------------------------------------------------------
(* The root helper, under the session flock.                               *)

\* polkit refuses, or no live leader is recorded once the flock is granted.
HelperRefused(a) ==
    /\ helper[a] = "auth"
    /\ HelperGoto(a, "failed")
    /\ UNCHANGED <<sessionVars, clearVars, talkVars>>

HelperEnters(a) ==
    /\ helper[a] = "auth"
    /\ ~Flocked
    /\ leader = "up"
    /\ HelperGoto(a, "check")
    /\ UNCHANGED <<sessionVars, clearVars, talkVars>>

\* Another attempt closed the volume first, or only detached it.
CheckMissing(a) ==
    /\ helper[a] = "check"
    /\ target[a] \notin Mounted
    /\ HelperGoto(a, "failed")
    /\ UNCHANGED <<sessionVars, clearVars, talkVars>>

\* Check before touching anything: park while an app holds the volume.
Check(a) ==
    /\ helper[a] = "check"
    /\ target[a] \in Mounted
    /\ HelperGoto(a, IF Holders(target[a]) = {} THEN "umount" ELSE "parked")
    /\ UNCHANGED <<sessionVars, clearVars, talkVars>>

\* `go` only earns a second look at the holders.
ParkedGo(a) ==
    /\ helper[a] = "parked"
    /\ answer[a] = "go"
    /\ HelperGoto(a, IF Holders(target[a]) = {} THEN "umount" ELSE "busy")
    /\ UNCHANGED <<sessionVars, clearVars, talkVars>>

ParkedEof(a) ==
    /\ helper[a] = "parked"
    /\ answer[a] = "eof"
    /\ HelperGoto(a, "busy")
    /\ UNCHANGED <<sessionVars, clearVars, talkVars>>

\* Mutant of ParkedLeaderGone: the parked helper does not watch the leader.
ParkedLeaderUnwatched(a) ==
    /\ helper[a] = "parked"
    /\ leader = "dead" /\ answer[a] = "eof"
    /\ HelperGoto(a, "busy")
    /\ UNCHANGED <<sessionVars, clearVars, talkVars>>

\* The session went away under the parked helper.
ParkedLeaderGone(a) ==
    /\ helper[a] = "parked"
    /\ leader = "dead"
    /\ HelperGoto(a, "busy")
    /\ UNCHANGED <<sessionVars, clearVars, talkVars>>

\* HOLDERS_WAIT is over.
ParkedExpires(a) ==
    /\ helper[a] = "parked"
    /\ HelperGoto(a, "busy")
    /\ UNCHANGED <<sessionVars, clearVars, talkVars>>

\* A plain umount: refused while something in the workspace is in use.
Umount(a) ==
    /\ helper[a] = "umount"
    /\ \/ /\ volume' = [volume EXCEPT ![target[a]] = "detached"]
          /\ HelperGoto(a, "close")
       \/ /\ HelperGoto(a, "busy")
          /\ UNCHANGED volume
    /\ UNCHANGED <<leader, app, bound, clearVars, talkVars>>

CloseDevice(a) ==
    /\ helper[a] = "close"
    /\ Holders(target[a]) = {}
    /\ volume' = [volume EXCEPT ![target[a]] = "closed"]
    /\ HelperGoto(a, "ok")
    /\ UNCHANGED <<leader, app, bound, clearVars, talkVars>>

\* A holder appeared between the check and the umount and outlasts the
\* retries: unmounted, still decrypted.
CloseFails(a) ==
    /\ helper[a] = "close"
    /\ Holders(target[a]) # {}
    /\ HelperGoto(a, "busy")
    /\ UNCHANGED <<sessionVars, clearVars, talkVars>>

-----------------------------------------------------------------------------
(* The compositor and the leader.                                          *)

\* Mutant of Scan: a request whose windows do not close at once is forgotten.
ScanForgets ==
    /\ comp = "run"
    /\ request \/ clearing
    /\ request' = FALSE
    /\ clearing' = FALSE
    /\ pokes' = IF Windows = {} THEN pokes + 1 ELSE pokes
    /\ UNCHANGED <<sessionVars, comp, done, talkVars, helper>>

\* Mutant of Scan: the latch is not reset.
ScanKeepsClearing ==
    /\ comp = "run"
    /\ request \/ clearing
    /\ request' = FALSE
    /\ clearing' = TRUE
    /\ pokes' = IF Windows = {} THEN pokes + 1 ELSE pokes
    /\ UNCHANGED <<sessionVars, comp, done, talkVars, helper>>

\* The discovery scan: a new request asks the windows to close and sets the
\* latch; with no window on screen the latch is dropped and the leader poked.
\* A quitting compositor returns from the scan before it gets here.
Scan ==
    /\ comp = "run"
    /\ request \/ clearing
    /\ request' = FALSE
    /\ clearing' = (Windows # {})
    /\ pokes' = IF Windows = {} /\ leader = "up" THEN pokes + 1 ELSE pokes
    /\ UNCHANGED <<sessionVars, comp, done, talkVars, helper>>

\* Mutant of CloseApps: one accept drains two lines.
CloseAppsDrains ==
    /\ leader = "up"
    /\ pokes > 0
    /\ pokes' = pokes - 2
    /\ done' = done + 1
    /\ app' = [x \in App |->
                  IF app[x] \in {"windowless", "window"} THEN "dying" ELSE app[x]]
    /\ UNCHANGED <<volume, leader, bound, comp, request, clearing, talkVars, helper>>

\* close-apps: the leader stops its apps and stamps closeapps.done.
CloseApps ==
    /\ leader = "up"
    /\ pokes > 0
    /\ pokes' = pokes - 1
    /\ done' = done + 1
    /\ app' = [x \in App |->
                  IF app[x] \in {"windowless", "window"} THEN "dying" ELSE app[x]]
    /\ UNCHANGED <<volume, leader, bound, comp, request, clearing, talkVars, helper>>

\* The leader exits or is killed, and its apps with it.
LeaderDies ==
    /\ leader = "up"
    /\ leader' = "dead"
    /\ pokes' = 0
    /\ app' = [x \in App |->
                  IF app[x] \in {"windowless", "window"} THEN "dying" ELSE app[x]]
    /\ UNCHANGED <<volume, bound, comp, request, clearing, done, talkVars, helper>>

\* The session's own teardown: it needs the flock, and closes every volume.
Teardown ==
    /\ leader = "dead"
    /\ ~Flocked
    /\ \A x \in App : app[x] # "dying"
    /\ \E v \in Volume : volume[v] # "closed"
    /\ volume' = [v \in Volume |-> "closed"]
    /\ UNCHANGED <<leader, app, bound, clearVars, talkVars, helper>>

Quit ==
    /\ comp = "run"
    /\ comp' = "quitting"
    /\ UNCHANGED <<sessionVars, request, clearing, pokes, done, talkVars, helper>>

\* The quit ended, or the compositor crashed.
CompGone ==
    /\ comp # "gone"
    /\ comp' = "gone"
    /\ UNCHANGED <<sessionVars, request, clearing, pokes, done, talkVars, helper>>

-----------------------------------------------------------------------------
(* The apps.                                                               *)

\* An app's sandbox binds every volume mounted at its launch.
AppStarts(x) ==
    /\ leader = "up"
    /\ app[x] = "off"
    /\ app' = [app EXCEPT ![x] = "windowless"]
    /\ bound' = [bound EXCEPT ![x] = Mounted]
    /\ UNCHANGED <<volume, leader, clearVars, talkVars, helper>>

AppMaps(x) ==
    /\ app[x] = "windowless" /\ comp # "gone"
    /\ app' = [app EXCEPT ![x] = "window"]
    /\ UNCHANGED <<volume, leader, bound, clearVars, talkVars, helper>>

\* The app's last window closes, the process may stay.
AppUnmaps(x) ==
    /\ app[x] = "window"
    /\ app' = [app EXCEPT ![x] = "windowless"]
    /\ UNCHANGED <<volume, leader, bound, clearVars, talkVars, helper>>

AppExits(x) ==
    /\ app[x] \in {"windowless", "window", "dying"}
    /\ app' = [app EXCEPT ![x] = "gone"]
    /\ UNCHANGED <<volume, leader, bound, clearVars, talkVars, helper>>

-----------------------------------------------------------------------------
BrokerStep(a) ==
    Dispatch(a) \/ ReadHolders(a) \/ AbortAsk(a) \/ Go(a) \/ Reap(a)

HelperStep(a) ==
    \/ HelperEnters(a) \/ CheckMissing(a) \/ Check(a)
    \/ ParkedGo(a) \/ ParkedEof(a) \/ ParkedLeaderGone(a)
    \/ Umount(a) \/ CloseDevice(a) \/ CloseFails(a)

Next ==
    \/ \E a \in Attempt :
          \/ \E v \in Volume : Request(a, v)
          \/ BrokerStep(a) \/ HumanYes(a) \/ HumanNo(a) \/ WaitExpires(a)
          \/ HelperStep(a) \/ HelperRefused(a) \/ ParkedExpires(a)
    \/ ModalStarts \/ ModalEnds \/ BrokerDies
    \/ Scan \/ CloseApps \/ LeaderDies \/ Teardown \/ Quit \/ CompGone
    \/ \E x \in App : AppStarts(x) \/ AppMaps(x) \/ AppUnmaps(x) \/ AppExits(x)

Spec == Init /\ [][Next]_vars

\* Every poll loop runs while it is not blocked in a dialog; a process that was
\* signalled dies; a leader ends once its compositor is gone.  Nothing obliges
\* the human to answer, an app to close, or a dialog to end, and neither
\* deadline is relied on, the helper's (ParkedExpires) nor the broker's
\* (WaitExpires).
Fairness ==
    /\ \A a \in Attempt : WF_vars(BrokerStep(a)) /\ WF_vars(HelperStep(a))
    /\ WF_vars(Scan) /\ WF_vars(CloseApps) /\ WF_vars(Teardown)
    /\ WF_vars(comp = "gone" /\ LeaderDies)
    /\ \A x \in App : WF_vars(app[x] = "dying" /\ AppExits(x))

FairSpec == Spec /\ Fairness

-----------------------------------------------------------------------------
\* Every variable keeps its type.
TypeOK ==
    /\ volume \in [Volume -> {"mounted", "detached", "closed"}]
    /\ leader \in {"up", "dead"}
    /\ app \in [App -> AppPhase]
    /\ bound \in [App -> SUBSET Volume]
    /\ comp \in {"run", "quitting", "gone"}
    /\ request \in BOOLEAN
    /\ clearing \in BOOLEAN
    /\ pokes \in Nat
    /\ done \in Nat
    /\ broker \in {"free", "modal", "dead"}
    /\ target \in [Attempt -> Volume \union {None}]
    /\ talk \in [Attempt -> TalkPhase]
    /\ stamp \in [Attempt -> Nat \union {None}]
    /\ answer \in [Attempt -> {"none", "go", "eof"}]
    /\ helper \in [Attempt -> HelperPhase]

\* The attempts the human answered Close to.
Consented == {a \in Attempt : stamp[a] # None}

Count(flag) == IF flag THEN 1 ELSE 0

\* The session stops its running apps once at most for each time the human
\* agreed to it: the stops made, poked for, latched and requested never exceed
\* the answers, however the requests, scans and pokes interleave.
OneStopPerConsent ==
    done + pokes + Count(clearing) + Count(request) <= Cardinality(Consented)

\* What may keep a helper parked without its deadline: a broker blocked in a
\* dialog, its own question unanswered, or apps that take their time.
Excused(a) ==
    \/ broker = "modal"
    \/ talk[a] = "ask"
    \/ talk[a] = "wait" /\ (Windows # {} \/ comp = "quitting")

\* The helper of a dismount, a root process that holds the session's flock, is
\* never forgotten: without its deadline too, one that stays parked waits for a
\* dialog or for the apps.  An answer, a question taken down because the compositor
\* is gone, a broker or a leader that died each release it.
NoHelperForgotten ==
    \A a \in Attempt : ~<>[](helper[a] = "parked" /\ ~Excused(a))

\* Once the leader is dead the teardown gets the flock and closes every volume,
\* without waiting out HOLDERS_WAIT, whatever dismount was in progress.
TeardownProceeds ==
    leader = "dead" ~> \A v \in Volume : volume[v] = "closed"

\* As long as the compositor and the leader run, the signal that an agreed dismount
\* waits for has been given or is on its way, as a request, a latch or a poke,
\* whatever became of other attempts that asked for the same.
SignalUnderway ==
    \A a \in Attempt :
        talk[a] = "wait" /\ comp = "run" /\ leader = "up" =>
            done # stamp[a] \/ request \/ clearing \/ pokes > 0

\* An agreed dismount whose windows have all closed is never left waiting for a
\* signal that already came or never will, deadline aside: the request, the
\* latch, the poke and the stamp lose no wakeup, even across two attempts.
NoLostWakeup ==
    \A a \in Attempt :
        ~<>[](/\ talk[a] = "wait" /\ broker = "free"
              /\ comp = "run" /\ leader = "up" /\ Windows = {})

\* A dismount that was given up leaves everything as it is: the compositor has
\* the apps stopped only for a request it has just read, or while the dismount
\* that made the request still waits for it.
StoppedOnlyForADismount ==
    [][pokes' > pokes /\ ~request => \E a \in Attempt : talk[a] = "wait"]_vars
=============================================================================
