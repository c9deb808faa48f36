------------------------------- MODULE Broker -------------------------------
(***************************************************************************)
(* The broker: the human's process that a launch of Veracage leaves        *)
(* behind, one at a time.  It raises the compositor, serves the verbs the  *)
(* compositor's menus append to a log, opens volumes and asks again after  *)
(* a wrong passphrase, and ends after the window has gone.                 *)
(*                                                                         *)
(* Its one loop blocks while a volume is picked or a passphrase is asked   *)
(* for; what happens meanwhile is found later.  A line is appended to the  *)
(* log in one write, and its nonce is the time: the clock is not set back. *)
(* Both readers of the log go by the nonces and not by the place of a      *)
(* line, so that the log is a set of lines.                                *)
(***************************************************************************)
EXTENDS Integers, Sequences, FiniteSets

CONSTANTS
    Launch,        \* the launches of veracage-agent
    Dialog,        \* the verbs that open a dialog, one of each at a time
    None,          \* no launch
    MaxClicks,     \* bound: how many verbs the menus send
    MaxWindows,    \* bound: how often the compositor starts
    MaxTries       \* bound: how many passphrases the human types

ASSUME BrokerAssumption ==
    /\ None \notin Launch /\ Dialog \intersect {"open", "close-volume"} = {}
    /\ {MaxClicks, MaxWindows, MaxTries} \subseteq Nat

Verbs == Dialog \union {"open", "close-volume"}

VARIABLES
    window,        \* the compositor is up
    windows,       \* how often it was started
    clock,         \* the time, as the nonce of the latest verb
    log,           \* cmd.log, its lines
    openReq,       \* the time of open.req
    tries,         \* passphrases typed
    lock,          \* who holds the flock on broker.pid
    broker,        \* of each launch: where it is, and a broker's state
    served         \* the nonces of the verbs dispatched, in that order

compVars == <<window, windows, clock, log>>
vars == <<compVars, openReq, tries, lock, broker, served>>

Loop == {"reap", "retry", "drain", "request", "decide"}

\* "wrong" and "failed" count the opens that have ended so and are not reaped;
\* "jobs" the other children that are waited for, dismounts and error dialogs.
Fresh == [at |-> "none", modal |-> "none", seen |-> 0, openSeen |-> 0,
          batch |-> {}, compSeen |-> FALSE, retries |-> 0, opens |-> 0,
          wrong |-> 0, failed |-> 0, jobs |-> 0, dialogs |-> {}]
Gone == [Fresh EXCEPT !.at = "gone"]

Init ==
    /\ window = FALSE /\ windows = 0 /\ clock = 0 /\ log = {}
    /\ openReq = 0 /\ tries = 0
    /\ lock = None /\ broker = [l \in Launch |-> Fresh] /\ served = <<>>

-----------------------------------------------------------------------------
(* The compositor.                                                         *)

\* It starts because a broker raises it, or a `veracage open` of a terminal;
\* reset_command_log.
CompStarts ==
    /\ ~window /\ windows < MaxWindows
    /\ window' = TRUE /\ windows' = windows + 1
    /\ log' = {}
    /\ UNCHANGED <<clock, openReq, tries, lock, broker, served>>

CompEnds ==
    /\ window
    /\ window' = FALSE
    /\ UNCHANGED <<windows, clock, log, openReq, tries, lock, broker, served>>

\* request_commands: a menu item, or Close volume > All, which is several.
Click(verbs) ==
    /\ window /\ clock + Len(verbs) <= MaxClicks
    /\ clock' = clock + Len(verbs)
    /\ log' = log \union {[nonce |-> clock + i, verb |-> verbs[i]] :
                              i \in DOMAIN verbs}
    /\ UNCHANGED <<window, windows, openReq, tries, lock, broker, served>>

-----------------------------------------------------------------------------
(* A launch, until it is the broker or has handed over to it.              *)

Become(l, state) == broker' = [broker EXCEPT ![l] = state]
Moves(l, place) == Become(l, [broker[l] EXCEPT !.at = place])

Launches(l) ==
    /\ broker[l].at = "none"
    /\ Moves(l, "claiming")
    /\ UNCHANGED <<compVars, openReq, tries, lock, served>>

\* claim_single_instance.
Claim(l) ==
    /\ broker[l].at = "claiming"
    /\ IF lock = None THEN lock' = l /\ Moves(l, "noting")
       ELSE UNCHANGED lock /\ Moves(l, "handing")
    /\ UNCHANGED <<compVars, openReq, tries, served>>

\* signal_open, and exit.
HandOver(l) ==
    /\ broker[l].at = "handing"
    /\ openReq' = openReq + 1
    /\ Become(l, Gone)
    /\ UNCHANGED <<compVars, tries, lock, served>>

\* Mutant of LastNonce: a broker that starts reads the log from its beginning.
NoBacklog == 0

Newest(c) == c \in log /\ \A d \in log : d.nonce <= c.nonce

\* last_command_nonce.
LastNonce == IF log = {} THEN 0 ELSE (CHOOSE c \in log : Newest(c)).nonce

\* What there is already is none of its business.
NoteBacklog(l) ==
    /\ broker[l].at = "noting"
    /\ Become(l, [broker[l] EXCEPT !.at = "raising", !.seen = LastNonce,
                                   !.openSeen = openReq])
    /\ UNCHANGED <<compVars, openReq, tries, lock, served>>

\* ensure_compositor: blocks until the compositor has come up, or the
\* authentication has failed; then only a compositor that is up keeps it.
Raise(l) ==
    /\ broker[l].at = "raising"
    /\ \/ windows > 0 /\ Moves(l, "reap") /\ UNCHANGED lock
       \/ ~window /\ Become(l, Gone) /\ lock' = None
    /\ UNCHANGED <<compVars, openReq, tries, served>>

-----------------------------------------------------------------------------
(* The broker's loop, one turn after the other.                            *)

At(l, place) == broker[l].at = place /\ broker[l].modal = "none"

\* reap: what has ended is taken off the lists, with an error dialog for what
\* failed.
Reap(l) ==
    /\ At(l, "reap")
    /\ Become(l, [broker[l] EXCEPT !.at = "retry",
                      !.retries = broker[l].wrong, !.wrong = 0,
                      !.jobs = @ + broker[l].failed, !.failed = 0])
    /\ UNCHANGED <<compVars, openReq, tries, lock, served>>

\* Mutant of Pending: the log is a slot that holds the latest verb.
PendingLatest(l) == {c \in log : c.nonce > broker[l].seen /\ Newest(c)}

\* read_commands: all that was appended after the last one dispatched.
Pending(l) == {c \in log : c.nonce > broker[l].seen}

\* Another prompt for each wrong passphrase; then the log is read.
Retry(l) ==
    /\ At(l, "retry")
    /\ Become(l, IF broker[l].retries > 0
                 THEN [broker[l] EXCEPT !.retries = @ - 1,
                                        !.modal = "passphrase"]
                 ELSE [broker[l] EXCEPT !.at = "drain", !.batch = Pending(l)])
    /\ UNCHANGED <<compVars, openReq, tries, lock, served>>

\* dispatch.
Dispatched(state, verb) ==
    CASE verb = "open" -> [state EXCEPT !.modal = "picker"]
      [] verb = "close-volume" -> [state EXCEPT !.jobs = @ + 1]
      [] OTHER -> [state EXCEPT !.dialogs = @ \union {verb}]

\* read_commands sorts what it read.
Oldest(batch) == CHOOSE c \in batch : \A d \in batch : c.nonce <= d.nonce

\* One verb of those read.
Drain(l) ==
    /\ At(l, "drain")
    /\ IF broker[l].batch = {} THEN Moves(l, "request") /\ UNCHANGED served
       ELSE LET next == Oldest(broker[l].batch) IN
            /\ served' = Append(served, next.nonce)
            /\ Become(l, Dispatched([broker[l] EXCEPT !.seen = next.nonce,
                                                      !.batch = @ \ {next}],
                                    next.verb))
    /\ UNCHANGED <<compVars, openReq, tries, lock>>

\* Another launch wants a volume opened.  Several are one.
Request(l) ==
    /\ At(l, "request")
    /\ Become(l, IF openReq = broker[l].openSeen
                 THEN [broker[l] EXCEPT !.at = "decide"]
                 ELSE [broker[l] EXCEPT !.at = "decide", !.openSeen = openReq,
                                        !.modal = "picker"])
    /\ UNCHANGED <<compVars, openReq, tries, lock, served>>

NothingLeft(l) ==
    /\ broker[l].dialogs = {} /\ broker[l].jobs = 0
    /\ broker[l].opens + broker[l].wrong + broker[l].failed = 0

\* Mutant of Killed: the dialogs may stay.
KilledNever(l) == broker[l].dialogs

\* The window they belong to has gone.
Killed(l) ==
    IF broker[l].compSeen /\ ~window THEN {} ELSE broker[l].dialogs

\* The exit decision.  A compositor that was never seen is given a while.
Decide(l) ==
    /\ At(l, "decide")
    /\ \/ /\ ~window /\ NothingLeft(l)
          /\ Become(l, Gone) /\ lock' = None
       \/ /\ window \/ ~NothingLeft(l) \/ ~broker[l].compSeen
          /\ Become(l, [broker[l] EXCEPT !.at = "reap",
                           !.compSeen = @ \/ window, !.dialogs = Killed(l)])
          /\ UNCHANGED lock
    /\ UNCHANGED <<compVars, openReq, tries, served>>

\* The broker is killed; its children live on.
Dies(l) ==
    /\ lock = l
    /\ Become(l, Gone) /\ lock' = None
    /\ UNCHANGED <<compVars, openReq, tries, served>>

-----------------------------------------------------------------------------
(* What it waits for.                                                      *)

\* open_flow: a volume is picked, or none.
Picked(l) ==
    /\ broker[l].modal = "picker"
    /\ \E next \in {"none", "passphrase"} :
          Become(l, [broker[l] EXCEPT !.modal = next])
    /\ UNCHANGED <<compVars, openReq, tries, lock, served>>

\* open_with: cancelled, or a passphrase for `veracage open`.
Typed(l) ==
    /\ broker[l].modal = "passphrase"
    /\ \/ UNCHANGED tries /\ Become(l, [broker[l] EXCEPT !.modal = "none"])
       \/ /\ tries < MaxTries /\ tries' = tries + 1
          /\ Become(l, [broker[l] EXCEPT !.modal = "none", !.opens = @ + 1])
    /\ UNCHANGED <<compVars, openReq, lock, served>>

\* `veracage open` exits: with nothing to say, after a wrong passphrase, or
\* with an error.
OpenEnds(l) ==
    /\ broker[l].opens > 0
    /\ LET state == [broker[l] EXCEPT !.opens = @ - 1] IN
          \/ Become(l, state)
          \/ Become(l, [state EXCEPT !.wrong = @ + 1])
          \/ Become(l, [state EXCEPT !.failed = @ + 1])
    /\ UNCHANGED <<compVars, openReq, tries, lock, served>>

JobEnds(l) ==
    /\ broker[l].jobs > 0
    /\ Become(l, [broker[l] EXCEPT !.jobs = @ - 1])
    /\ UNCHANGED <<compVars, openReq, tries, lock, served>>

DialogEnds(l) ==
    /\ \E d \in broker[l].dialogs :
          Become(l, [broker[l] EXCEPT !.dialogs = @ \ {d}])
    /\ UNCHANGED <<compVars, openReq, tries, lock, served>>

-----------------------------------------------------------------------------
Comes(l) == Claim(l) \/ HandOver(l) \/ NoteBacklog(l) \/ Raise(l)
Turns(l) ==
    Reap(l) \/ Retry(l) \/ Drain(l) \/ Request(l) \/ Decide(l)
Answers(l) == Picked(l) \/ Typed(l)

Next ==
    \/ CompStarts \/ CompEnds
    \/ \E v \in Verbs : Click(<<v>>)
    \/ Click(<<"close-volume", "close-volume">>)
    \/ \E l \in Launch :
          \/ Launches(l) \/ Comes(l) \/ Turns(l) \/ Answers(l) \/ Dies(l)
          \/ OpenEnds(l) \/ JobEnds(l) \/ DialogEnds(l)

Spec == Init /\ [][Next]_vars

\* The broker takes its turns, and a human answers a picker and a prompt.  Nobody
\* has to close a dialog, and nothing obliges the children it waits for to end: an
\* open lasts as long as its session, and each of them as long as its
\* authentication is not answered.
FairSpec ==
    /\ Spec
    /\ \A l \in Launch :
          WF_vars(Comes(l)) /\ WF_vars(Turns(l)) /\ WF_vars(Answers(l))

-----------------------------------------------------------------------------
\* Each verb is dispatched at most once and in the order of the clicks, through
\* batches, blocked loops, crashes and restarts of either side, and however many
\* launches come at once: no second broker, no backlog of an earlier one.
ServedInOrder ==
    \A i, j \in DOMAIN served : i < j => served[i] < served[j]

Logged(n) == \E c \in log : c.nonce = n
Served(n) == \E i \in DOMAIN served : served[i] = n

\* A verb clicked after a broker looked is dispatched, however long a dialog kept
\* the broker from its loop; except if it dies, or a new compositor clears the
\* log.
EachServed ==
    \A n \in 1..MaxClicks, l \in Launch :
        (broker[l].at \in Loop /\ broker[l].seen < n /\ Logged(n)) ~>
            \/ Served(n)
            \/ ~Logged(n) \/ broker[l].at = "gone"

\* The broker waits for nothing but a child that still runs: an open, whose session
\* goes on, a dismount or an error dialog.
Waits(l) == broker[l].opens + broker[l].jobs > 0

\* After the window that the broker has seen has gone, it does not stay for good
\* without an open or a dismount to wait for: no dialog, retry or request of
\* another launch keeps it, and with it the flock that makes a new launch exit.
EndsAfterWindow ==
    \A l \in Launch :
        ~<>[](/\ broker[l].at \in Loop /\ broker[l].compSeen
              /\ ~window /\ ~Waits(l))
=============================================================================
