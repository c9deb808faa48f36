----------------------------- MODULE Settings ------------------------------
(***************************************************************************)
(* The configuration: one file, written whole by several dialogs and by    *)
(* hand; read by two readers, the one of the broker and its dialogs and    *)
(* the one of the command line; published by whoever wrote it, by the      *)
(* broker when it sees the file change, and by the command line that the   *)
(* broker then runs; and applied by the compositor when it scans.          *)
(*                                                                         *)
(* The settings are grouped by who shows and who publishes them.  Of their *)
(* values this is told apart: 0, 1, that the Host decides, and a line that *)
(* is not there or says nothing acceptable.                                *)
(***************************************************************************)
EXTENDS Integers, FiniteSets

CONSTANTS
    Fields,        \* the groups of settings; theme (the fonts go with it).
                   \* policy: auto-clear, idle dismount.  keys: shortcuts,
                   \* modifier keys.  apps: the enabled apps.
    Dialogs,       \* the dialogs that may be opened
    Broken,        \* how an edit by hand may leave the file
    HostLook,      \* what the Host looks like: 0 light, 1 dark
    MaxCommands,   \* bound: how many runs of the command line go on at once
    MaxWrites      \* bound: how often the file is written

\* Of each dialog: what it lets the human change, and what it publishes after
\* its Save.
SettingsDialog == [shows |-> {"policy"}, publishes |-> {"theme", "policy"}]
AppearanceDialog == [shows |-> {"theme"}, publishes |-> {"theme"}]
ShortcutsDialog == [shows |-> {"keys"}, publishes |-> {"keys"}]
ConfigureDialog == [shows |-> {"apps"}, publishes |-> {}]

Kinds == [settings |-> SettingsDialog, appearance |-> AppearanceDialog,
          shortcuts |-> ShortcutsDialog, configure |-> ConfigureDialog]

ASSUME SettingsAssumption ==
    /\ Fields \subseteq {"theme", "policy", "keys", "apps"}
    /\ Dialogs \subseteq DOMAIN Kinds
    /\ \A d \in Dialogs : Kinds[d].shows \union Kinds[d].publishes \subseteq Fields
    \* mistyped: one value of a wrong type, which only one reader minds
    /\ Broken \subseteq {"malformed", "mistyped", "missing", "unreadable"}
    /\ HostLook \in 0..1
    /\ MaxCommands \in Nat \ {0}
    /\ MaxWrites \in Nat

AsHost == 2
Unset == 3
None == 4

\* What the dialogs offer; only the theme may be left to the Host.
Choices(f) == IF f = "theme" THEN {0, 1, AsHost} ELSE {0, 1}

Blank == [f \in Fields |-> Unset]
Default == [f \in Fields |-> 0]
Commands == 1..MaxCommands

VARIABLES
    file,          \* what config.toml says, also while it cannot be read
    state,         \* the file is fine, or in which way it is not
    mtime,         \* counts its writes
    dialog,        \* of each dialog: where it is, its copy of the whole
                   \* configuration, loaded_ok, and the file it loaded
    broker,        \* of the broker: where it is, cfg_seen, its copy, what of it
                   \* is still to be published, and whether a run of the
                   \* command line follows
    command,       \* of each run of the command line: where it is, its copy,
                   \* and the file it loaded
    newest,        \* the newest file that such a run has published from
    overtaken,     \* somebody has published from an older one after that
    pub,           \* the published settings; None: no file
    applied        \* what the compositor works with

fileVars == <<file, state, mtime>>
commandVars == <<command, newest>>
vars == <<fileVars, dialog, broker, commandVars, overtaken, pub, applied>>

Closed == [at |-> "closed", copy |-> Default, ok |-> TRUE, opened |-> 0,
           left |-> {}]
NoCommand == [at |-> "none", copy |-> Default, of |-> 0]

Init ==
    /\ file \in {Blank, [f \in Fields |-> IF f = "theme" THEN AsHost ELSE 1]}
    /\ state = "fine" /\ mtime = 0
    /\ dialog = [d \in Dialogs |-> Closed]
    /\ broker = [at |-> "starting", seen |-> 0, copy |-> Default, left |-> {},
                 sync |-> FALSE]
    \* the broker has run `veracage _up`, which is at work or has given up
    /\ command \in {[c \in Commands |-> NoCommand],
                    [c \in Commands |-> IF c = 1 THEN [NoCommand EXCEPT !.at = "loading"]
                                                ELSE NoCommand]}
    /\ newest = 0 /\ overtaken = FALSE
    \* an earlier session may have left its settings behind
    /\ \E v \in {1, None} : pub = [f \in Fields |-> v]
    /\ applied = Default

-----------------------------------------------------------------------------
(* Reading the file.                                                       *)

\* Mutant of Accepted: values go through as they are.
AcceptedAsIs(v) == v

\* load of the broker and the dialogs: what is not there or not among the
\* choices gives way to the default.  The default theme is the light one.
Accepted(v) == IF v = Unset THEN 0 ELSE v

\* The defaults stand in for a file that cannot be used.
Load == IF state = "fine" THEN [f \in Fields |-> Accepted(file[f])] ELSE Default

\* loaded_ok: only a file that was read and did not parse is not ok.
LoadedOk == state \notin {"malformed", "mistyped"}

\* load of the command line: by default the theme follows the Host.
CommandReads(f, v) ==
    IF v # Unset THEN v ELSE IF f = "theme" THEN AsHost ELSE 0

\* resolved_theme: what the command line publishes is light or dark.
Resolved(v) == IF v = AsHost THEN HostLook ELSE v

\* One value of a wrong type does not keep this reader from the others.
CommandLoad ==
    [f \in Fields |->
        Resolved(CommandReads(f, IF state \in {"fine", "mistyped"} THEN file[f]
                                                                  ELSE Unset))]

-----------------------------------------------------------------------------
(* Writing it.  The publications that follow a Save take no time that a    *)
(* human would notice: no other write falls between them.                  *)

MayWrite ==
    /\ mtime < MaxWrites
    /\ \A d \in Dialogs : dialog[d].at # "saved"

\* save: written to a temporary file and renamed, so at once.
Write(content) == file' = content /\ state' = "fine" /\ mtime' = mtime + 1

\* An edit by hand, or by the command line; also one that repairs the file.
EditByHand ==
    /\ MayWrite
    /\ \/ \E f \in Fields : \E v \in Choices(f) \union {Unset} :
             Write([file EXCEPT ![f] = v])
       \/ /\ state' \in Broken /\ mtime' = mtime + 1
          /\ CASE state' = "missing" -> file' = Blank
               [] state' = "mistyped" ->
                      \E f \in Fields : file' = [file EXCEPT ![f] = Unset]
               [] OTHER -> file' = file
    /\ UNCHANGED <<dialog, broker, commandVars, overtaken, pub, applied>>

\* spawn_dialog: at most one of each kind; it loads everything.
Open(d) ==
    /\ dialog[d].at = "closed" /\ broker.at # "starting"
    /\ dialog' = [dialog EXCEPT ![d] = [at |-> "open", copy |-> Load,
                      ok |-> LoadedOk, opened |-> mtime, left |-> {}]]
    /\ UNCHANGED <<fileVars, broker, commandVars, overtaken, pub, applied>>

\* Mutant of Saveable: whatever was loaded is saved.
SaveableAlways(d) == TRUE

\* save refuses a fallback.
Saveable(d) == dialog[d].ok

\* The whole copy goes into the file.
SavedAs(d, copy) ==
    /\ Write(copy)
    /\ dialog' = [dialog EXCEPT ![d] = [@ EXCEPT !.at = "saved", !.copy = copy,
                                                !.left = Kinds[d].publishes]]

\* Save, with what the human has changed.
Save(d) ==
    /\ dialog[d].at = "open" /\ Saveable(d) /\ MayWrite
    /\ \E f \in Kinds[d].shows :
          \E v \in Choices(f) : SavedAs(d, [dialog[d].copy EXCEPT ![f] = v])
    /\ UNCHANGED <<broker, commandVars, overtaken, pub, applied>>

\* A refused Save shows why and stays open; only the app list's closes with it.
SaveRefused(d) ==
    /\ dialog[d].at = "open" /\ ~Saveable(d)
    /\ d = "configure"
    /\ dialog' = [dialog EXCEPT ![d] = Closed]
    /\ UNCHANGED <<fileVars, broker, commandVars, overtaken, pub, applied>>

\* After a Save the dialog publishes some of it by itself, as it is, and exits.
DialogPublish(d) ==
    /\ dialog[d].at = "saved"
    /\ IF dialog[d].left = {}
       THEN dialog' = [dialog EXCEPT ![d] = Closed] /\ UNCHANGED <<overtaken, pub>>
       ELSE \E f \in dialog[d].left :
               /\ pub' = [pub EXCEPT ![f] = dialog[d].copy[f]]
               /\ overtaken' = (overtaken \/ newest = mtime)
               /\ dialog' = [dialog EXCEPT ![d].left = @ \ {f}]
    /\ UNCHANGED <<fileVars, broker, commandVars, applied>>

\* Cancelled; or killed, at any point, when the compositor is gone.
DialogGone(d) ==
    /\ dialog[d].at # "closed"
    /\ dialog' = [dialog EXCEPT ![d] = Closed]
    /\ UNCHANGED <<fileVars, broker, commandVars, overtaken, pub, applied>>

-----------------------------------------------------------------------------
(* The broker, the command line and the compositor's scan.                 *)

\* `_up` is over and the compositor is up, which makes the directory to publish
\* into; the file may have been written since the broker noted its time.
BrokerStarts ==
    /\ broker.at = "starting" /\ \A c \in Commands : command[c].at = "none"
    /\ broker' = [broker EXCEPT !.at = "loading"]
    /\ UNCHANGED <<fileVars, dialog, commandVars, overtaken, pub, applied>>

\* The loop sees another modification time, an earlier one or none, too.
BrokerNotices ==
    /\ broker.at = "idle" /\ broker.seen # mtime
    /\ broker' = [broker EXCEPT !.at = "loading", !.seen = mtime, !.sync = TRUE]
    /\ UNCHANGED <<fileVars, dialog, commandVars, overtaken, pub, applied>>

\* publish_apps, its beginning.
BrokerLoads ==
    /\ broker.at = "loading"
    /\ broker' = [broker EXCEPT !.at = "publishing", !.copy = Load,
                                !.left = Fields]
    /\ UNCHANGED <<fileVars, dialog, commandVars, overtaken, pub, applied>>

\* publish_apps: one file after another, each renamed into place, the app list
\* after the others.
BrokerPublishes(f) ==
    /\ broker.at = "publishing" /\ f \in broker.left
    /\ f = "apps" => broker.left = {"apps"}
    /\ pub' = [pub EXCEPT ![f] = broker.copy[f]]
    /\ broker' = [broker EXCEPT !.left = @ \ {f}]
    /\ UNCHANGED <<fileVars, dialog, commandVars, overtaken, applied>>

\* Mutant of Published: the time is taken when all is published.
PublishedStamped ==
    broker' = [broker EXCEPT !.at = "idle", !.copy = Default, !.sync = FALSE,
                             !.seen = mtime]

\* The time that was read before the file was loaded stands.
Published ==
    broker' = [broker EXCEPT !.at = "idle", !.copy = Default, !.sync = FALSE]

Runs(c) ==
    /\ command[c].at = "none"
    /\ command' = [command EXCEPT ![c].at = "loading"]

\* After a change sync_apps runs `veracage _sync-apps` and does not wait for it.
BrokerDone ==
    /\ broker.at = "publishing" /\ broker.left = {}
    /\ Published
    /\ IF broker.sync THEN \E c \in Commands : Runs(c) ELSE UNCHANGED command
    /\ UNCHANGED <<fileVars, dialog, newest, overtaken, pub, applied>>

CommandLoads(c) ==
    /\ command[c].at = "loading"
    /\ command' = [command EXCEPT ![c] = [at |-> "publishing", copy |-> CommandLoad,
                                          of |-> mtime]]
    /\ UNCHANGED <<fileVars, dialog, broker, newest, overtaken, pub, applied>>

\* publish_apps of the command line: the same files, the theme resolved.  One
\* step stands for them all, as no property relates two settings.
CommandPublishes(c) ==
    /\ command[c].at = "publishing"
    /\ pub' = command[c].copy
    /\ command' = [command EXCEPT ![c] = NoCommand]
    /\ newest' = IF newest < command[c].of THEN command[c].of ELSE newest
    /\ overtaken' = (overtaken \/ command[c].of < newest)
    /\ UNCHANGED <<fileVars, dialog, broker, applied>>

\* scan_theme, scan_font and the others: what is published, if anything is and
\* it is understood.  The compositor knows light and dark only; an app list that
\* is not there is an empty one.
Found(f) ==
    CASE pub[f] \notin {None, AsHost} -> pub[f]
      [] f = "apps" -> 0
      [] OTHER -> None

\* run_discovery_scan: what is found and differs is taken over.
Scan(f) ==
    /\ Found(f) \notin {None, applied[f]}
    /\ applied' = [applied EXCEPT ![f] = Found(f)]
    /\ UNCHANGED <<fileVars, dialog, broker, commandVars, overtaken, pub>>

-----------------------------------------------------------------------------
DialogActs(d) ==
    Open(d) \/ Save(d) \/ SaveRefused(d) \/ DialogPublish(d) \/ DialogGone(d)

BrokerActs ==
    \/ BrokerStarts \/ BrokerNotices \/ BrokerLoads \/ BrokerDone
    \/ \E f \in Fields : BrokerPublishes(f)

CommandActs(c) == CommandLoads(c) \/ CommandPublishes(c)

Next ==
    \/ EditByHand \/ BrokerActs
    \/ \E c \in Commands : CommandActs(c)
    \/ \E d \in Dialogs : DialogActs(d)
    \/ \E f \in Fields : Scan(f)

Spec == Init /\ [][Next]_vars

\* The broker's loop, the scan, a run of the command line and a dialog that was
\* saved go on by themselves; nobody has to open, save, edit or close anything.
FairSpec ==
    /\ Spec
    /\ WF_vars(BrokerActs)
    /\ \A c \in Commands : WF_vars(CommandActs(c))
    /\ \A f \in Fields : WF_vars(Scan(f))
    /\ \A d \in Dialogs : WF_vars(DialogPublish(d))

-----------------------------------------------------------------------------
\* Every variable keeps its type; what is published is one of the choices and
\* what is applied light or dark, whatever the file says.
TypeOK ==
    /\ file \in [Fields -> 0..3]
    /\ state \in {"fine"} \union Broken /\ mtime \in 0..MaxWrites
    /\ \A d \in Dialogs :
          /\ dialog[d].at \in {"closed", "open", "saved"}
          /\ dialog[d].copy \in [Fields -> 0..2]
          /\ dialog[d].ok \in BOOLEAN /\ dialog[d].opened \in 0..mtime
          /\ dialog[d].left \subseteq Kinds[d].publishes
    /\ broker \in [at : {"starting", "loading", "publishing", "idle"},
                   seen : 0..mtime, copy : [Fields -> 0..2],
                   left : SUBSET Fields, sync : BOOLEAN]
    /\ command \in [Commands -> [at : {"none", "loading", "publishing"},
                                 copy : [Fields -> 0..1], of : 0..mtime]]
    /\ newest \in 0..mtime /\ overtaken \in BOOLEAN
    /\ pub \in [Fields -> 0..2 \union {None}]
    /\ applied \in [Fields -> 0..1]

\* Whoever writes the file, at whatever moment of the broker's publication, and
\* wherever a dialog is killed: in the end the compositor works with what the
\* file says, and with the Host's look when the theme is left to the Host.  It
\* is the run of the command line after a change that sees to that; it may be
\* overtaken by one that has read the next change.
Converges ==
    <>[](mtime > 0 /\ ~overtaken => applied = CommandLoad)

Saves(d) == dialog[d].at = "open" /\ dialog'[d].at = "saved"

\* The Save of this dialog keeps every setting that the dialog does not show,
\* for both readers; but a theme that nobody has chosen becomes the light one.
KeepsRest(d) ==
    \A f \in Fields \ Kinds[d].shows :
        /\ Accepted(file'[f]) = Accepted(file[f])
        /\ \/ f = "theme" /\ file[f] = Unset
           \/ CommandReads(f, file'[f]) = CommandReads(f, file[f])

\* A Save changes what its dialog shows and nothing else, unless the file was
\* written since the dialog opened or cannot be read at all: one line that does
\* not parse, or one wrong type, never costs the settings in the other lines.
SaveKeepsRest ==
    [][ \A d \in Dialogs :
            Saves(d) /\ dialog[d].opened = mtime /\ state # "unreadable"
                => KeepsRest(d) ]_vars
=============================================================================
