--------------------------- MODULE SettingsProofs ---------------------------
(***************************************************************************)
(* What a Save keeps, for any dialogs, any groups of settings and any      *)
(* number of writes.                                                       *)
(***************************************************************************)
EXTENDS Settings, TLAPS

DialogState ==
    [at : {"closed", "open", "saved"}, copy : [Fields -> 0..2], ok : BOOLEAN,
     opened : Nat, left : SUBSET Fields]

BrokerState ==
    [at : {"starting", "loading", "publishing", "idle"}, seen : Nat,
     copy : [Fields -> 0..2], left : SUBSET Fields, sync : BOOLEAN]

CommandState ==
    [at : {"none", "loading", "publishing"}, copy : [Fields -> 0..1], of : Nat]

Pubs == {0, 1, 2, None}

\* TypeOK, with the records as such.
Shapes ==
    /\ file \in [Fields -> 0..3] /\ state \in {"fine"} \union Broken
    /\ mtime \in 0..MaxWrites
    /\ dialog \in [Dialogs -> DialogState]
    /\ broker \in BrokerState
    /\ command \in [Commands -> CommandState]
    /\ newest \in Nat /\ overtaken \in BOOLEAN
    /\ pub \in [Fields -> Pubs]
    /\ applied \in [Fields -> 0..1]

\* What a dialog loaded is older than the file or as old, and what is still to
\* be published of it is the dialog's to publish.
Ages ==
    /\ \A d \in Dialogs :
          /\ dialog[d].opened <= mtime
          /\ dialog[d].left \subseteq Kinds[d].publishes
    /\ broker.seen <= mtime
    /\ newest <= mtime
    /\ \A c \in Commands : command[c].of <= mtime

\* A dialog that may save has what the file says, until somebody writes it; but
\* for a file that cannot be read, which load takes for one that is not there.
Faithful ==
    /\ state = "missing" => file = Blank
    /\ state # "unreadable" =>
          \A d \in Dialogs :
              dialog[d].at = "open" /\ dialog[d].ok /\ dialog[d].opened = mtime =>
                  \A f \in Fields : dialog[d].copy[f] = Accepted(file[f])

Inv == Shapes /\ Ages /\ Faithful

\* What load gives is acceptable, whatever the file says.
LEMMA LoadType == Shapes => Load \in [Fields -> 0..2]
BY DEF Shapes, Load, Accepted, Default, Unset

\* What the command line publishes is light or dark, and so for the others.
LEMMA CommandLoadType ==
    Shapes => CommandLoad \in [Fields -> 0..1]
BY SettingsAssumption
DEF SettingsAssumption, Shapes, CommandLoad, Resolved, CommandReads, AsHost, Unset

\* Each dialog shows and publishes groups that there are.
LEMMA KindsType ==
    \A d \in Dialogs :
        Kinds[d].shows \subseteq Fields /\ Kinds[d].publishes \subseteq Fields
BY SettingsAssumption DEF SettingsAssumption

\* A Save writes the dialog's copy with one setting that the dialog shows changed.
LEMMA SavesCopy ==
    \A d \in Dialogs :
        Save(d) => \E f \in Kinds[d].shows : \E v \in 0..2 :
                      SavedAs(d, [dialog[d].copy EXCEPT ![f] = v])
<1> SUFFICES ASSUME NEW d \in Dialogs, Save(d)
             PROVE  \E f \in Kinds[d].shows : \E v \in 0..2 :
                        SavedAs(d, [dialog[d].copy EXCEPT ![f] = v])
  OBVIOUS
<1>1. PICK f \in Kinds[d].shows :
         \E v \in Choices(f) : SavedAs(d, [dialog[d].copy EXCEPT ![f] = v])
  BY Zenon DEF Save
<1>2. PICK v \in Choices(f) : SavedAs(d, [dialog[d].copy EXCEPT ![f] = v])
  BY <1>1
<1>3. v \in 0..2
  BY <1>2 DEF Choices, AsHost
<1> QED
  BY <1>2, <1>3

LEMMA InvInit == Init => Inv
<1> SUFFICES ASSUME Init PROVE Inv
  OBVIOUS
<1>1. /\ Default \in [Fields -> 0..1] /\ Default \in [Fields -> 0..2]
      /\ file \in [Fields -> 0..3]
  BY DEF Default, Init, Blank, Unset, AsHost
<1>2. Shapes
  <2>1. dialog \in [Dialogs -> DialogState]
    BY <1>1 DEF Init, Closed, DialogState
  <2>2. broker \in BrokerState
    BY <1>1 DEF Init, BrokerState
  <2>3. pub \in [Fields -> Pubs]
    BY DEF Init, Pubs
  <2>5. command \in [Commands -> CommandState]
    <3>1. NoCommand \in CommandState
          /\ [NoCommand EXCEPT !.at = "loading"] \in CommandState
      BY <1>1 DEF NoCommand, CommandState
    <3> HIDE DEF NoCommand
    <3> QED
      BY <3>1 DEF Init
  <2>4. mtime \in 0..MaxWrites
    BY SettingsAssumption DEF SettingsAssumption, Init
  <2> QED
    BY <1>1, <2>1, <2>2, <2>3, <2>4, <2>5 DEF Init, Shapes
<1>3. Ages
  <2>1. NoCommand.of = 0 /\ [NoCommand EXCEPT !.at = "loading"].of = 0
    BY DEF NoCommand
  <2>2. \A c \in Commands : command[c].of = 0
    BY <2>1 DEF Init
  <2> QED
    BY <2>2 DEF Init, Closed, Ages
<1>4. Faithful
  BY DEF Init, Closed, Faithful
<1> QED
  BY <1>2, <1>3, <1>4 DEF Inv

\* A step that leaves the file alone and changes one dialog.
LEMMA DialogStep ==
    ASSUME Inv, NEW d \in Dialogs, NEW state1 \in DialogState,
           dialog' = [dialog EXCEPT ![d] = state1],
           state1.opened <= mtime, state1.left \subseteq Kinds[d].publishes,
           state # "unreadable" /\ state1.at = "open" /\ state1.ok
               /\ state1.opened = mtime =>
               \A f \in Fields : state1.copy[f] = Accepted(file[f]),
           UNCHANGED <<fileVars, broker, commandVars, applied>>,
           overtaken' \in BOOLEAN, pub' \in [Fields -> Pubs]
    PROVE  Inv'
<1>1. dialog' \in [Dialogs -> DialogState] /\ dialog'[d] = state1
  BY DEF Inv, Shapes
<1>2. \A e \in Dialogs : e # d => dialog'[e] = dialog[e]
  BY DEF Inv, Shapes
<1>3. Shapes'
  BY <1>1 DEF Inv, Shapes, fileVars, commandVars
<1>4. Ages'
  BY <1>1, <1>2 DEF Inv, Ages, fileVars, commandVars
<1>5. Faithful'
  BY <1>1, <1>2 DEF Inv, Faithful, fileVars, Accepted
<1> QED
  BY <1>3, <1>4, <1>5 DEF Inv

\* A write makes every copy that a dialog has loaded an old one.
LEMMA WriteStep ==
    ASSUME Inv, mtime < MaxWrites, mtime' = mtime + 1, file' \in [Fields -> 0..3],
           state' \in {"fine"} \union Broken,
           state' = "missing" => file' = Blank,
           dialog' \in [Dialogs -> DialogState],
           \A e \in Dialogs : /\ dialog'[e].opened = dialog[e].opened
                              /\ dialog'[e].left \subseteq Kinds[e].publishes,
           UNCHANGED <<broker, commandVars, overtaken, pub, applied>>
    PROVE  Inv'
<1> USE SettingsAssumption DEF SettingsAssumption
<1>1. Shapes'
  BY DEF Inv, Shapes, commandVars
<1>2. \A e \in Dialogs : dialog[e].opened \in Nat
  BY DEF Inv, Shapes, DialogState
<1>3. mtime \in Nat /\ broker.seen \in Nat /\ newest \in Nat
      /\ \A c \in Commands : command[c].of \in Nat
  BY DEF Inv, Shapes, BrokerState, CommandState
<1>4. Ages'
  BY <1>2, <1>3 DEF Inv, Ages, commandVars
<1>5. Faithful'
  BY <1>2, <1>3 DEF Inv, Ages, Faithful
<1> QED
  BY <1>1, <1>4, <1>5 DEF Inv

LEMMA InvStep == ASSUME Inv, [Next]_vars PROVE Inv'
<1> USE SettingsAssumption DEF SettingsAssumption
<1>1. CASE EditByHand
  <2>1. file' \in [Fields -> 0..3]
    BY <1>1 DEF EditByHand, Write, Inv, Shapes, Blank, Choices, AsHost, Unset
  <2>2. state' \in {"fine"} \union Broken /\ (state' = "missing" => file' = Blank)
    BY <1>1 DEF EditByHand, Write
  <2>3. /\ mtime < MaxWrites /\ mtime' = mtime + 1
        /\ UNCHANGED <<dialog, broker, commandVars, overtaken, pub, applied>>
    BY <1>1 DEF EditByHand, Write, MayWrite
  <2> QED
    BY <2>1, <2>2, <2>3, WriteStep DEF Inv, Shapes, Ages
<1>2. ASSUME NEW d \in Dialogs, Open(d) PROVE Inv'
  <2> DEFINE opened == [at |-> "open", copy |-> Load, ok |-> LoadedOk,
                        opened |-> mtime, left |-> {}]
  <2>1. opened \in DialogState
    BY LoadType DEF Inv, Shapes, DialogState, LoadedOk
  <2>2. state # "unreadable" /\ opened.ok =>
            \A f \in Fields : opened.copy[f] = Accepted(file[f])
    <3> SUFFICES ASSUME state # "unreadable", opened.ok
                 PROVE  \A f \in Fields : opened.copy[f] = Accepted(file[f])
      OBVIOUS
    <3>1. CASE state = "fine"
      BY <3>1 DEF Load
    <3>2. CASE state = "missing"
      BY <3>2 DEF Load, Inv, Faithful, Default, Blank, Accepted
    <3>3. CASE state \in {"malformed", "mistyped"}
      BY <3>3 DEF LoadedOk
    <3> QED
      BY <3>1, <3>2, <3>3 DEF Inv, Shapes
  <2>3. opened.opened <= mtime /\ opened.left = {}
    BY DEF Inv, Shapes
  <2>4. dialog' = [dialog EXCEPT ![d] = opened]
        /\ UNCHANGED <<fileVars, broker, commandVars, overtaken, pub, applied>>
    BY <1>2 DEF Open
  <2>5. overtaken' \in BOOLEAN /\ pub' \in [Fields -> Pubs]
    BY <2>4 DEF Inv, Shapes
  <2> HIDE DEF opened
  <2> QED
    BY <2>1, <2>2, <2>3, <2>4, <2>5, DialogStep
<1>3. ASSUME NEW d \in Dialogs, Save(d) PROVE Inv'
  <2>0. PICK f \in Kinds[d].shows :
           \E v \in 0..2 : SavedAs(d, [dialog[d].copy EXCEPT ![f] = v])
    BY <1>3, SavesCopy, Zenon
  <2>1. PICK v \in 0..2 : SavedAs(d, [dialog[d].copy EXCEPT ![f] = v])
    BY <2>0
  <2> DEFINE copy == [dialog[d].copy EXCEPT ![f] = v]
  <2>2. dialog[d] \in DialogState
    BY DEF Inv, Shapes
  <2>3. copy \in [Fields -> 0..2]
    BY <2>2 DEF DialogState, Choices, AsHost
  <2>4. copy \in [Fields -> 0..3]
    BY <2>3
  <2>5. dialog' = [dialog EXCEPT ![d] = [dialog[d] EXCEPT !.at = "saved",
                       !.copy = copy, !.left = Kinds[d].publishes]]
    BY <2>1 DEF SavedAs, Inv, Shapes
  <2>6. [dialog[d] EXCEPT !.at = "saved", !.copy = copy,
                          !.left = Kinds[d].publishes] \in DialogState
    BY <2>2, <2>3, KindsType DEF DialogState
  <2>7. dialog' \in [Dialogs -> DialogState]
    BY <2>5, <2>6 DEF Inv, Shapes
  <2>8. \A e \in Dialogs : /\ dialog'[e].opened = dialog[e].opened
                           /\ dialog'[e].left \subseteq Kinds[e].publishes
    BY <2>2, <2>5 DEF Inv, Shapes, Ages, DialogState
  <2> QED
    BY <1>3, <2>1, <2>4, <2>7, <2>8, WriteStep DEF Save, SavedAs, Write, MayWrite
<1>4. ASSUME NEW d \in Dialogs, SaveRefused(d) \/ DialogGone(d) PROVE Inv'
  <2>1. Closed \in DialogState
    BY DEF Closed, DialogState, Default
  <2>2. /\ dialog' = [dialog EXCEPT ![d] = Closed]
        /\ UNCHANGED <<fileVars, broker, commandVars, overtaken, pub, applied>>
    BY <1>4 DEF SaveRefused, DialogGone
  <2>3. Closed.opened <= mtime /\ Closed.left = {} /\ Closed.at = "closed"
    BY DEF Closed, Inv, Shapes
  <2> QED
    BY <2>1, <2>2, <2>3, DialogStep DEF Inv, Shapes
<1>5. ASSUME NEW d \in Dialogs, DialogPublish(d) PROVE Inv'
  <2>1. CASE dialog[d].left = {}
    <3>1. Closed \in DialogState
      BY DEF Closed, DialogState, Default
    <3>2. Closed.opened <= mtime /\ Closed.left = {} /\ Closed.at = "closed"
      BY DEF Closed, Inv, Shapes
    <3> QED
      BY <1>5, <2>1, <3>1, <3>2, DialogStep DEF DialogPublish, Inv, Shapes
  <2>2. CASE dialog[d].left # {}
    <3>1. PICK f \in dialog[d].left :
             /\ pub' = [pub EXCEPT ![f] = dialog[d].copy[f]]
             /\ overtaken' = (overtaken \/ newest = mtime)
             /\ dialog' = [dialog EXCEPT ![d].left = @ \ {f}]
      BY <1>5, <2>2 DEF DialogPublish
    <3> DEFINE rest == [dialog[d] EXCEPT !.left = @ \ {f}]
    <3>2. dialog[d] \in DialogState
      BY DEF Inv, Shapes
    <3>3. rest \in DialogState /\ rest.at = "saved" /\ rest.opened = dialog[d].opened
          /\ rest.left \subseteq Kinds[d].publishes
      BY <1>5, <3>2 DEF DialogState, DialogPublish, Inv, Ages
    <3>4. dialog' = [dialog EXCEPT ![d] = rest]
      BY <3>1 DEF Inv, Shapes
    <3>5. pub' \in [Fields -> Pubs]
      BY <3>1, <3>2 DEF Inv, Shapes, DialogState, Pubs
    <3>6. overtaken' \in BOOLEAN
      BY <3>1 DEF Inv, Shapes
    <3> HIDE DEF rest
    <3> QED
      BY <1>5, <3>3, <3>4, <3>5, <3>6, DialogStep DEF DialogPublish, Inv, Ages
  <2> QED
    BY <2>1, <2>2
<1>6. CASE BrokerActs
  <2> USE DEF BrokerActs, BrokerStarts, BrokerNotices, BrokerLoads, BrokerDone,
              BrokerPublishes, Published
  <2>1. UNCHANGED <<fileVars, dialog, newest, overtaken, applied>>
    BY <1>6 DEF commandVars
  <2>2. broker' \in BrokerState /\ broker'.seen <= mtime
    <3>0. broker \in BrokerState /\ broker.seen <= mtime /\ mtime \in Nat
      BY DEF Inv, Shapes, Ages
    <3> USE <3>0 DEF BrokerState
    <3>1. CASE BrokerStarts
      BY <3>1
    <3>2. CASE BrokerNotices
      <4>1. broker' = [broker EXCEPT !.at = "loading", !.seen = mtime, !.sync = TRUE]
        BY <3>2
      <4>2. broker'.seen = mtime /\ broker' \in BrokerState
        BY <4>1
      <4> QED
        BY <4>2
    <3>3. CASE BrokerLoads
      BY <3>3, LoadType DEF Inv
    <3>5. CASE BrokerDone
      <4>1. Default \in [Fields -> 0..2]
        BY DEF Default
      <4> QED
        BY <3>5, <4>1
    <3>4. ASSUME NEW f \in Fields, BrokerPublishes(f)
          PROVE  broker' \in BrokerState /\ broker'.seen <= mtime
      BY <3>4
    <3> QED
      BY <1>6, <3>1, <3>2, <3>3, <3>4, <3>5
  <2>3. pub' \in [Fields -> Pubs]
    BY <1>6 DEF Inv, Shapes, BrokerState, Pubs
  <2>4. command' = command \/ \E c \in Commands : Runs(c)
    BY <1>6 DEF commandVars
  <2>5. /\ command' \in [Commands -> CommandState]
        /\ \A c \in Commands : command'[c].of = command[c].of
    <3>1. CASE command' = command
      BY <3>1 DEF Inv, Shapes
    <3>2. ASSUME NEW c \in Commands, Runs(c)
          PROVE  /\ command' \in [Commands -> CommandState]
                 /\ \A e \in Commands : command'[e].of = command[e].of
      BY <3>2 DEF Runs, Inv, Shapes, CommandState
    <3> QED
      BY <2>4, <3>1, <3>2
  <2> QED
    BY <2>1, <2>2, <2>3, <2>5 DEF Inv, Shapes, Ages, Faithful, fileVars, Accepted
<1>9. ASSUME NEW c \in Commands, CommandActs(c) PROVE Inv'
  <2>1. UNCHANGED <<fileVars, dialog, broker, applied>>
    BY <1>9 DEF CommandActs, CommandLoads, CommandPublishes
  <2>2. mtime \in Nat /\ command[c] \in CommandState /\ command[c].of <= mtime
        /\ newest \in Nat /\ newest <= mtime
    BY DEF Inv, Shapes, Ages
  <2>3. PICK state1 \in CommandState :
           command' = [command EXCEPT ![c] = state1] /\ state1.of <= mtime
    <3>1. CASE CommandLoads(c)
      <4> DEFINE loaded == [at |-> "publishing", copy |-> CommandLoad, of |-> mtime]
      <4>1. loaded \in CommandState /\ loaded.of <= mtime
        BY <2>2, CommandLoadType DEF CommandState, Inv
      <4> QED
        BY <3>1, <4>1 DEF CommandLoads
    <3>2. CASE CommandPublishes(c)
      <4>1. NoCommand \in CommandState /\ NoCommand.of <= mtime
        BY <2>2 DEF NoCommand, CommandState, Default
      <4> QED
        BY <3>2, <4>1 DEF CommandPublishes
    <3> QED
      BY <1>9, <3>1, <3>2 DEF CommandActs
  <2>4. command' \in [Commands -> CommandState] /\ \A e \in Commands : command'[e].of <= mtime
    BY <2>3 DEF Inv, Shapes, Ages
  <2>5. newest' \in Nat /\ newest' <= mtime /\ overtaken' \in BOOLEAN
    <3>1. command[c].of \in Nat
      BY <2>2 DEF CommandState
    <3>2. newest' \in {newest, command[c].of}
      BY <1>9 DEF CommandActs, CommandLoads, CommandPublishes
    <3>3. overtaken' = overtaken \/ overtaken' = (overtaken \/ command[c].of < newest)
      BY <1>9 DEF CommandActs, CommandLoads, CommandPublishes
    <3>4. overtaken' \in BOOLEAN
      BY <3>3 DEF Inv, Shapes
    <3> QED
      BY <2>2, <3>1, <3>2, <3>4
  <2>6. pub' \in [Fields -> Pubs]
    BY <1>9, <2>2 DEF CommandActs, CommandLoads, CommandPublishes, CommandState,
                      Pubs, Inv, Shapes
  <2> QED
    BY <2>1, <2>4, <2>5, <2>6 DEF Inv, Shapes, Ages, Faithful, fileVars, Accepted
<1>7. ASSUME NEW f \in Fields, Scan(f) PROVE Inv'
  <2>1. Found(f) \in {0, 1, None}
    BY DEF Found, Inv, Shapes, Pubs, AsHost
  <2>2. applied' \in [Fields -> 0..1]
    BY <1>7, <2>1 DEF Scan, Inv, Shapes
  <2> QED
    BY <1>7, <2>2
       DEF Scan, fileVars, commandVars, Inv, Shapes, Ages, Faithful, Accepted
<1>8. CASE UNCHANGED vars
  BY <1>8 DEF vars, fileVars, commandVars, Inv, Shapes, Ages, Faithful, Accepted
<1> QED
  BY <1>1, <1>2, <1>3, <1>4, <1>5, <1>6, <1>7, <1>8, <1>9
  DEF Next, DialogActs

LEMMA Invariant == Spec => []Inv
<1>1. Inv /\ [Next]_vars => Inv'
  BY InvStep
<1> QED
  BY <1>1, InvInit, PTL DEF Spec

\* Every variable keeps its type: whatever the file says, what is published and
\* applied is acceptable (load, publish_apps, run_discovery_scan).
THEOREM SettingsTypes == Spec => []TypeOK
<1>1. Inv => TypeOK
  <2> SUFFICES ASSUME Inv PROVE TypeOK
    OBVIOUS
  <2> USE SettingsAssumption DEF SettingsAssumption, Inv, Shapes, Ages
  <2>1. mtime \in Nat /\ mtime <= MaxWrites
    OBVIOUS
  <2>2. \A d \in Dialogs :
          /\ dialog[d].at \in {"closed", "open", "saved"}
          /\ dialog[d].copy \in [Fields -> 0..2]
          /\ dialog[d].ok \in BOOLEAN /\ dialog[d].opened \in 0..mtime
          /\ dialog[d].left \subseteq Kinds[d].publishes
    <3> TAKE d \in Dialogs
    <3>1. dialog[d] \in DialogState
      OBVIOUS
    <3> QED
      BY <2>1, <3>1 DEF DialogState
  <2>3. broker \in [at : {"starting", "loading", "publishing", "idle"},
                    seen : 0..mtime, copy : [Fields -> 0..2],
                    left : SUBSET Fields, sync : BOOLEAN]
    BY <2>1 DEF BrokerState
  <2>4. command \in [Commands -> [at : {"none", "loading", "publishing"},
                                  copy : [Fields -> 0..1], of : 0..mtime]]
    BY <2>1 DEF CommandState
  <2>5. newest \in 0..mtime
    BY <2>1
  <2>6. pub \in [Fields -> 0..2 \union {None}]
    BY DEF Pubs
  <2> QED
    BY <2>2, <2>3, <2>4, <2>5, <2>6 DEF TypeOK
<1> QED
  BY <1>1, Invariant, PTL

\* A Save changes what its dialog shows and nothing else, unless the file was
\* written since the dialog opened or cannot be read at all (save, loaded_ok).
THEOREM SavesKeepTheRest == Spec => SaveKeepsRest
<1> DEFINE Keeps ==
      \A d \in Dialogs :
          Saves(d) /\ dialog[d].opened = mtime /\ state # "unreadable"
              => KeepsRest(d)
<1>1. ASSUME Inv, [Next]_vars PROVE [Keeps]_vars
  <2> SUFFICES ASSUME NEW d \in Dialogs, Saves(d), dialog[d].opened = mtime,
                      state # "unreadable"
               PROVE  KeepsRest(d)
    OBVIOUS
  <2> USE <1>1
  <2>1. Save(d)
    <3>1. \A e \in Dialogs \ {d} : ~DialogActs(e)
      <4> SUFFICES ASSUME NEW e \in Dialogs \ {d}, DialogActs(e) PROVE FALSE
        OBVIOUS
      <4>1. dialog'[d] = dialog[d]
        <5>1. Open(e) \/ SaveRefused(e) \/ DialogGone(e) => dialog'[d] = dialog[d]
          BY DEF Open, SaveRefused, DialogGone, Inv, Shapes
        <5>2. DialogPublish(e) => dialog'[d] = dialog[d]
          BY DEF DialogPublish, Inv, Shapes
        <5>3. Save(e) => dialog'[d] = dialog[d]
          <6>1. \A copy : SavedAs(e, copy) => dialog'[d] = dialog[d]
            BY DEF SavedAs, Inv, Shapes
          <6> QED
            BY <6>1, SavesCopy, Zenon
        <5> QED
          BY <5>1, <5>2, <5>3 DEF DialogActs
      <4> QED
        BY <4>1 DEF Saves
    <3>2. dialog' # dialog
      BY DEF Saves
    <3>3. /\ ~EditByHand /\ ~BrokerActs /\ ~(\E f \in Fields : Scan(f))
          /\ ~(\E c \in Commands : CommandActs(c))
      <4>1. EditByHand => dialog' = dialog
        BY DEF EditByHand
      <4>2. BrokerActs => dialog' = dialog
        BY DEF BrokerActs, BrokerStarts, BrokerNotices, BrokerLoads, BrokerDone,
               BrokerPublishes
      <4>3. \A c \in Commands : CommandActs(c) => dialog' = dialog
        BY DEF CommandActs, CommandLoads, CommandPublishes
      <4>4. \A f \in Fields : Scan(f) => dialog' = dialog
        BY DEF Scan
      <4> QED
        BY <3>2, <4>1, <4>2, <4>3, <4>4
    <3>4. DialogActs(d)
      BY <3>1, <3>2, <3>3 DEF Next, vars
    <3>5. ~Open(d) /\ ~DialogPublish(d)
      BY DEF Saves, Open, DialogPublish
    <3>6. ~SaveRefused(d) /\ ~DialogGone(d)
      <4>1. dialog' = [dialog EXCEPT ![d] = Closed] => dialog'[d].at = "closed"
        BY DEF Inv, Shapes, Closed
      <4> QED
        BY <4>1 DEF Saves, SaveRefused, DialogGone
    <3> QED
      BY <3>4, <3>5, <3>6 DEF DialogActs
  <2>0. PICK f \in Kinds[d].shows :
           \E v \in 0..2 : SavedAs(d, [dialog[d].copy EXCEPT ![f] = v])
    BY <2>1, SavesCopy, Zenon
  <2>2. PICK v \in 0..2 : file' = [dialog[d].copy EXCEPT ![f] = v]
    BY <2>0 DEF SavedAs, Write
  <2>3. \A g \in Fields \ Kinds[d].shows : file'[g] = Accepted(file[g])
    <3>1. dialog[d].at = "open" /\ dialog[d].ok /\ dialog[d] \in DialogState
      BY <2>1 DEF Save, Saveable, Inv, Shapes
    <3>2. \A g \in Fields : dialog[d].copy[g] = Accepted(file[g])
      BY <3>1 DEF Inv, Faithful
    <3>3. DOMAIN dialog[d].copy = Fields
      BY <3>1 DEF DialogState
    <3> HIDE DEF Accepted
    <3> QED
      BY <2>2, <3>2, <3>3
  <2>4. \A g \in Fields :
           /\ Accepted(Accepted(file[g])) = Accepted(file[g])
           /\ \/ g = "theme" /\ file[g] = Unset
              \/ CommandReads(g, Accepted(file[g])) = CommandReads(g, file[g])
    BY DEF Accepted, CommandReads, Unset
  <2> QED
    BY <2>3, <2>4 DEF KeepsRest
<1>2. Spec => [][Keeps]_vars
  BY <1>1, Invariant, PTL DEF Spec
<1> QED
  BY <1>2 DEF SaveKeepsRest
=============================================================================
