--------------------------- MODULE HostClipProofs ---------------------------
(***************************************************************************)
(* No text of the sandbox is forgotten on the host's clipboard, the exit   *)
(* leaves none there, and a paste does not outlive its volumes: for any    *)
(* number of copies, of commands in the channel and of drain threads, and  *)
(* whatever the host does.                                                 *)
(*                                                                         *)
(* The argument follows a copied text.  It is in one place at a time, so a *)
(* Cancelled event under way is never about the text that the clipboard    *)
(* has or is about to have, and the worker never disowns that one.         *)
(***************************************************************************)
EXTENDS HostClip, SequenceTheorems, FiniteSetTheorems, TLAPS

CmdMsg == [op : {"store", "load", "policy", "exit"}, arg : Nat]
HostMsg == [op : {"set", "unset", "unsetPrimary"}, arg : Nat]

\* The texts that messages of one kind are about.
Args(s, op) == {s[i].arg : i \in {j \in DOMAIN s : s[j].op = op}}

\* No two messages of this kind are about the same text.
Distinct(s, op) ==
    \A i, j \in DOMAIN s :
        s[i].op = op /\ s[j].op = op /\ s[i].arg = s[j].arg => i = j

\* No text is cancelled twice.
Once(s) == \A i, j \in DOMAIN s : s[i] = s[j] => i = j

\* Where the name of a copied text may be: with its drain thread, as a command,
\* as a request, in a Cancelled event, or on the clipboard.
Stores == Args(cmds, "store")
Sets == Args(toHost, "set")
Cancelled == {fromHost[i] : i \in DOMAIN fromHost}

\* The types, with the channels as sequences.
LoopTypes ==
    /\ main \in {"run", "pasting", "clearing", "winding", "dropped", "abandoned"}
    /\ clip \in {"none", "this", "earlier"}
    /\ volumes \in {"none", "open", "closed"}
    /\ {published, applied} \subseteq BOOLEAN
    /\ pullers \subseteq Copies /\ Cardinality(pullers) <= MaxPullers

WorkTypes ==
    /\ {owns, enabled, armed, exiting, asked} \subseteq BOOLEAN
    /\ pc \in {"loop", "loading", "reading", "planning", "flushing", "acked",
               "stopped"}
    /\ {source, serve, pushed, wiping} \subseteq Copies \union {None}

WireTypes ==
    /\ cmds \in Seq(CmdMsg) /\ toHost \in Seq(HostMsg) /\ fromHost \in Seq(Copies)

HostTypes ==
    /\ host \in {"up", "hung", "lost"}
    /\ sel \in Copies \union {None, Foreign} /\ prim \in Copies \union {None}
    /\ copies \in 0..MaxCopies

TypeInv == LoopTypes /\ WorkTypes /\ WireTypes /\ HostTypes

\* A text is stored once, set once, and cancelled once.
Single ==
    /\ Distinct(cmds, "store") /\ Distinct(toHost, "set") /\ Once(fromHost)

\* Each copied text is in one place at most.
Apart ==
    /\ pullers \intersect Stores = {}
    /\ (pullers \union Stores) \intersect (Sets \union Cancelled) = {}
    /\ Sets \intersect Cancelled = {}
    /\ sel \notin pullers \union Stores \union Sets \union Cancelled

\* Only what was copied has a name.
Named ==
    /\ pullers \union Stores \union Sets \union Cancelled \subseteq 1..copies
    /\ sel \in Copies => sel \in 1..copies

Tokens == Single /\ Apart /\ Named

\* What the worker knows of its own text, phase by phase.
Worked ==
    /\ owns <=> source # None
    /\ owns /\ pc \notin {"reading", "planning"} => pushed # None
    /\ owns /\ pushed # None /\ enabled /\ pc # "stopped" => armed
    /\ pc \in {"reading", "planning", "flushing", "acked"} => pushed = None
    /\ pc \in {"flushing", "acked"} => ~owns
    /\ pc = "stopped" /\ host # "lost" => pushed = None /\ ~owns
    /\ main \in {"dropped", "abandoned"} => pc = "stopped"

\* The last request about the clipboard that is under way.
Final(s, i) ==
    /\ i \in DOMAIN s /\ s[i].op # "unsetPrimary"
    /\ \A j \in DOMAIN s : j > i => s[j].op = "unsetPrimary"

\* The source is the text that the host has or, once the requests under way have
\* arrived, will have.
Traced ==
    main # "abandoned" =>
        /\ \A i \in DOMAIN toHost :
              Final(toHost, i) /\ toHost[i].op = "set" => source = toHost[i].arg
        /\ sel \in Copies /\ ~Changing => source = sel

\* A text of volumes that are gone is only kept until the next scan.
Scanned == clip = "earlier" => volumes = "closed"

Inv == TypeInv /\ Tokens /\ Worked /\ Traced /\ Scanned

-----------------------------------------------------------------------------
(* Channels: what is added at the end, what is taken from the front.       *)

LEMMA ArgsAppend ==
    ASSUME NEW M, NEW s \in Seq(M), NEW m \in M, NEW op
    PROVE  /\ m.op = op => Args(Append(s, m), op) = Args(s, op) \union {m.arg}
           /\ m.op # op => Args(Append(s, m), op) = Args(s, op)
<1>1. /\ DOMAIN Append(s, m) = 1..Len(s) + 1 /\ DOMAIN s = 1..Len(s)
      /\ Len(s) \in Nat
      /\ \A i \in 1..Len(s) : Append(s, m)[i] = s[i]
      /\ Append(s, m)[Len(s) + 1] = m
  BY AppendProperties, LenProperties
<1> DEFINE t == Append(s, m)
<1> HIDE DEF t
<1> QED
  BY <1>1 DEF Args, t

LEMMA DistinctAppend ==
    ASSUME NEW M, NEW s \in Seq(M), NEW m \in M, NEW op, Distinct(s, op),
           m.op = op => m.arg \notin Args(s, op)
    PROVE  Distinct(Append(s, m), op)
<1>1. /\ DOMAIN Append(s, m) = 1..Len(s) + 1 /\ DOMAIN s = 1..Len(s)
      /\ Len(s) \in Nat
      /\ \A i \in 1..Len(s) : Append(s, m)[i] = s[i]
      /\ Append(s, m)[Len(s) + 1] = m
  BY AppendProperties, LenProperties
<1> DEFINE t == Append(s, m)
<1> HIDE DEF t
<1> QED
  BY <1>1 DEF Args, Distinct, t

LEMMA TailIs ==
    ASSUME NEW M, NEW s \in Seq(M), s # <<>>
    PROVE  /\ Tail(s) \in Seq(M) /\ Head(s) = s[1] /\ s[1] \in M
           /\ Len(s) \in Nat \ {0} /\ DOMAIN s = 1..Len(s)
           /\ DOMAIN Tail(s) = 1..(Len(s) - 1)
           /\ \A i \in DOMAIN Tail(s) : Tail(s)[i] = s[i + 1]
BY HeadTailProperties, LenProperties, EmptySeq

LEMMA ArgsTail ==
    ASSUME NEW M, NEW s \in Seq(M), s # <<>>, NEW op
    PROVE  /\ Args(Tail(s), op) \subseteq Args(s, op)
           /\ Head(s).op = op => Head(s).arg \in Args(s, op)
           /\ Head(s).op # op => Args(Tail(s), op) = Args(s, op)
           /\ Distinct(s, op) => Distinct(Tail(s), op)
           /\ Distinct(s, op) /\ Head(s).op = op =>
                  Head(s).arg \notin Args(Tail(s), op)
<1> DEFINE t == Tail(s)
<1>1. /\ Len(s) \in Nat \ {0} /\ DOMAIN s = 1..Len(s)
      /\ DOMAIN t = 1..(Len(s) - 1) /\ Head(s) = s[1]
      /\ \A i \in DOMAIN t : t[i] = s[i + 1]
  BY TailIs
<1>2. \A i \in DOMAIN t : i + 1 \in DOMAIN s /\ i + 1 # 1
  BY <1>1
<1>3. \A i \in DOMAIN s : i = 1 \/ (i - 1 \in DOMAIN t /\ t[i - 1] = s[i])
  BY <1>1
<1>4. 1 \in DOMAIN s
  BY <1>1
<1> HIDE DEF t
<1>5. Args(t, op) \subseteq Args(s, op)
  BY <1>1, <1>2 DEF Args
<1>6. Head(s).op = op => Head(s).arg \in Args(s, op)
  BY <1>1, <1>4 DEF Args
<1>7. Head(s).op # op => Args(s, op) \subseteq Args(t, op)
  BY <1>1, <1>3 DEF Args
<1>8. ASSUME Distinct(s, op) PROVE Distinct(t, op)
  <2>1. ASSUME NEW i \in DOMAIN t, NEW j \in DOMAIN t,
               t[i].op = op, t[j].op = op, t[i].arg = t[j].arg
        PROVE  i = j
    <3>1. i + 1 = j + 1
      BY <1>1, <1>2, <1>8, <2>1 DEF Distinct
    <3> QED
      BY <3>1, <1>1
  <2> QED
    BY <2>1 DEF Distinct
<1>9. ASSUME Distinct(s, op), Head(s).op = op
      PROVE  Head(s).arg \notin Args(t, op)
  BY <1>1, <1>2, <1>4, <1>9 DEF Args, Distinct
<1> QED
  BY <1>5, <1>6, <1>7, <1>8, <1>9 DEF t

\* The same for the events, which carry nothing but the text.
LEMMA EventAppend ==
    ASSUME NEW s \in Seq(Copies), NEW c \in Copies
    PROVE  /\ Append(s, c) \in Seq(Copies)
           /\ {Append(s, c)[i] : i \in DOMAIN Append(s, c)}
                  = {s[i] : i \in DOMAIN s} \union {c}
           /\ Once(s) /\ c \notin {s[i] : i \in DOMAIN s} => Once(Append(s, c))
<1> DEFINE t == Append(s, c)
<1>1. /\ t \in Seq(Copies)
      /\ DOMAIN t = 1..Len(s) + 1 /\ DOMAIN s = 1..Len(s)
      /\ Len(s) \in Nat
      /\ \A i \in 1..Len(s) : t[i] = s[i]
      /\ t[Len(s) + 1] = c
  BY AppendProperties, LenProperties
<1> HIDE DEF t
<1>2. {t[i] : i \in DOMAIN t} = {s[i] : i \in DOMAIN s} \union {c}
  BY <1>1
<1>3. Once(s) /\ c \notin {s[i] : i \in DOMAIN s} => Once(t)
  BY <1>1 DEF Once
<1> QED
  BY <1>1, <1>2, <1>3 DEF t

LEMMA EventTail ==
    ASSUME NEW s \in Seq(Copies), s # <<>>
    PROVE  /\ {Tail(s)[i] : i \in DOMAIN Tail(s)} \subseteq {s[i] : i \in DOMAIN s}
           /\ Head(s) \in {s[i] : i \in DOMAIN s}
           /\ Once(s) => Once(Tail(s))
<1> DEFINE t == Tail(s)
<1>1. /\ Len(s) \in Nat \ {0} /\ DOMAIN s = 1..Len(s)
      /\ DOMAIN t = 1..(Len(s) - 1) /\ Head(s) = s[1]
      /\ \A i \in DOMAIN t : t[i] = s[i + 1]
  BY TailIs
<1>2. 1 \in DOMAIN s /\ \A i \in DOMAIN t : i + 1 \in DOMAIN s
  BY <1>1
<1> HIDE DEF t
<1>3. Once(s) => Once(t)
  BY <1>1, <1>2 DEF Once
<1> QED
  BY <1>1, <1>2, <1>3 DEF t

\* The last request about the clipboard, after one more and after the first one.
LEMMA FinalAppend ==
    ASSUME NEW s \in Seq(HostMsg), NEW m \in HostMsg,
           NEW i, Final(Append(s, m), i)
    PROVE  /\ m.op # "unsetPrimary" => Append(s, m)[i] = m
           /\ m.op = "unsetPrimary" => Final(s, i) /\ Append(s, m)[i] = s[i]
<1> DEFINE t == Append(s, m)
<1>1. /\ DOMAIN t = 1..Len(s) + 1 /\ DOMAIN s = 1..Len(s)
      /\ Len(s) \in Nat
      /\ \A k \in 1..Len(s) : t[k] = s[k]
      /\ t[Len(s) + 1] = m
  BY AppendProperties, LenProperties
<1>2. Final(t, i)
  OBVIOUS
<1> HIDE DEF t
<1>3. CASE m.op # "unsetPrimary"
  BY <1>1, <1>2, <1>3 DEF Final, t
<1>4. CASE m.op = "unsetPrimary"
  <2>1. i \in DOMAIN s /\ t[i] = s[i]
    BY <1>1, <1>2, <1>4 DEF Final
  <2>2. Final(s, i)
    BY <1>1, <1>2, <2>1 DEF Final
  <2> QED
    BY <1>4, <2>1, <2>2 DEF t
<1> QED
  BY <1>3, <1>4

LEMMA FinalTail ==
    ASSUME NEW s \in Seq(HostMsg), s # <<>>
    PROVE  /\ \A i : Final(Tail(s), i) =>
                         /\ i + 1 \in DOMAIN s /\ Final(s, i + 1)
                         /\ Tail(s)[i] = s[i + 1]
           /\ Head(s) = s[1] /\ 1 \in DOMAIN s
           /\ Head(s).op # "unsetPrimary"
              /\ (\A j \in DOMAIN Tail(s) : Tail(s)[j].op = "unsetPrimary") =>
                  Final(s, 1)
<1> DEFINE t == Tail(s)
<1>1. /\ Len(s) \in Nat \ {0} /\ DOMAIN s = 1..Len(s)
      /\ DOMAIN t = 1..(Len(s) - 1) /\ Head(s) = s[1]
      /\ \A i \in DOMAIN t : t[i] = s[i + 1]
  BY TailIs
<1>2. 1 \in DOMAIN s /\ \A i \in DOMAIN t : i + 1 \in DOMAIN s
  BY <1>1
<1>3. \A j \in DOMAIN s : j = 1 \/ (j - 1 \in DOMAIN t /\ t[j - 1] = s[j])
  BY <1>1
<1> HIDE DEF t
<1>4. ASSUME NEW i, Final(t, i) PROVE Final(s, i + 1) /\ t[i] = s[i + 1]
  <2>1. i \in DOMAIN t /\ i \in Nat /\ t[i] = s[i + 1] /\ t[i].op # "unsetPrimary"
    BY <1>1, <1>4 DEF Final
  <2>2. ASSUME NEW j \in DOMAIN s, j > i + 1 PROVE s[j].op = "unsetPrimary"
    <3>1. j - 1 \in DOMAIN t /\ t[j - 1] = s[j] /\ j - 1 > i
      BY <1>1, <1>3, <2>1, <2>2
    <3> QED
      BY <1>4, <3>1 DEF Final
  <2> QED
    BY <1>2, <2>1, <2>2 DEF Final
<1>5. ASSUME Head(s).op # "unsetPrimary",
             \A j \in DOMAIN t : t[j].op = "unsetPrimary"
      PROVE  Final(s, 1)
  <2>1. ASSUME NEW j \in DOMAIN s, j > 1 PROVE s[j].op = "unsetPrimary"
    BY <1>1, <1>3, <1>5, <2>1
  <2> QED
    BY <1>1, <1>2, <1>5, <2>1 DEF Final
<1>6. \A i : Final(t, i) => i + 1 \in DOMAIN s
  BY <1>2 DEF Final
<1> QED
  BY <1>1, <1>2, <1>4, <1>5, <1>6 DEF t

-----------------------------------------------------------------------------
(* Where the texts are: what the operations on the channels do to them.    *)

\* No command about a text is added.
NoStore ==
    /\ cmds' \in Seq(CmdMsg)
    /\ Stores' \subseteq Stores
    /\ Distinct(cmds, "store") => Distinct(cmds', "store")

LEMMA CopiesAre == Copies \subseteq Nat \ {0} /\ None \notin Copies /\ Foreign \notin Copies
BY HostClipAssumption DEF Copies, None, Foreign

LEMMA SendOther ==
    ASSUME cmds \in Seq(CmdMsg), NEW op \in {"load", "policy", "exit"},
           NEW n \in Nat, Send(Cmd(op, n))
    PROVE  NoStore
<1> DEFINE m == Cmd(op, n)
<1>1. m \in CmdMsg /\ m.op # "store"
  BY DEF Cmd, CmdMsg
<1> HIDE DEF m
<1>2. CASE cmds' = cmds
  BY <1>2 DEF NoStore, Stores
<1>3. CASE cmds' = Append(cmds, m)
  <2>1. cmds' \in Seq(CmdMsg)
    BY <1>1, <1>3, AppendProperties
  <2>2. Stores' = Stores
    BY <1>1, <1>3, ArgsAppend DEF Stores
  <2>3. Distinct(cmds, "store") => Distinct(cmds', "store")
    BY <1>1, <1>3, DistinctAppend
  <2> QED
    BY <2>1, <2>2, <2>3 DEF NoStore
<1> QED
  BY <1>2, <1>3 DEF Send, m

LEMMA SendStore ==
    ASSUME cmds \in Seq(CmdMsg), NEW c \in Nat, Send(Cmd("store", c))
    PROVE  /\ cmds' \in Seq(CmdMsg)
           /\ Stores' \subseteq Stores \union {c}
           /\ Distinct(cmds, "store") /\ c \notin Stores =>
                  Distinct(cmds', "store")
<1> DEFINE m == Cmd("store", c)
<1>1. m \in CmdMsg /\ m.op = "store" /\ m.arg = c
  BY DEF Cmd, CmdMsg
<1> HIDE DEF m
<1>2. CASE cmds' = cmds
  BY <1>2 DEF Stores
<1>3. CASE cmds' = Append(cmds, m)
  <2>1. cmds' \in Seq(CmdMsg)
    BY <1>1, <1>3, AppendProperties
  <2>2. Stores' = Stores \union {c}
    BY <1>1, <1>3, ArgsAppend DEF Stores
  <2>3. Distinct(cmds, "store") /\ c \notin Stores => Distinct(cmds', "store")
    BY <1>1, <1>3, DistinctAppend DEF Stores
  <2> QED
    BY <2>1, <2>2, <2>3
<1> QED
  BY <1>2, <1>3 DEF Send, m

\* An answer that nobody waits for any more is still no command about a text.
LEMMA PasteDrops ==
    ASSUME cmds \in Seq(CmdMsg), PasteTimesOut
    PROVE  NoStore
<1> DEFINE F(i) == IF cmds[i].op = "load" THEN Cmd("load", 0) ELSE cmds[i]
<1>1. DOMAIN cmds = 1..Len(cmds) /\ Len(cmds) \in Nat
      /\ \A i \in 1..Len(cmds) : cmds[i] \in CmdMsg
  BY LenProperties, ElementOfSeq
<1>2. cmds' = [i \in DOMAIN cmds |-> F(i)]
  BY DEF PasteTimesOut
<1>3. \A i \in DOMAIN cmds :
         /\ F(i) \in CmdMsg
         /\ F(i).op = "store" <=> cmds[i].op = "store"
         /\ F(i).op = "store" => F(i) = cmds[i]
  BY <1>1 DEF Cmd, CmdMsg
<1> HIDE DEF F
<1>4. cmds' \in Seq(CmdMsg)
  BY <1>1, <1>2, <1>3, IsASeq
<1>5. DOMAIN cmds' = DOMAIN cmds /\ \A i \in DOMAIN cmds : cmds'[i] = F(i)
  BY <1>2
<1>6. Stores' = Stores
  BY <1>3, <1>5 DEF Stores, Args
<1>7. Distinct(cmds, "store") => Distinct(cmds', "store")
  BY <1>3, <1>5 DEF Distinct
<1> QED
  BY <1>4, <1>6, <1>7 DEF NoStore

\* The next command is taken.
LEMMA Taken ==
    ASSUME cmds \in Seq(CmdMsg), cmds # <<>>, cmds' = Tail(cmds)
    PROVE  /\ NoStore
           /\ Head(cmds) \in CmdMsg
           /\ Head(cmds).op = "store" =>
                 /\ Head(cmds).arg \in Stores
                 /\ Distinct(cmds, "store") => Head(cmds).arg \notin Stores'
<1>1. Tail(cmds) \in Seq(CmdMsg) /\ Head(cmds) \in CmdMsg
  BY TailIs
<1> QED
  BY <1>1, ArgsTail DEF NoStore, Stores

\* CarryOut adds no request that sets a text.
LEMMA Cleared ==
    ASSUME toHost \in Seq(HostMsg), CarryOut
    PROVE  \E u \in Seq(HostMsg) :
              /\ u = IF PlanClear[1] THEN Append(toHost, Cmd("unset", 0))
                                     ELSE toHost
              /\ toHost' = IF PlanClear[2] THEN Append(u, Cmd("unsetPrimary", 0))
                                           ELSE u
<1> DEFINE a == Cmd("unset", 0)
           b == Cmd("unsetPrimary", 0)
           u == IF PlanClear[1] THEN Append(toHost, a) ELSE toHost
<1>1. a \in HostMsg /\ b \in HostMsg
  BY DEF Cmd, HostMsg
<1>2. toHost' = toHost \o (IF PlanClear[1] THEN <<a>> ELSE <<>>)
                       \o (IF PlanClear[2] THEN <<b>> ELSE <<>>)
  BY DEF CarryOut
<1> HIDE DEF a, b
<1>3. \A s \in Seq(HostMsg), m \in HostMsg :
         s \o <<m>> = Append(s, m) /\ s \o <<>> = s /\ Append(s, m) \in Seq(HostMsg)
  BY AppendIsConcat, ConcatEmptySeq, AppendProperties
<1>4. toHost \o (IF PlanClear[1] THEN <<a>> ELSE <<>>) = u /\ u \in Seq(HostMsg)
  BY <1>1, <1>3
<1> HIDE DEF u
<1>5. toHost' = IF PlanClear[2] THEN Append(u, b) ELSE u
  BY <1>1, <1>2, <1>3, <1>4
<1> QED
  BY <1>4, <1>5 DEF u, a, b

LEMMA NoSetAdded ==
    ASSUME NEW s \in Seq(HostMsg), NEW op \in {"unset", "unsetPrimary"}
    PROVE  LET t == Append(s, Cmd(op, 0)) IN
              /\ t \in Seq(HostMsg)
              /\ Args(t, "set") = Args(s, "set")
              /\ Distinct(s, "set") => Distinct(t, "set")
<1> DEFINE m == Cmd(op, 0)
<1>1. m \in HostMsg /\ m.op # "set"
  BY DEF Cmd, HostMsg
<1> HIDE DEF m
<1>2. Append(s, m) \in Seq(HostMsg)
  BY <1>1, AppendProperties
<1>3. Args(Append(s, m), "set") = Args(s, "set")
  BY <1>1, ArgsAppend
<1>4. Distinct(s, "set") => Distinct(Append(s, m), "set")
  BY <1>1, DistinctAppend
<1> QED
  BY <1>2, <1>3, <1>4 DEF m

LEMMA RequestsCleared ==
    ASSUME toHost \in Seq(HostMsg), CarryOut
    PROVE  /\ toHost' \in Seq(HostMsg) /\ Sets' = Sets
           /\ Distinct(toHost, "set") => Distinct(toHost', "set")
<1>1. PICK u \in Seq(HostMsg) :
              /\ u = IF PlanClear[1] THEN Append(toHost, Cmd("unset", 0))
                                     ELSE toHost
              /\ toHost' = IF PlanClear[2] THEN Append(u, Cmd("unsetPrimary", 0))
                                           ELSE u
  BY Cleared
<1>2. /\ Args(u, "set") = Sets
      /\ Distinct(toHost, "set") => Distinct(u, "set")
  BY <1>1, NoSetAdded DEF Sets
<1>3. /\ toHost' \in Seq(HostMsg) /\ Args(toHost', "set") = Args(u, "set")
      /\ Distinct(u, "set") => Distinct(toHost', "set")
  BY <1>1, NoSetAdded
<1> QED
  BY <1>2, <1>3 DEF Sets

-----------------------------------------------------------------------------
(* The texts stay apart.                                                   *)

placeVars == <<pullers, cmds, toHost, fromHost, sel, copies>>

\* A text that only leaves places disturbs none.
LEMMA Fewer ==
    ASSUME Apart, Named, pullers' \subseteq pullers, Stores' \subseteq Stores,
           Sets' \subseteq Sets, Cancelled' \subseteq Cancelled,
           sel' \in {sel, None, Foreign}, copies' = copies
    PROVE  Apart' /\ Named'
<1>1. None \notin Copies /\ Foreign \notin Copies
      /\ None \notin 1..copies /\ Foreign \notin 1..copies
  BY CopiesAre DEF None, Foreign
<1>2. Apart'
  BY <1>1 DEF Apart, Named
<1>3. Named'
  BY <1>1 DEF Named
<1> QED
  BY <1>2, <1>3

\* One more text than before.
LEMMA Fresh ==
    ASSUME HostTypes, Apart, Named, copies' = copies + 1,
           \/ pullers' \subseteq pullers \union {copies'} /\ Stores' = Stores
           \/ pullers' = pullers /\ Stores' \subseteq Stores \union {copies'},
           Sets' = Sets, Cancelled' = Cancelled, sel' = sel
    PROVE  Apart' /\ Named'
<1>1. copies \in Nat /\ copies' \notin 1..copies /\ 1..copies \subseteq 1..copies'
      /\ copies' \in 1..copies'
  BY HostClipAssumption DEF HostTypes
<1>2. sel # copies'
  BY <1>1, HostClipAssumption DEF HostTypes, Named, Copies, None, Foreign
<1>3. copies' \notin pullers \union Stores \union Sets \union Cancelled
  BY <1>1 DEF Named
<1>4. Apart'
  BY <1>2, <1>3 DEF Apart
<1>5. Named'
  BY <1>1 DEF Named
<1> QED
  BY <1>4, <1>5

\* The clipboard changes hands: what it held goes to the events.
LEMMA ChangesHands ==
    ASSUME WireTypes, HostTypes, Once(fromHost), sel \notin Cancelled,
           NEW what, SelBecomes(what)
    PROVE  /\ fromHost' \in Seq(Copies) /\ Once(fromHost')
           /\ Cancelled' = Cancelled \union ({sel} \intersect Copies)
           /\ sel' = what
<1>1. sel' = what
      /\ fromHost' = IF sel \in Copies THEN Append(fromHost, sel) ELSE fromHost
  BY DEF SelBecomes
<1>2. CASE sel \in Copies
  <2>1. fromHost \in Seq(Copies) /\ fromHost' = Append(fromHost, sel)
    BY <1>1, <1>2 DEF WireTypes
  <2>2. /\ fromHost' \in Seq(Copies)
        /\ {fromHost'[i] : i \in DOMAIN fromHost'} = Cancelled \union {sel}
        /\ Once(fromHost')
    BY <1>2, <2>1, EventAppend DEF Cancelled
  <2> QED
    BY <1>1, <1>2, <2>2 DEF Cancelled
<1>3. CASE sel \notin Copies
  BY <1>1, <1>3 DEF WireTypes, Cancelled
<1> QED
  BY <1>2, <1>3

LEMMA TokensHost ==
    ASSUME WireTypes, HostTypes, Tokens, HostApplies \/ HostCopies
    PROVE  Tokens' /\ toHost' \in Seq(HostMsg) /\ fromHost' \in Seq(Copies)
<1> DEFINE Others == /\ pullers' = pullers /\ cmds' = cmds /\ copies' = copies
                     /\ Stores' = Stores
<1>1. HostApplies \/ HostCopies => Others
  BY DEF HostApplies, HostCopies, loopVars, workVars, Stores
<1>2. /\ Distinct(cmds, "store") /\ Distinct(toHost, "set") /\ Once(fromHost)
      /\ Apart /\ Named /\ sel \notin Cancelled
  BY DEF Tokens, Single, Apart
<1>3. /\ toHost \in Seq(HostMsg) /\ fromHost \in Seq(Copies)
  BY DEF WireTypes
<1>4. sel \in Copies \union {None, Foreign}
  BY DEF HostTypes
<1>5. ASSUME NEW what \in {None, Foreign}, SelBecomes(what), Others,
             toHost' \in Seq(HostMsg), Sets' \subseteq Sets,
             Distinct(toHost', "set")
      PROVE  Tokens' /\ fromHost' \in Seq(Copies)
  <2>1. /\ fromHost' \in Seq(Copies) /\ Once(fromHost')
        /\ Cancelled' = Cancelled \union ({sel} \intersect Copies)
        /\ sel' = what
    BY <1>2, <1>5, ChangesHands
  <2>2. Single'
    BY <1>2, <1>5, <2>1 DEF Single
  <2>3. what \notin Copies /\ what \notin 1..copies
    BY CopiesAre DEF None, Foreign
  <2>4. Apart'
    BY <1>2, <1>5, <2>1, <2>3 DEF Apart, Named
  <2>5. Named'
    BY <1>2, <1>5, <2>1, <2>3 DEF Named
  <2> QED
    BY <2>1, <2>2, <2>4, <2>5 DEF Tokens
<1>6. CASE HostCopies
  <2>1. SelBecomes(Foreign) /\ toHost' = toHost /\ Sets' = Sets
    BY <1>6 DEF HostCopies, Sets
  <2> QED
    BY <1>1, <1>2, <1>3, <1>5, <1>6, <2>1
<1>7. CASE HostApplies
  <2> DEFINE req == Head(toHost)
  <2>1. /\ toHost # <<>> /\ toHost' = Tail(toHost)
        /\ \/ req.op = "set" /\ SelBecomes(req.arg)
           \/ req.op = "unset" /\ SelBecomes(None)
           \/ req.op = "unsetPrimary" /\ UNCHANGED <<sel, fromHost>>
    BY <1>7 DEF HostApplies
  <2>2. toHost' \in Seq(HostMsg)
    BY <1>3, <2>1, TailIs
  <2>3. /\ Sets' \subseteq Sets
        /\ req.op = "set" => req.arg \in Sets \ Sets'
        /\ Distinct(toHost', "set")
    BY <1>2, <1>3, <2>1, ArgsTail DEF Sets
  <2> HIDE DEF req
  <2>4. CASE req.op = "set" /\ SelBecomes(req.arg)
    <3>1. /\ fromHost' \in Seq(Copies) /\ Once(fromHost')
          /\ Cancelled' = Cancelled \union ({sel} \intersect Copies)
          /\ sel' = req.arg
      BY <1>2, <2>4, ChangesHands
    <3>2. Single'
      BY <1>1, <1>2, <1>7, <2>3, <3>1 DEF Single
    <3>3. Apart'
      BY <1>1, <1>2, <1>7, <2>3, <2>4, <3>1 DEF Apart
    <3>4. Named'
      BY <1>1, <1>2, <1>7, <2>3, <2>4, <3>1 DEF Named
    <3> QED
      BY <2>2, <3>1, <3>2, <3>3, <3>4 DEF Tokens
  <2>5. CASE req.op = "unset" /\ SelBecomes(None)
    BY <1>1, <1>5, <1>7, <2>2, <2>3, <2>5
  <2>6. CASE UNCHANGED <<sel, fromHost>>
    <3>1. Cancelled' = Cancelled /\ sel' = sel /\ fromHost' = fromHost
      BY <2>6 DEF Cancelled
    <3>2. Apart' /\ Named'
      BY <1>1, <1>2, <1>7, <2>3, <3>1, Fewer
    <3>3. Single'
      BY <1>1, <1>2, <1>7, <2>3, <3>1 DEF Single
    <3> QED
      BY <1>3, <2>2, <3>1, <3>2, <3>3 DEF Tokens
  <2> QED
    BY <2>1, <2>4, <2>5, <2>6
<1> QED
  BY <1>6, <1>7

LEMMA TokensCopy ==
    ASSUME WireTypes, HostTypes, Tokens, CopyOutApp \/ CopyOutOwn
    PROVE  Tokens' /\ cmds' \in Seq(CmdMsg)
<1> USE DEF Tokens, Single
<1>1. /\ copies' = copies + 1 /\ copies' \in Nat
      /\ UNCHANGED <<toHost, fromHost, sel>>
      /\ Sets' = Sets /\ Cancelled' = Cancelled /\ cmds \in Seq(CmdMsg)
  BY DEF CopyOutApp, CopyOutOwn, wireVars, hostVars, HostTypes, WireTypes, Sets,
         Cancelled
<1>2. CASE CopyOutApp
  <2>1. /\ pullers' \subseteq pullers \union {copies'} /\ cmds' = cmds
        /\ Stores' = Stores
    BY <1>2 DEF CopyOutApp, Stores
  <2> QED
    BY <1>1, <2>1, Fresh
<1>3. CASE CopyOutOwn
  <2>1. pullers' = pullers /\ Send(Cmd("store", copies'))
    BY <1>3 DEF CopyOutOwn, loopVars
  <2>2. copies' \notin Stores
    BY <1>1 DEF Named, HostTypes
  <2>3. /\ cmds' \in Seq(CmdMsg) /\ Stores' \subseteq Stores \union {copies'}
        /\ Distinct(cmds', "store")
    BY <1>1, <2>1, <2>2, SendStore
  <2>4. Apart' /\ Named'
    BY <1>1, <2>1, <2>3, Fresh
  <2> QED
    BY <1>1, <2>3, <2>4
<1> QED
  BY <1>2, <1>3

LEMMA TokensPuller ==
    ASSUME WireTypes, Tokens, NEW c \in Copies, PullerEnds(c)
    PROVE  Tokens' /\ cmds' \in Seq(CmdMsg)
<1> USE DEF Tokens, Single
<1>1. /\ c \in pullers /\ pullers' = pullers \ {c}
      /\ Send(Cmd("store", c)) \/ cmds' = cmds
      /\ UNCHANGED <<toHost, fromHost, sel, copies>>
      /\ Sets' = Sets /\ Cancelled' = Cancelled
  BY DEF PullerEnds, wireVars, hostVars, Sets, Cancelled
<1>2. c \notin Stores /\ c \in Nat
  BY <1>1, CopiesAre DEF Apart
<1>3. /\ cmds' \in Seq(CmdMsg) /\ Stores' \subseteq Stores \union {c}
      /\ Distinct(cmds', "store")
  <2>1. CASE cmds' = cmds
    BY <2>1 DEF Stores, WireTypes
  <2>2. CASE Send(Cmd("store", c))
    BY <1>2, <2>2, SendStore DEF WireTypes
  <2> QED
    BY <1>1, <2>1, <2>2
<1>4. Apart'
  BY <1>1, <1>3 DEF Apart
<1>5. Named'
  BY <1>1, <1>3 DEF Named
<1> QED
  BY <1>1, <1>3, <1>4, <1>5

LEMMA TokensSend ==
    ASSUME WireTypes, Tokens, PasteIn \/ PasteTimesOut \/ Scan \/ Exit
    PROVE  Tokens' /\ cmds' \in Seq(CmdMsg)
<1>1. UNCHANGED <<pullers, toHost, fromHost, sel, copies>>
  BY DEF PasteIn, PasteTimesOut, Scan, Exit, wireVars, hostVars
<1>2. NoStore
  <2>0. cmds \in Seq(CmdMsg)
    BY DEF WireTypes
  <2>1. CASE PasteIn
    BY <2>0, <2>1, SendOther DEF PasteIn
  <2>2. CASE PasteTimesOut
    BY <2>0, <2>2, PasteDrops
  <2>3. CASE Scan
    <3>1. CASE cmds' = cmds
      BY <2>0, <3>1 DEF NoStore, Stores
    <3>2. CASE \E n \in {0, 1} : Send(Cmd("policy", n))
      BY <2>0, <3>2, SendOther
    <3> QED
      BY <2>3, <3>1, <3>2 DEF Scan
  <2>4. CASE Exit
    BY <2>0, <2>4, SendOther DEF Exit
  <2> QED
    BY <2>1, <2>2, <2>3, <2>4
<1>3. Sets' = Sets /\ Cancelled' = Cancelled
  BY <1>1 DEF Sets, Cancelled
<1>4. Apart' /\ Named'
  BY <1>1, <1>2, <1>3, Fewer DEF Tokens, NoStore
<1> QED
  BY <1>1, <1>2, <1>4 DEF Tokens, Single, NoStore

LEMMA TokensCmd ==
    ASSUME WireTypes, Tokens, HandleCmd
    PROVE  Tokens' /\ cmds' \in Seq(CmdMsg) /\ toHost' \in Seq(HostMsg)
<1> DEFINE cmd == Head(cmds)
<1>1. /\ cmds # <<>> /\ cmds' = Tail(cmds)
      /\ UNCHANGED <<pullers, fromHost, sel, copies>>
      /\ \/ cmd.op = "store" /\ toHost' = Append(toHost, Cmd("set", cmd.arg))
         \/ toHost' = toHost
  BY DEF HandleCmd, HandleStore, HandlePolicy, HandleLoad, ClearPushed, hostVars
<1>2. /\ cmds \in Seq(CmdMsg) /\ toHost \in Seq(HostMsg)
      /\ Distinct(cmds, "store") /\ Distinct(toHost, "set") /\ Once(fromHost)
      /\ Apart /\ Named
  BY DEF WireTypes, Tokens, Single
<1>3. /\ cmds' \in Seq(CmdMsg) /\ Stores' \subseteq Stores
      /\ Distinct(cmds', "store") /\ cmd \in CmdMsg
      /\ cmd.op = "store" => cmd.arg \in Stores \ Stores'
  BY <1>1, <1>2, Taken DEF NoStore
<1>4. Cancelled' = Cancelled
  BY <1>1 DEF Cancelled
<1> HIDE DEF cmd
<1>5. CASE cmd.op = "store" /\ toHost' = Append(toHost, Cmd("set", cmd.arg))
  <2> DEFINE m == Cmd("set", cmd.arg)
  <2>1. m \in HostMsg /\ m.op = "set" /\ m.arg = cmd.arg
    BY <1>3 DEF Cmd, HostMsg, CmdMsg
  <2>2. cmd.arg \notin Sets
    BY <1>2, <1>3, <1>5 DEF Apart
  <2> HIDE DEF m
  <2>3. toHost' = Append(toHost, m)
    BY <1>5 DEF m
  <2>4. Sets' = Sets \union {cmd.arg} /\ toHost' \in Seq(HostMsg)
    BY <1>2, <2>1, <2>3, ArgsAppend, AppendProperties DEF Sets
  <2>5. Distinct(toHost', "set")
    BY <1>2, <2>1, <2>2, <2>3, DistinctAppend DEF Sets
  <2>6. Apart'
    BY <1>1, <1>2, <1>3, <1>4, <1>5, <2>4 DEF Apart
  <2>7. Named'
    BY <1>1, <1>2, <1>3, <1>4, <1>5, <2>4 DEF Named
  <2> QED
    BY <1>1, <1>2, <1>3, <2>4, <2>5, <2>6, <2>7 DEF Tokens, Single
<1>6. CASE toHost' = toHost
  <2>1. Sets' = Sets
    BY <1>6 DEF Sets
  <2>2. Apart' /\ Named'
    BY <1>1, <1>2, <1>3, <1>4, <2>1, Fewer
  <2> QED
    BY <1>1, <1>2, <1>3, <1>6, <2>2 DEF Tokens, Single
<1> QED
  BY <1>1, <1>5, <1>6

LEMMA NothingLeft ==
    \A op : Distinct(<<>>, op) /\ Args(<<>>, op) = {}
BY DEF Distinct, Args

LEMMA TokensStep ==
    ASSUME WireTypes, HostTypes, Tokens, [Next]_vars
    PROVE  Tokens' /\ WireTypes'
<1> USE DEF WireTypes
<1>1. CASE CopyOutApp \/ CopyOutOwn
  <2>1. UNCHANGED <<toHost, fromHost>>
    BY <1>1 DEF CopyOutApp, CopyOutOwn, wireVars
  <2> QED
    BY <1>1, <2>1, TokensCopy
<1>2. ASSUME NEW c \in Copies, PullerEnds(c) PROVE Tokens' /\ WireTypes'
  <2>1. UNCHANGED <<toHost, fromHost>>
    BY <1>2 DEF PullerEnds, wireVars
  <2> QED
    BY <1>2, <2>1, TokensPuller
<1>3. CASE PasteIn \/ PasteTimesOut \/ Scan \/ Exit
  <2>1. UNCHANGED <<toHost, fromHost>>
    BY <1>3 DEF PasteIn, PasteTimesOut, Scan, Exit, wireVars
  <2> QED
    BY <1>3, <2>1, TokensSend
<1>4. CASE HandleCmd
  <2>1. fromHost' = fromHost
    BY <1>4 DEF HandleCmd
  <2> QED
    BY <1>4, <2>1, TokensCmd
<1>5. CASE CarryOut
  <2>1. UNCHANGED <<pullers, cmds, fromHost, sel, copies>>
    BY <1>5 DEF CarryOut, loopVars, hostVars
  <2>2. /\ toHost' \in Seq(HostMsg) /\ Sets' = Sets
        /\ Distinct(toHost', "set")
    BY <1>5, RequestsCleared DEF Tokens, Single
  <2>3. Stores' = Stores /\ Cancelled' = Cancelled
    BY <2>1 DEF Stores, Cancelled
  <2>4. Apart' /\ Named'
    BY <2>1, <2>2, <2>3, Fewer DEF Tokens
  <2> QED
    BY <2>1, <2>2, <2>4 DEF Tokens, Single
<1>6. CASE Dispatch
  <2>1. /\ UNCHANGED <<pullers, cmds, toHost, sel, copies>>
        /\ fromHost # <<>> /\ fromHost' = Tail(fromHost)
    BY <1>6 DEF Dispatch, loopVars, hostVars
  <2>2. fromHost' \in Seq(Copies) /\ Cancelled' \subseteq Cancelled /\ Once(fromHost')
    BY <2>1, TailIs, EventTail DEF Tokens, Single, Cancelled
  <2>3. Stores' = Stores /\ Sets' = Sets
    BY <2>1 DEF Stores, Sets
  <2>4. Apart' /\ Named'
    BY <2>1, <2>2, <2>3, Fewer DEF Tokens
  <2> QED
    BY <2>1, <2>2, <2>4 DEF Tokens, Single
<1>7. CASE HostApplies \/ HostCopies
  <2>1. cmds' = cmds
    BY <1>7 DEF HostApplies, HostCopies
  <2> QED
    BY <1>7, <2>1, TokensHost
<1>8. CASE Abandon
  <2>1. /\ pullers' = {} /\ cmds' = <<>> /\ toHost' = <<>> /\ fromHost' = <<>>
        /\ UNCHANGED <<sel, copies>>
    BY <1>8 DEF Abandon, hostVars
  <2>2. Stores' = {} /\ Sets' = {} /\ Cancelled' = {}
    BY <2>1, NothingLeft DEF Stores, Sets, Cancelled
  <2>3. Apart' /\ Named'
    BY <2>1, <2>2, Fewer DEF Tokens
  <2>4. Single'
    BY <2>1, NothingLeft DEF Single, Once
  <2> QED
    BY <2>1, <2>3, <2>4, EmptySeq DEF Tokens
<1>9. CASE Return
  <2>1. cmds' = <<>> /\ UNCHANGED <<pullers, toHost, fromHost, sel, copies>>
    BY <1>9 DEF Return, loopVars, hostVars, wireVars
  <2>2. Stores' = {} /\ Sets' = Sets /\ Cancelled' = Cancelled
    BY <2>1, NothingLeft DEF Stores, Sets, Cancelled
  <2>3. Apart' /\ Named'
    BY <2>1, <2>2, Fewer DEF Tokens
  <2>4. Single'
    BY <2>1, NothingLeft DEF Single, Tokens
  <2> QED
    BY <2>1, <2>3, <2>4, EmptySeq DEF Tokens
<1>10. CASE UNCHANGED placeVars
  BY <1>10 DEF placeVars, Tokens, Single, Apart, Named, Stores, Sets, Cancelled
<1>11. OpenVolume \/ CloseVolumes \/ SetPolicy => UNCHANGED placeVars
  BY DEF OpenVolume, CloseVolumes, SetPolicy, placeVars, wireVars, hostVars
<1>12. ClearWaitEnds \/ JoinAndDrop => UNCHANGED placeVars
  BY DEF ClearWaitEnds, JoinAndDrop, placeVars, wireVars, hostVars
<1>13. DeadlineFires \/ ReplyLoad \/ ReadPrimary \/ Flushed => UNCHANGED placeVars
  BY DEF DeadlineFires, ClearPushed, ReplyLoad, ReadPrimary, Flushed, placeVars,
         loopVars, wireVars, hostVars
<1>14. HostSelects \/ HostFails => UNCHANGED placeVars
  BY DEF HostSelects, HostFails, placeVars, loopVars, wireVars
<1>15. UNCHANGED vars => UNCHANGED placeVars
  BY DEF vars, placeVars, loopVars, hostVars, wireVars
<1> QED
  BY <1>1, <1>2, <1>3, <1>4, <1>5, <1>6, <1>7, <1>8, <1>9, <1>10, <1>11, <1>12,
     <1>13, <1>14, <1>15 DEF Next, Human, Loop, Worker, Host

-----------------------------------------------------------------------------
(* The types.                                                              *)

LEMMA CopiesFinite ==
    ASSUME NEW S, S \subseteq Copies
    PROVE  IsFiniteSet(S) /\ Cardinality(S) \in Nat
<1>1. IsFiniteSet(Copies)
  BY FS_Interval, HostClipAssumption DEF Copies
<1> QED
  BY <1>1, FS_Subset, FS_CardinalityType

LEMMA LoopTypesStep ==
    ASSUME LoopTypes, HostTypes, [Next]_vars
    PROVE  LoopTypes'
<1> USE DEF LoopTypes
<1>1. CASE CopyOutApp
  <2>1. copies' = copies + 1 /\ copies < MaxCopies
        /\ UNCHANGED <<main, clip, volumes, published, applied>>
        /\ pullers' = IF Room THEN pullers \union {copies'} ELSE pullers
    BY <1>1 DEF CopyOutApp
  <2>2. copies' \in Copies
    BY <2>1, HostClipAssumption DEF HostTypes, Copies
  <2>3. IsFiniteSet(pullers) /\ Cardinality(pullers) \in Nat
    BY CopiesFinite
  <2>4. Cardinality(pullers \union {copies'}) <= Cardinality(pullers) + 1
    BY <2>3, FS_AddElement
  <2>5. Room => Cardinality(pullers \union {copies'}) <= MaxPullers
    <3>1. Cardinality(pullers \union {copies'}) \in Nat
      BY <2>2, CopiesFinite
    <3> QED
      BY <2>3, <2>4, <3>1, HostClipAssumption DEF Room
  <2>6. pullers' \subseteq Copies /\ Cardinality(pullers') <= MaxPullers
    BY <2>1, <2>2, <2>5
  <2> QED
    BY <2>1, <2>6
<1>2. ASSUME NEW c \in Copies, PullerEnds(c) PROVE LoopTypes'
  <2>1. pullers' = pullers \ {c} /\ UNCHANGED <<main, clip, volumes, published, applied>>
    BY <1>2 DEF PullerEnds
  <2>2. IsFiniteSet(pullers) /\ Cardinality(pullers) \in Nat
        /\ Cardinality(pullers') \in Nat
    BY <2>1, CopiesFinite
  <2>3. Cardinality(pullers') <= Cardinality(pullers)
    BY <2>1, <2>2, FS_Subset
  <2>4. pullers' \subseteq Copies /\ Cardinality(pullers') <= MaxPullers
    BY <2>1, <2>2, <2>3, HostClipAssumption
  <2> QED
    BY <2>1, <2>4
<1>3. CASE Abandon
  <2>1. Cardinality({}) = 0
    BY FS_EmptySet
  <2> QED
    BY <1>3, <2>1, HostClipAssumption DEF Abandon
<1>4. CopyOutOwn => UNCHANGED loopVars
  BY DEF CopyOutOwn
<1>5. CASE PasteIn \/ PasteTimesOut
  BY <1>5 DEF PasteIn, PasteTimesOut
<1>6. CASE Scan
  BY <1>6 DEF Scan, Forget
<1>7. CASE OpenVolume \/ CloseVolumes \/ SetPolicy
  BY <1>7 DEF OpenVolume, CloseVolumes, SetPolicy
<1>8. CASE Exit \/ ClearWaitEnds \/ JoinAndDrop
  BY <1>8 DEF Exit, ClearWaitEnds, JoinAndDrop
<1>9. HandleCmd \/ DeadlineFires => UNCHANGED loopVars
  BY DEF HandleCmd, HandleStore, HandlePolicy, HandleLoad, DeadlineFires,
         ClearPushed, loopVars
<1>10. CASE ReplyLoad
  BY <1>10 DEF ReplyLoad
<1>11. ReadPrimary \/ CarryOut \/ Flushed \/ Return \/ Dispatch =>
          UNCHANGED loopVars
  BY DEF ReadPrimary, CarryOut, Flushed, Return, Dispatch
<1>12. Host => UNCHANGED loopVars
  BY DEF Host, HostApplies, HostCopies, HostSelects, HostFails
<1>13. CASE UNCHANGED loopVars
  BY <1>13 DEF loopVars
<1>14. UNCHANGED vars => UNCHANGED loopVars
  BY DEF vars
<1> QED
  BY <1>1, <1>2, <1>3, <1>4, <1>5, <1>6, <1>7, <1>8, <1>9, <1>10, <1>11, <1>12,
     <1>13, <1>14 DEF Next, Human, Loop, Worker

LEMMA HostTypesStep ==
    ASSUME HostTypes, WireTypes, Named, [Next]_vars
    PROVE  HostTypes'
<1> USE DEF HostTypes
<1>1. CASE CopyOutApp \/ CopyOutOwn
  BY <1>1, HostClipAssumption DEF CopyOutApp, CopyOutOwn, hostVars
<1>2. CASE HostApplies
  <2>1. toHost # <<>> /\ toHost \in Seq(HostMsg)
    BY <1>2 DEF HostApplies, WireTypes
  <2>2. Head(toHost).op = "set" => Head(toHost).arg \in Sets
    BY <2>1, ArgsTail DEF Sets
  <2>3. Sets \subseteq Copies
    BY HostClipAssumption DEF Named, Copies
  <2>4. UNCHANGED <<host, copies>>
    BY <1>2 DEF HostApplies
  <2>5. sel' \in Copies \union {None, Foreign} /\ prim' \in Copies \union {None}
    BY <1>2, <2>2, <2>3 DEF HostApplies, SelBecomes
  <2> QED
    BY <2>4, <2>5
<1>3. CASE HostCopies
  BY <1>3 DEF HostCopies, SelBecomes
<1>4. CASE HostSelects
  BY <1>4 DEF HostSelects
<1>5. CASE HostFails
  BY <1>5 DEF HostFails
<1>6. PasteIn \/ PasteTimesOut \/ Scan \/ OpenVolume \/ CloseVolumes \/ SetPolicy
      \/ Exit \/ ClearWaitEnds \/ JoinAndDrop \/ Abandon =>
          UNCHANGED <<hostVars, copies>>
  BY DEF PasteIn, PasteTimesOut, Scan, OpenVolume, CloseVolumes, SetPolicy, Exit,
         ClearWaitEnds, JoinAndDrop, Abandon
<1>7. \A c \in Copies : PullerEnds(c) => UNCHANGED <<hostVars, copies>>
  BY DEF PullerEnds
<1>8. Worker => UNCHANGED <<hostVars, copies>>
  BY DEF Worker, HandleCmd, DeadlineFires, ReplyLoad, ReadPrimary, CarryOut,
         Flushed, Return, Dispatch
<1>9. CASE UNCHANGED <<hostVars, copies>>
  BY <1>9 DEF hostVars
<1>10. UNCHANGED vars => UNCHANGED <<hostVars, copies>>
  BY DEF vars
<1> QED
  BY <1>1, <1>2, <1>3, <1>4, <1>5, <1>6, <1>7, <1>8, <1>9, <1>10
     DEF Next, Human, Loop, Host

\* The worker's variables: what a command does to them.
LEMMA WorkTypesCmd ==
    ASSUME WorkTypes, WireTypes, HostTypes, Named, HandleCmd
    PROVE  WorkTypes'
<1>1. cmds # <<>> /\ cmds \in Seq(CmdMsg)
  BY DEF HandleCmd, WireTypes
<1>2. Head(cmds).op = "store" => Head(cmds).arg \in Stores
  BY <1>1, ArgsTail DEF Stores
<1>3. Stores \subseteq Copies
  BY HostClipAssumption DEF Named, HostTypes, Copies
<1>4. asked' \in BOOLEAN
  <2>1. asked' = (Head(cmds).op = "load" /\ Head(cmds).arg = 1)
    BY DEF HandleCmd
  <2> QED
    BY <2>1
<1> DEFINE c == Head(cmds).arg
<1>5. \/ Head(cmds).op = "store" /\ HandleStore(c)
      \/ HandlePolicy(c = 1) \/ HandleLoad \/ ClearPushed(TRUE)
  BY DEF HandleCmd
<1>6. CASE Head(cmds).op = "store" /\ HandleStore(c)
  BY <1>2, <1>3, <1>4, <1>6 DEF HandleStore, WorkTypes
<1>7. CASE HandlePolicy(c = 1)
  BY <1>4, <1>7 DEF HandlePolicy, WorkTypes
<1>8. CASE HandleLoad
  BY <1>4, <1>8 DEF HandleLoad, WorkTypes
<1>9. CASE ClearPushed(TRUE)
  BY <1>4, <1>9 DEF ClearPushed, WorkTypes
<1> QED
  BY <1>5, <1>6, <1>7, <1>8, <1>9

LEMMA WorkTypesStep ==
    ASSUME WorkTypes, WireTypes, HostTypes, Named, [Next]_vars
    PROVE  WorkTypes'
<1>1. CASE HandleCmd
  BY <1>1, WorkTypesCmd
<1>2. CASE DeadlineFires
  BY <1>2 DEF DeadlineFires, ClearPushed, WorkTypes
<1>3. CASE ReplyLoad
  BY <1>3 DEF ReplyLoad, WorkTypes
<1>4. CASE ReadPrimary
  BY <1>4 DEF ReadPrimary, WorkTypes
<1>5. CASE CarryOut
  BY <1>5 DEF CarryOut, PlanClear, WorkTypes
<1>6. CASE Flushed
  BY <1>6 DEF Flushed, WorkTypes
<1>7. CASE Return
  BY <1>7 DEF Return, WorkTypes
<1>8. CASE Dispatch
  BY <1>8 DEF Dispatch, WorkTypes
<1>9. CASE PasteTimesOut
  BY <1>9 DEF PasteTimesOut, WorkTypes
<1>10. CASE Abandon
  BY <1>10 DEF Abandon, WorkTypes
<1>11. CopyOutApp \/ CopyOutOwn \/ PasteIn \/ Scan \/ OpenVolume \/ CloseVolumes
       \/ SetPolicy \/ Exit \/ ClearWaitEnds \/ JoinAndDrop => UNCHANGED workVars
  BY DEF CopyOutApp, CopyOutOwn, PasteIn, Scan, OpenVolume, CloseVolumes, SetPolicy,
         Exit, ClearWaitEnds, JoinAndDrop
<1>12. \A c \in Copies : PullerEnds(c) => UNCHANGED workVars
  BY DEF PullerEnds
<1>13. Host => UNCHANGED workVars
  BY DEF Host, HostApplies, HostCopies, HostSelects, HostFails
<1>14. UNCHANGED vars => UNCHANGED workVars
  BY DEF vars
<1>15. CASE UNCHANGED workVars
  BY <1>15 DEF workVars, WorkTypes
<1> QED
  BY <1>1, <1>2, <1>3, <1>4, <1>5, <1>6, <1>7, <1>8, <1>9, <1>10, <1>11, <1>12,
     <1>13, <1>14, <1>15 DEF Next, Human, Loop, Worker

-----------------------------------------------------------------------------
(* What the worker knows of its own text.                                  *)

LEMMA WorkedCmd ==
    ASSUME WorkTypes, WireTypes, HostTypes, Named, Worked, HandleCmd
    PROVE  Worked'
<1>1. cmds # <<>> /\ cmds \in Seq(CmdMsg)
  BY DEF HandleCmd, WireTypes
<1> DEFINE c == Head(cmds).arg
<1>2. Head(cmds).op = "store" => c \in Copies
  <2>1. Head(cmds).op = "store" => c \in Stores
    BY <1>1, ArgsTail DEF Stores
  <2> QED
    BY <2>1, HostClipAssumption DEF Named, HostTypes, Copies
<1>3. /\ Alive /\ pc = "loop" /\ host' = host
      /\ \/ Head(cmds).op = "store" /\ HandleStore(c)
         \/ HandlePolicy(c = 1) \/ HandleLoad \/ ClearPushed(TRUE)
  BY DEF HandleCmd, hostVars
<1> HIDE DEF c
<1>4. CASE Head(cmds).op = "store" /\ HandleStore(c)
  <2>1. c # None
    BY <1>2, <1>4, CopiesAre
  <2> QED
    BY <1>3, <1>4, <2>1 DEF HandleStore, Worked, WorkTypes, Alive
<1>5. CASE HandlePolicy(c = 1)
  BY <1>3, <1>5 DEF HandlePolicy, Worked, WorkTypes, Alive
<1>6. CASE HandleLoad
  BY <1>3, <1>6 DEF HandleLoad, Worked, WorkTypes, Alive
<1>7. CASE ClearPushed(TRUE)
  BY <1>3, <1>7 DEF ClearPushed, Worked, WorkTypes, Alive
<1> QED
  BY <1>3, <1>4, <1>5, <1>6, <1>7

knownVars == <<pc, source, owns, pushed, enabled, armed, host, main>>

LEMMA WorkedStep ==
    ASSUME WorkTypes, WireTypes, HostTypes, Named, Worked, [Next]_vars
    PROVE  Worked'
<1>1. CASE HandleCmd
  BY <1>1, WorkedCmd
<1>2. CASE DeadlineFires
  BY <1>2 DEF DeadlineFires, ClearPushed, Alive, Worked, WorkTypes, hostVars
<1>3. CASE ReplyLoad
  BY <1>3 DEF ReplyLoad, Alive, Worked, WorkTypes, hostVars
<1>4. CASE ReadPrimary
  BY <1>4 DEF ReadPrimary, Alive, Worked, WorkTypes, hostVars, loopVars
<1>5. CASE CarryOut
  BY <1>5 DEF CarryOut, PlanClear, Alive, Worked, WorkTypes, hostVars, loopVars
<1>6. CASE Flushed
  BY <1>6 DEF Flushed, Alive, Worked, WorkTypes, hostVars, loopVars
<1>7. CASE Return
  BY <1>7 DEF Return, Alive, Worked, WorkTypes, hostVars, loopVars
<1>8. CASE Dispatch
  BY <1>8 DEF Dispatch, Alive, Worked, WorkTypes, hostVars, loopVars
<1>9. CASE PasteTimesOut
  BY <1>9 DEF PasteTimesOut, Worked, hostVars
<1>10. CASE Abandon
  BY <1>10 DEF Abandon, Worked, hostVars, None
<1>11. CASE PasteIn \/ Exit
  BY <1>11 DEF PasteIn, Exit, Worked, workVars, hostVars
<1>12. CASE ClearWaitEnds
  BY <1>12 DEF ClearWaitEnds, Worked, workVars, hostVars
<1>13. CASE JoinAndDrop
  BY <1>13 DEF JoinAndDrop, Stopped, Worked, workVars, hostVars
<1>14. CASE HostFails
  BY <1>14 DEF HostFails, Worked, workVars, loopVars
<1>15. CopyOutApp \/ CopyOutOwn \/ Scan \/ OpenVolume \/ CloseVolumes \/ SetPolicy =>
          UNCHANGED knownVars
  BY DEF CopyOutApp, CopyOutOwn, Scan, OpenVolume, CloseVolumes, SetPolicy,
         knownVars, workVars, hostVars, loopVars
<1>16. \A c \in Copies : PullerEnds(c) => UNCHANGED knownVars
  BY DEF PullerEnds, knownVars, workVars, hostVars
<1>17. HostApplies \/ HostCopies \/ HostSelects => UNCHANGED knownVars
  BY DEF HostApplies, HostCopies, HostSelects, knownVars, workVars, loopVars
<1>18. UNCHANGED vars => UNCHANGED knownVars
  BY DEF vars, knownVars, workVars, hostVars, loopVars
<1>19. CASE UNCHANGED knownVars
  BY <1>19 DEF knownVars, Worked
<1> QED
  BY <1>1, <1>2, <1>3, <1>4, <1>5, <1>6, <1>7, <1>8, <1>9, <1>10, <1>11, <1>12,
     <1>13, <1>14, <1>15, <1>16, <1>17, <1>18, <1>19
     DEF Next, Human, Loop, Worker, Host

-----------------------------------------------------------------------------
(* The source is the text on the clipboard or about to be on it.           *)

\* The two halves of Traced.
Bound(s, src) ==
    \A i \in DOMAIN s : Final(s, i) /\ s[i].op = "set" => src = s[i].arg

Quiet(s) == \A i \in DOMAIN s : s[i].op \notin {"set", "unset"}

LEMMA TracedIs ==
    /\ Traced <=>
          (main # "abandoned" => /\ Bound(toHost, source)
                                 /\ sel \in Copies /\ Quiet(toHost) => source = sel)
    /\ Traced' <=>
          (main' # "abandoned" =>
              /\ Bound(toHost', source')
              /\ sel' \in Copies /\ Quiet(toHost') => source' = sel')
BY DEF Traced, Bound, Quiet, Changing

\* A request added at the end is the last one, unless it is about the primary.
LEMMA Added ==
    ASSUME NEW s \in Seq(HostMsg), NEW op \in {"set", "unset", "unsetPrimary"},
           NEW n \in Nat
    PROVE  LET t == Append(s, Cmd(op, n)) IN
              /\ op = "set" => Bound(t, n) /\ ~Quiet(t)
              /\ op = "unset" => (\A src : Bound(t, src)) /\ ~Quiet(t)
              /\ op = "unsetPrimary" =>
                    /\ \A src : Bound(s, src) => Bound(t, src)
                    /\ Quiet(t) => Quiet(s)
<1> DEFINE m == Cmd(op, n)
           t == Append(s, m)
<1>1. m \in HostMsg /\ m.op = op /\ m.arg = n
  BY DEF Cmd, HostMsg
<1> HIDE DEF m
<1>2. \A i : Final(t, i) =>
                /\ m.op # "unsetPrimary" => t[i] = m
                /\ m.op = "unsetPrimary" => Final(s, i) /\ t[i] = s[i]
  BY <1>1, FinalAppend
<1>3. /\ Len(s) \in Nat /\ DOMAIN s = 1..Len(s) /\ DOMAIN t = 1..(Len(s) + 1)
      /\ \A i \in DOMAIN s : t[i] = s[i]
      /\ t[Len(s) + 1] = m
  BY <1>1, AppendProperties, LenProperties
<1> HIDE DEF t
<1>4. op # "unsetPrimary" => ~Quiet(t)
  BY <1>1, <1>3 DEF Quiet
<1>5. op = "set" => Bound(t, n)
  BY <1>1, <1>2 DEF Bound
<1>6. op = "unset" => \A src : Bound(t, src)
  BY <1>1, <1>2 DEF Bound
<1>7. op = "unsetPrimary" => \A src : Bound(s, src) => Bound(t, src)
  BY <1>1, <1>2, <1>3 DEF Bound, Final
<1>8. op = "unsetPrimary" => (Quiet(t) => Quiet(s))
  BY <1>3 DEF Quiet
<1> QED
  BY <1>4, <1>5, <1>6, <1>7, <1>8 DEF t, m

LEMMA TracedCmd ==
    ASSUME WireTypes, Traced, HandleCmd
    PROVE  Traced'
<1> DEFINE c == Head(cmds).arg
<1>1. cmds # <<>> /\ cmds \in Seq(CmdMsg) /\ toHost \in Seq(HostMsg)
  BY DEF HandleCmd, WireTypes
<1>2. c \in Nat
  <2>1. Head(cmds) \in CmdMsg
    BY <1>1, TailIs
  <2> QED
    BY <2>1 DEF CmdMsg
<1>3. /\ Alive /\ sel' = sel
      /\ HandleStore(c) \/ HandlePolicy(c = 1) \/ HandleLoad \/ ClearPushed(TRUE)
  BY DEF HandleCmd, hostVars
<1> HIDE DEF c
<1>4. CASE HandleStore(c)
  <2>1. toHost' = Append(toHost, Cmd("set", c)) /\ source' = c
    BY <1>4 DEF HandleStore
  <2>2. Bound(toHost', source') /\ ~Quiet(toHost')
    BY <1>1, <1>2, <2>1, Added
  <2> QED
    BY <2>2, TracedIs
<1>5. HandlePolicy(c = 1) \/ HandleLoad \/ ClearPushed(TRUE) =>
         UNCHANGED <<toHost, source, main>>
  BY DEF HandlePolicy, HandleLoad, ClearPushed
<1> QED
  BY <1>3, <1>4, <1>5, TracedIs

LEMMA TracedClear ==
    ASSUME WireTypes, Traced, CarryOut
    PROVE  Traced'
<1>1. /\ Alive /\ main' = main /\ sel' = sel
      /\ source' = IF PlanClear[1] THEN None ELSE source
  BY DEF CarryOut, loopVars, hostVars
<1>2. main # "abandoned"
  BY <1>1 DEF Alive
<1>3. /\ Bound(toHost, source)
      /\ sel \in Copies /\ Quiet(toHost) => source = sel
  BY <1>2, TracedIs
<1>4. PICK u \in Seq(HostMsg) :
              /\ u = IF PlanClear[1] THEN Append(toHost, Cmd("unset", 0))
                                     ELSE toHost
              /\ toHost' = IF PlanClear[2] THEN Append(u, Cmd("unsetPrimary", 0))
                                           ELSE u
  BY Cleared DEF WireTypes
<1>5. Bound(u, source') /\ (Quiet(u) /\ sel' \in Copies => source' = sel')
  <2>1. CASE PlanClear[1]
    <3>1. Bound(u, source') /\ ~Quiet(u)
      BY <1>4, <2>1, Added DEF WireTypes
    <3> QED
      BY <3>1
  <2>2. CASE ~PlanClear[1]
    BY <1>1, <1>3, <1>4, <2>2
  <2> QED
    BY <2>1, <2>2
<1>6. Bound(toHost', source') /\ (Quiet(toHost') => Quiet(u))
  <2>1. CASE PlanClear[2]
    BY <1>4, <1>5, <2>1, Added
  <2>2. CASE ~PlanClear[2]
    BY <1>4, <1>5, <2>2
  <2> QED
    BY <2>1, <2>2
<1> QED
  BY <1>5, <1>6, TracedIs

LEMMA TracedHost ==
    ASSUME WireTypes, Traced, HostApplies
    PROVE  Traced'
<1> DEFINE req == Head(toHost)
<1>1. /\ Alive /\ main' = main /\ source' = source
      /\ toHost # <<>> /\ toHost' = Tail(toHost)
      /\ \/ req.op = "set" /\ sel' = req.arg
         \/ req.op = "unset" /\ sel' = None
         \/ req.op = "unsetPrimary" /\ sel' = sel
  BY DEF HostApplies, SelBecomes, loopVars, workVars
<1>2. main # "abandoned"
  BY <1>1 DEF Alive
<1>3. /\ Bound(toHost, source)
      /\ sel \in Copies /\ Quiet(toHost) => source = sel
  BY <1>2, TracedIs
<1>4. toHost \in Seq(HostMsg)
  BY DEF WireTypes
<1>5. /\ \A i : Final(Tail(toHost), i) =>
                   /\ i + 1 \in DOMAIN toHost /\ Final(toHost, i + 1)
                   /\ Tail(toHost)[i] = toHost[i + 1]
      /\ req = toHost[1] /\ 1 \in DOMAIN toHost
      /\ req.op # "unsetPrimary"
         /\ (\A j \in DOMAIN Tail(toHost) : Tail(toHost)[j].op = "unsetPrimary") =>
             Final(toHost, 1)
  BY <1>1, <1>4, FinalTail
<1>6. Bound(toHost', source')
  BY <1>1, <1>3, <1>5 DEF Bound
<1>7. ASSUME sel' \in Copies, Quiet(toHost') PROVE source' = sel'
  <2> HIDE DEF req
  <2>1. \A j \in DOMAIN toHost' : toHost'[j].op = "unsetPrimary"
    <3>1. toHost' \in Seq(HostMsg)
      BY <1>1, <1>4, TailIs
    <3>2. \A j \in DOMAIN toHost' : toHost'[j] \in HostMsg
      BY <3>1, ElementOfSeq, LenProperties
    <3> QED
      BY <1>7, <3>2 DEF Quiet, HostMsg
  <2>2. CASE req.op = "set" /\ sel' = req.arg
    <3>1. Final(toHost, 1)
      BY <1>1, <1>5, <2>1, <2>2
    <3> QED
      BY <1>1, <1>3, <1>5, <2>2, <3>1 DEF Bound
  <2>3. CASE sel' = None
    BY <1>7, <2>3, CopiesAre
  <2>4. CASE req.op = "unsetPrimary" /\ sel' = sel
    <3>1. Quiet(toHost)
      <4>1. \A j \in DOMAIN toHost : j = 1 \/ toHost[j].op = "unsetPrimary"
        <5>1. /\ DOMAIN toHost = 1..Len(toHost) /\ Len(toHost) \in Nat \ {0}
              /\ DOMAIN toHost' = 1..(Len(toHost) - 1)
              /\ \A i \in DOMAIN toHost' : toHost'[i] = toHost[i + 1]
          BY <1>1, <1>4, TailIs
        <5>2. ASSUME NEW j \in DOMAIN toHost, j # 1
              PROVE  toHost[j].op = "unsetPrimary"
          <6>1. j - 1 \in DOMAIN toHost' /\ toHost'[j - 1] = toHost[j]
            BY <5>1, <5>2
          <6> QED
            BY <2>1, <6>1
        <5> QED
          BY <5>2
      <4> QED
        BY <1>5, <2>4, <4>1 DEF Quiet
    <3> QED
      BY <1>1, <1>3, <1>7, <2>4, <3>1
  <2> QED
    BY <1>1, <2>2, <2>3, <2>4
<1> QED
  BY <1>6, <1>7, TracedIs

\* A Cancelled event disowns neither the text of the clipboard nor one that is on
\* its way there: those are in another place.
LEMMA TracedDispatch ==
    ASSUME WireTypes, Tokens, Traced, Dispatch
    PROVE  Traced'
<1>1. /\ Alive /\ fromHost # <<>> /\ UNCHANGED <<main, toHost, sel>>
      /\ source' = IF Disowned(Head(fromHost)) THEN None ELSE source
  BY DEF Dispatch, loopVars, hostVars
<1>2. Head(fromHost) \in Cancelled
  BY <1>1, EventTail DEF WireTypes, Cancelled
<1>3. /\ Bound(toHost, source)
      /\ sel \in Copies /\ Quiet(toHost) => source = sel
  BY <1>1, TracedIs DEF Alive
<1>4. CASE source = Head(fromHost)
  <2>1. source \notin Sets /\ source # sel
    BY <1>2, <1>4 DEF Tokens, Apart
  <2>2. \A i \in DOMAIN toHost : ~(Final(toHost, i) /\ toHost[i].op = "set")
    BY <1>3, <2>1 DEF Bound, Sets, Args
  <2>3. Bound(toHost', source')
    BY <1>1, <2>2 DEF Bound
  <2> QED
    BY <1>1, <1>3, <2>1, <2>3, TracedIs
<1>5. CASE source # Head(fromHost)
  BY <1>1, <1>3, <1>5, TracedIs DEF Disowned
<1> QED
  BY <1>4, <1>5

tracedVars == <<toHost, source, sel>>

LEMMA TracedStep ==
    ASSUME WireTypes, HostTypes, Tokens, Traced, [Next]_vars
    PROVE  Traced'
<1>1. CASE HandleCmd
  BY <1>1, TracedCmd
<1>2. CASE CarryOut
  BY <1>2, TracedClear
<1>3. CASE HostApplies
  BY <1>3, TracedHost
<1>4. CASE Dispatch
  BY <1>4, TracedDispatch
<1>5. CASE HostCopies
  <2>1. /\ sel' = Foreign /\ UNCHANGED <<toHost, source, main>>
    BY <1>5 DEF HostCopies, SelBecomes, loopVars, workVars
  <2> QED
    BY <2>1, TracedIs, CopiesAre
<1>6. CASE Abandon
  BY <1>6 DEF Abandon, Traced
<1>7. CASE UNCHANGED tracedVars /\ (main = "abandoned" => main' = "abandoned")
  BY <1>7, TracedIs DEF tracedVars
<1>8. CopyOutApp \/ CopyOutOwn \/ OpenVolume \/ CloseVolumes \/ SetPolicy =>
         UNCHANGED tracedVars /\ main' = main
  BY DEF CopyOutApp, CopyOutOwn, OpenVolume, CloseVolumes, SetPolicy, tracedVars,
         workVars, wireVars, hostVars, loopVars
<1>9. PasteIn \/ PasteTimesOut \/ Scan \/ Exit \/ ClearWaitEnds \/ JoinAndDrop =>
         UNCHANGED tracedVars /\ main # "abandoned"
  BY DEF PasteIn, PasteTimesOut, Scan, Exit, ClearWaitEnds, JoinAndDrop, tracedVars,
         workVars, wireVars, hostVars
<1>10. \A c \in Copies : PullerEnds(c) => UNCHANGED tracedVars /\ main' = main
  BY DEF PullerEnds, tracedVars, workVars, wireVars, hostVars
<1>11. DeadlineFires \/ ReplyLoad => UNCHANGED tracedVars /\ main # "abandoned"
  BY DEF DeadlineFires, ClearPushed, ReplyLoad, Alive, tracedVars, wireVars, hostVars
<1>12. ReadPrimary \/ Flushed \/ Return => UNCHANGED tracedVars /\ main' = main
  BY DEF ReadPrimary, Flushed, Return, tracedVars, wireVars, hostVars, loopVars
<1>13. HostSelects \/ HostFails => UNCHANGED tracedVars /\ main' = main
  BY DEF HostSelects, HostFails, tracedVars, wireVars, loopVars, workVars
<1>14. UNCHANGED vars => UNCHANGED tracedVars /\ main' = main
  BY DEF vars, tracedVars, wireVars, hostVars, loopVars, workVars
<1> QED
  BY <1>1, <1>2, <1>3, <1>4, <1>5, <1>6, <1>7, <1>8, <1>9, <1>10, <1>11, <1>12,
     <1>13, <1>14 DEF Next, Human, Loop, Worker, Host

LEMMA ScannedStep ==
    ASSUME LoopTypes, Scanned, [Next]_vars
    PROVE  Scanned'
<1>1. CASE Scan
  BY <1>1 DEF Scan, Forget, Scanned, LoopTypes
<1>2. CASE OpenVolume
  BY <1>2 DEF OpenVolume, Scanned
<1>3. CASE CloseVolumes
  BY <1>3 DEF CloseVolumes, Scanned
<1>4. CASE Exit
  BY <1>4 DEF Exit, Scanned
<1>5. CASE ReplyLoad
  BY <1>5 DEF ReplyLoad, Scanned
<1>6. CASE UNCHANGED <<clip, volumes>>
  BY <1>6 DEF Scanned
<1>7. CopyOutApp \/ CopyOutOwn \/ PasteIn \/ SetPolicy \/ PasteTimesOut
      \/ ClearWaitEnds \/ JoinAndDrop \/ Abandon => UNCHANGED <<clip, volumes>>
  BY DEF CopyOutApp, CopyOutOwn, PasteIn, SetPolicy, PasteTimesOut, ClearWaitEnds,
         JoinAndDrop, Abandon, loopVars
<1>8. \A c \in Copies : PullerEnds(c) => UNCHANGED <<clip, volumes>>
  BY DEF PullerEnds
<1>9. HandleCmd \/ DeadlineFires => UNCHANGED <<clip, volumes>>
  BY DEF HandleCmd, HandleStore, HandlePolicy, HandleLoad, DeadlineFires, ClearPushed
<1>10. ReadPrimary \/ CarryOut \/ Flushed \/ Return \/ Dispatch =>
          UNCHANGED <<clip, volumes>>
  BY DEF ReadPrimary, CarryOut, Flushed, Return, Dispatch, loopVars
<1>11. Host => UNCHANGED <<clip, volumes>>
  BY DEF Host, HostApplies, HostCopies, HostSelects, HostFails, loopVars
<1>12. UNCHANGED vars => UNCHANGED <<clip, volumes>>
  BY DEF vars, loopVars
<1> QED
  BY <1>1, <1>2, <1>3, <1>4, <1>5, <1>6, <1>7, <1>8, <1>9, <1>10, <1>11, <1>12
     DEF Next, Human, Loop, Worker

-----------------------------------------------------------------------------
LEMMA InvInit == Init => Inv
<1> SUFFICES ASSUME Init PROVE Inv
  OBVIOUS
<1>1. /\ pullers = {} /\ cmds = <<>> /\ toHost = <<>> /\ fromHost = <<>>
      /\ copies = 0 /\ sel = None /\ DOMAIN fromHost = {} /\ DOMAIN toHost = {}
  BY DEF Init
<1>2. Stores = {} /\ Sets = {} /\ Cancelled = {}
  BY <1>1, NothingLeft DEF Stores, Sets, Cancelled
<1>3. LoopTypes
  BY FS_EmptySet, HostClipAssumption DEF Init, LoopTypes
<1>4. WorkTypes
  BY DEF Init, WorkTypes
<1>5. WireTypes
  BY <1>1, EmptySeq DEF WireTypes
<1>6. HostTypes
  BY HostClipAssumption DEF Init, HostTypes
<1>7. Tokens
  BY <1>1, <1>2, NothingLeft, CopiesAre DEF Tokens, Single, Apart, Named, Once
<1>8. Worked
  BY DEF Init, Worked
<1>9. Traced
  BY <1>1, CopiesAre DEF Traced
<1>10. Scanned
  BY DEF Init, Scanned
<1> QED
  BY <1>3, <1>4, <1>5, <1>6, <1>7, <1>8, <1>9, <1>10 DEF Inv, TypeInv

LEMMA InvStep == Inv /\ [Next]_vars => Inv'
<1> SUFFICES ASSUME Inv, [Next]_vars PROVE Inv'
  OBVIOUS
<1>1. /\ LoopTypes /\ WorkTypes /\ WireTypes /\ HostTypes
      /\ Tokens /\ Named /\ Worked /\ Traced /\ Scanned
  BY DEF Inv, TypeInv, Tokens
<1>2. LoopTypes' /\ HostTypes'
  BY <1>1, LoopTypesStep, HostTypesStep
<1>3. WorkTypes'
  BY <1>1, WorkTypesStep
<1>4. Tokens' /\ WireTypes'
  BY <1>1, TokensStep
<1>5. Worked'
  BY <1>1, WorkedStep
<1>6. Traced'
  BY <1>1, TracedStep
<1>7. Scanned'
  BY <1>1, ScannedStep
<1> QED
  BY <1>2, <1>3, <1>4, <1>5, <1>6, <1>7 DEF Inv, TypeInv

\* The invariant, for every value of the constants.
THEOREM HostClipInv == Spec => []Inv
BY InvInit, InvStep, PTL DEF Spec

\* Every variable keeps its type: the commands, requests and events that the
\* loop, the worker and the host exchange, and the cap on the drain threads.
THEOREM HostClipTypes == Spec => []TypeOK
<1>1. Inv => TypeOK
  <2> SUFFICES ASSUME Inv PROVE TypeOK
    OBVIOUS
  <2>1. LoopTypes /\ WorkTypes /\ WireTypes /\ HostTypes
    BY DEF Inv, TypeInv
  <2>2. /\ \A i \in DOMAIN cmds : cmds[i] \in CmdMsg
        /\ \A i \in DOMAIN toHost : toHost[i] \in HostMsg
        /\ \A i \in DOMAIN fromHost : fromHost[i] \in Copies
    BY <2>1, ElementOfSeq, LenProperties DEF WireTypes
  <2>3. /\ \A i \in DOMAIN cmds :
              cmds[i].op \in {"store", "load", "policy", "exit"}
        /\ \A i \in DOMAIN toHost :
              toHost[i].op \in {"set", "unset", "unsetPrimary"}
    BY <2>2 DEF CmdMsg, HostMsg
  <2> QED
    BY <2>1, <2>2, <2>3 DEF TypeOK, LoopTypes, WorkTypes, HostTypes
<1> QED
  BY <1>1, HostClipInv, PTL

\* A text of the sandbox on the host's clipboard is being counted down, unless
\* the human has turned that off: the worker knows it as its own, because no
\* late Cancelled event can have disowned it.
THEOREM NothingForgotten == Spec => []CountsDown
<1>1. Inv => CountsDown
  <2> SUFFICES ASSUME Inv, sel \in Copies, pc # "stopped", ~Changing
               PROVE  armed \/ ~enabled \/ (pc \in {"reading", "planning"} /\ owns)
    BY DEF CountsDown
  <2>1. source = sel
    BY DEF Inv, Traced, Worked
  <2>2. owns
    BY <2>1, CopiesAre DEF Inv, Worked
  <2> QED
    BY <2>2 DEF Inv, Worked
<1> QED
  BY <1>1, HostClipInv, PTL

\* The display goes after the worker's thread, and then no text of the sandbox
\* is on the host's clipboard but one that the request under way replaces.
THEOREM CleanExit == Spec => []ExitIsClean
<1>1. Inv => ExitIsClean
  <2> SUFFICES ASSUME Inv, main = "dropped"
               PROVE  /\ pc = "stopped"
                      /\ host # "lost" =>
                            pushed = None /\ (sel \in Copies => Changing)
    BY DEF ExitIsClean
  <2>1. pc = "stopped"
    BY DEF Inv, Worked
  <2>2. host # "lost" => pushed = None /\ source = None
    BY <2>1 DEF Inv, TypeInv, WorkTypes, Worked
  <2>3. sel \in Copies /\ ~Changing => source = sel
    BY DEF Inv, Traced
  <2> QED
    BY <2>1, <2>2, <2>3, CopiesAre
<1> QED
  BY <1>1, HostClipInv, PTL

\* A text pasted in for volumes that are gone is not served to those that are
\* open: the scan that sees the last one gone comes before the next open.
THEOREM PasteForgotten == Spec => []NoCarryOver
<1>1. Inv => NoCarryOver
  BY DEF Inv, Scanned, NoCarryOver
<1> QED
  BY <1>1, HostClipInv, PTL
=============================================================================
