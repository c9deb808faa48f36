---------------------------- MODULE BrokerProofs ----------------------------
(***************************************************************************)
(* Every verb is dispatched at most once and in the order of the clicks:   *)
(* for any number of launches, windows, clicks and passphrases, and        *)
(* wherever a broker dies.                                                 *)
(***************************************************************************)
EXTENDS Broker, SequenceTheorems, WellFoundedInduction, TLAPS

Lines == [nonce : Nat, verb : Verbs]

States ==
    [at : {"none", "claiming", "handing", "noting", "raising", "gone"}
              \union Loop,
     modal : {"none", "picker", "passphrase"}, seen : Nat, openSeen : Nat,
     batch : SUBSET Lines, compSeen : BOOLEAN, retries : Nat, opens : Nat,
     wrong : Nat, failed : Nat, jobs : Nat, dialogs : SUBSET Dialog]

TypeInv ==
    /\ clock \in Nat /\ openReq \in Nat
    /\ log \subseteq Lines /\ served \in Seq(Nat)
    /\ broker \in [Launch -> States]

\* Where a launch has the lock, and where its place in the log counts.
Owning == {"noting", "raising"} \union Loop
Reading == {"raising"} \union Loop

\* One broker at a time, and only its loop has verbs that are read and not yet
\* dispatched.
OwnerInv ==
    \A l \in Launch :
        /\ broker[l].at \in Owning => lock = l
        /\ broker[l].at \notin Loop => broker[l].batch = {}

\* Lines have different nonces.
Apart(lines) == \A c, d \in lines : c.nonce = d.nonce => c = d

\* The nonces are times gone by.
LogInv ==
    /\ \A c \in log : c.nonce \in 1..clock
    /\ log = {} \/ \E c \in log : Newest(c)
    /\ Apart(log)
    /\ \A i \in DOMAIN served : served[i] <= clock

\* A verb that was dispatched, by whichever broker, is older than one that is
\* still to be.
Waiting(c) == \A i \in DOMAIN served : served[i] < c.nonce

ReadInv ==
    \A l \in Launch :
        /\ Apart(broker[l].batch)
        /\ \A c \in broker[l].batch :
              c.nonce \in 1..clock /\ c.nonce > broker[l].seen /\ Waiting(c)
        /\ broker[l].at \in Reading =>
              \A c \in log : c.nonce > broker[l].seen => Waiting(c)

Inv == TypeInv /\ OwnerInv /\ LogInv /\ ReadInv /\ ServedInOrder

-----------------------------------------------------------------------------
(* Lemmas.                                                                 *)

\* A set of natural numbers that is not empty has a least element.
LEMMA Least ==
    ASSUME NEW T \in SUBSET Nat, T # {}
    PROVE  \E m \in T : \A k \in T : m <= k
<1> DEFINE R == OpToRel(<, Nat)
<1>1. IsWellFoundedOn(R, Nat)
  BY NatLessThanWellFounded
<1>2. \A x, y \in Nat : <<y, x>> \in R <=> y < x
  BY DEF OpToRel
<1> HIDE DEF R
<1>3. \E x \in T : \A y \in T : ~(<<y, x>> \in R)
  BY <1>1, WFMin
<1>4. PICK m \in T : \A y \in T : ~(<<y, m>> \in R)
  BY <1>3
<1>5. ASSUME NEW k \in T PROVE m <= k
  <2>1. k \in Nat /\ m \in Nat
    OBVIOUS
  <2>2. ~(k < m)
    BY <1>2, <1>4, <2>1
  <2> QED
    BY <2>1, <2>2
<1> QED
  BY <1>5

\* Of the lines that were read, one is the oldest.
LEMMA OldestIs ==
    ASSUME NEW batch \in SUBSET Lines, batch # {}
    PROVE  /\ Oldest(batch) \in batch
           /\ \A d \in batch : Oldest(batch).nonce <= d.nonce
<1> DEFINE T == {c.nonce : c \in batch}
<1>1. T \in SUBSET Nat /\ T # {}
  BY DEF Lines
<1>2. PICK m \in T : \A k \in T : m <= k
  BY <1>1, Least
<1>3. \E c \in batch : \A d \in batch : c.nonce <= d.nonce
  BY <1>2
<1> QED
  BY <1>3 DEF Oldest

\* A broker that starts steps over all there is.
LEMMA LastNonceIs ==
    ASSUME LogInv, TypeInv
    PROVE  LastNonce \in Nat /\ \A c \in log : c.nonce <= LastNonce
<1>1. CASE log = {}
  BY <1>1 DEF LastNonce
<1>2. CASE log # {}
  <2> DEFINE c == CHOOSE c \in log : Newest(c)
  <2>1. c \in log /\ Newest(c)
    BY <1>2 DEF LogInv
  <2>2. LastNonce = c.nonce
    BY <1>2 DEF LastNonce
  <2> HIDE DEF c
  <2> QED
    BY <2>1, <2>2 DEF Newest, TypeInv, Lines
<1> QED
  BY <1>1, <1>2

\* What a step of one launch does to the invariant when it dispatches nothing,
\* reads nothing and neither takes nor leaves the lock.
LEMMA Steps ==
    ASSUME Inv, NEW l \in Launch, NEW s \in States, Become(l, s),
           s.seen = broker[l].seen, s.batch = broker[l].batch,
           s.at \in Owning => broker[l].at \in Owning,
           s.at \in Reading => broker[l].at \in Reading,
           s.at \notin Loop => broker[l].batch = {},
           openReq' \in Nat, UNCHANGED <<clock, log, lock, served>>
    PROVE  Inv'
<1>1. broker \in [Launch -> States] /\ broker' = [broker EXCEPT ![l] = s]
  BY DEF Inv, TypeInv, Become
<1>2. TypeInv'
  BY <1>1 DEF Inv, TypeInv
<1>3. OwnerInv'
  BY <1>1 DEF Inv, OwnerInv
<1>4. LogInv' /\ ServedInOrder'
  BY DEF Inv, LogInv, ServedInOrder, Newest, Apart
<1>5. ReadInv'
  BY <1>1 DEF Inv, ReadInv, Waiting, Apart
<1> QED
  BY <1>2, <1>3, <1>4, <1>5 DEF Inv

LEMMA FreshIs ==
    /\ Fresh \in States /\ Fresh.at = "none" /\ Fresh.batch = {}
    /\ Gone \in States /\ Gone.at = "gone" /\ Gone.batch = {}
BY DEF States, Fresh, Gone, Lines, Loop

\* A launch that ends gives its lock back, if it had it.
LEMMA Ends ==
    ASSUME Inv, NEW l \in Launch, Become(l, Gone),
           \/ lock = l /\ lock' = None
           \/ broker[l].at \notin Owning /\ lock' = lock,
           openReq' \in Nat, UNCHANGED <<clock, log, served>>
    PROVE  Inv'
<1>1. broker \in [Launch -> States] /\ broker' = [broker EXCEPT ![l] = Gone]
  BY DEF Inv, TypeInv, Become
<1>2. TypeInv'
  BY <1>1, FreshIs DEF Inv, TypeInv
<1>3. OwnerInv'
  BY <1>1, FreshIs DEF Inv, OwnerInv, Owning, Loop
<1>4. LogInv' /\ ServedInOrder'
  BY DEF Inv, LogInv, ServedInOrder, Newest, Apart
<1>5. ReadInv'
  BY <1>1, FreshIs DEF Inv, ReadInv, Waiting, Apart, Reading, Loop
<1> QED
  BY <1>2, <1>3, <1>4, <1>5 DEF Inv

-----------------------------------------------------------------------------
(* The steps.                                                              *)

LEMMA InvInit == Init => Inv
<1> SUFFICES ASSUME Init PROVE Inv
  OBVIOUS
<1>1. TypeInv
  BY FreshIs DEF Init, TypeInv
<1>2. OwnerInv /\ LogInv /\ ReadInv /\ ServedInOrder
  BY FreshIs DEF Init, OwnerInv, LogInv, ReadInv, ServedInOrder, Owning,
                 Reading, Loop, Apart
<1> QED
  BY <1>1, <1>2 DEF Inv

\* The compositor clears the log, or appends lines that are younger than all
\* that was ever dispatched.
LEMMA CompStep ==
    ASSUME Inv, CompStarts \/ CompEnds PROVE Inv'
<1>1. log' \in {log, {}} /\ UNCHANGED <<clock, openReq, lock, broker, served>>
  BY DEF CompStarts, CompEnds
<1>2. TypeInv' /\ OwnerInv' /\ ServedInOrder'
  BY <1>1 DEF Inv, TypeInv, OwnerInv, ServedInOrder
<1>3. LogInv' /\ ReadInv'
  BY <1>1 DEF Inv, LogInv, ReadInv, Waiting, Apart, Newest
<1> QED
  BY <1>2, <1>3 DEF Inv

LEMMA ClickStep ==
    ASSUME Inv, NEW verbs \in Seq(Verbs), verbs # <<>>, Click(verbs)
    PROVE  Inv'
<1> DEFINE line(i) == [nonce |-> clock + i, verb |-> verbs[i]]
           new == {line(i) : i \in DOMAIN verbs}
           n == Len(verbs)
<1>1. /\ n \in Nat /\ n > 0 /\ DOMAIN verbs = 1..n
      /\ \A i \in DOMAIN verbs : verbs[i] \in Verbs
  BY LenProperties, EmptySeq
<1>2. /\ clock \in Nat /\ clock' = clock + n /\ log' = log \union new
      /\ UNCHANGED <<openReq, lock, broker, served>>
  BY DEF Click, Inv, TypeInv
<1>3. \A c \in new : c \in Lines /\ c.nonce \in (clock + 1)..(clock + n)
  BY <1>1, <1>2 DEF Lines
<1>4. Apart(new)
  BY <1>1, <1>2 DEF Apart
<1>5. line(n) \in new /\ line(n).nonce = clock + n
  BY <1>1
<1> HIDE DEF new, line, n
<1>6. TypeInv' /\ OwnerInv' /\ ServedInOrder'
  BY <1>1, <1>2, <1>3 DEF Inv, TypeInv, OwnerInv, ServedInOrder
<1>7. \A c \in log : c \in Lines /\ c.nonce \in 1..clock
  BY DEF Inv, TypeInv, LogInv
<1>8. LogInv'
  <2>1. \A c \in log' : c.nonce \in 1..clock'
    BY <1>1, <1>2, <1>3, <1>7 DEF Lines
  <2>2. \E c \in log' : Newest(c)'
    <3>1. \A d \in log' : d.nonce <= line(n).nonce
      BY <1>1, <1>2, <1>5, <2>1
    <3> QED
      BY <1>2, <1>5, <3>1 DEF Newest
  <2>3. Apart(log')
    <3>1. Apart(log)
      BY DEF Inv, LogInv
    <3>2. \A c \in log, d \in new : c.nonce # d.nonce
      BY <1>1, <1>2, <1>3, <1>7
    <3> QED
      BY <1>2, <1>4, <3>1, <3>2 DEF Apart
  <2>4. \A i \in DOMAIN served' : served'[i] <= clock'
    <3>1. \A i \in DOMAIN served : served[i] \in Nat /\ served[i] <= clock
      BY LenProperties DEF Inv, TypeInv, LogInv
    <3> QED
      BY <1>1, <1>2, <3>1
  <2> QED
    BY <2>1, <2>2, <2>3, <2>4 DEF LogInv, Apart
<1>9. ReadInv'
  <2>1. \A c \in new : Waiting(c)'
    <3>1. \A i \in DOMAIN served : served[i] \in Nat /\ served[i] <= clock
      BY LenProperties DEF Inv, TypeInv, LogInv
    <3> QED
      BY <1>1, <1>2, <1>3, <3>1 DEF Waiting
  <2>2. \A l \in Launch :
           \A c \in broker[l].batch : c.nonce \in 1..clock'
    BY <1>1, <1>2 DEF Inv, ReadInv
  <2> QED
    BY <1>2, <2>1, <2>2 DEF Inv, ReadInv, Waiting, Apart
<1> QED
  BY <1>6, <1>8, <1>9 DEF Inv

\* Of the steps of a launch, those that dispatch nothing and read nothing.
LEMMA QuietStep ==
    ASSUME Inv, NEW l \in Launch,
           \/ Launches(l) \/ HandOver(l) \/ Raise(l) \/ Reap(l) \/ Request(l)
           \/ Decide(l) \/ Dies(l) \/ Answers(l)
           \/ OpenEnds(l) \/ JobEnds(l) \/ DialogEnds(l)
    PROVE  Inv'
<1> DEFINE b == broker[l]
<1>1. /\ b \in States /\ openReq \in Nat
      /\ b.at \in Owning => lock = l
      /\ b.at \notin Loop => b.batch = {}
  BY DEF Inv, TypeInv, OwnerInv
<1> USE DEF Moves, compVars, Owning, Reading, Loop
<1>0. b.opens \in Nat /\ b.wrong \in Nat /\ b.failed \in Nat /\ b.jobs \in Nat
  BY <1>1 DEF States
<1>2. CASE Launches(l)
  <2> DEFINE s == [b EXCEPT !.at = "claiming"]
  <2>1. s \in States /\ s.seen = b.seen /\ s.batch = b.batch /\ s.at = "claiming"
    BY <1>1 DEF States
  <2>2. Become(l, s) /\ b.at = "none" /\ UNCHANGED <<clock, log, openReq, lock, served>>
    BY <1>2 DEF Launches
  <2> HIDE DEF s
  <2> QED
    BY <1>1, <2>1, <2>2, Steps
<1>3. CASE HandOver(l)
  BY <1>1, <1>3, Ends DEF HandOver
<1>4. CASE Raise(l)
  <2>1. CASE Moves(l, "reap") /\ UNCHANGED lock
    <3> DEFINE s == [b EXCEPT !.at = "reap"]
    <3>1. s \in States /\ s.seen = b.seen /\ s.batch = b.batch /\ s.at = "reap"
      BY <1>1 DEF States
    <3>2. /\ Become(l, s) /\ b.at = "raising"
          /\ UNCHANGED <<clock, log, openReq, lock, served>>
      BY <1>4, <2>1 DEF Raise
    <3> HIDE DEF s
    <3> QED
      BY <1>1, <3>1, <3>2, Steps
  <2>2. CASE Become(l, Gone) /\ lock' = None
    BY <1>1, <1>4, <2>2, Ends DEF Raise
  <2> QED
    BY <1>4, <2>1, <2>2 DEF Raise
<1>5. CASE Reap(l)
  <2> DEFINE j == b.jobs + b.failed
  <2> DEFINE s == [b EXCEPT !.at = "retry", !.retries = b.wrong, !.wrong = 0,
                            !.jobs = j, !.failed = 0]
  <2>0. j \in Nat
    BY <1>0
  <2>1. s \in States /\ s.seen = b.seen /\ s.batch = b.batch /\ s.at = "retry"
    <3> HIDE DEF j
    <3> QED
      BY <1>1, <2>0 DEF States
  <2>2. Become(l, s) /\ b.at = "reap" /\ UNCHANGED <<clock, log, openReq, lock, served>>
    BY <1>5 DEF Reap, At
  <2> HIDE DEF s
  <2> QED
    BY <1>1, <2>1, <2>2, Steps
<1>6. CASE Request(l)
  <2> DEFINE s == IF openReq = b.openSeen THEN [b EXCEPT !.at = "decide"]
                  ELSE [b EXCEPT !.at = "decide", !.openSeen = openReq,
                                 !.modal = "picker"]
  <2>1. s \in States /\ s.seen = b.seen /\ s.batch = b.batch /\ s.at = "decide"
    BY <1>1 DEF States
  <2>2. Become(l, s) /\ b.at = "request" /\ UNCHANGED <<clock, log, openReq, lock, served>>
    BY <1>6 DEF Request, At
  <2> HIDE DEF s
  <2> QED
    BY <1>1, <2>1, <2>2, Steps
<1>7. CASE Decide(l)
  <2>1. CASE Become(l, Gone) /\ lock' = None
    BY <1>1, <1>7, <2>1, Ends DEF Decide, At
  <2>2. CASE UNCHANGED lock
    <3> DEFINE s == [b EXCEPT !.at = "reap", !.compSeen = @ \/ window,
                              !.dialogs = Killed(l)]
    <3>1. s \in States
      <4>1. (b.compSeen \/ window) \in BOOLEAN /\ Killed(l) \subseteq Dialog
        BY <1>1 DEF States, Killed
      <4> QED
        BY <1>1, <4>1 DEF States
    <3>2. s.seen = b.seen /\ s.batch = b.batch /\ s.at = "reap"
      BY <1>1 DEF States
    <3>3. /\ b.at = "decide" /\ UNCHANGED <<clock, log, openReq, served>>
          /\ Become(l, s) \/ (Become(l, Gone) /\ lock' = None)
      BY <1>7 DEF Decide, At
    <3> HIDE DEF s
    <3> QED
      BY <1>1, <2>1, <2>2, <3>1, <3>2, <3>3, Steps
  <2> QED
    BY <1>7, <2>1, <2>2 DEF Decide
<1>8. CASE Dies(l)
  BY <1>1, <1>8, Ends DEF Dies
<1>9. CASE Answers(l) \/ OpenEnds(l) \/ JobEnds(l) \/ DialogEnds(l)
  <2>1. UNCHANGED <<clock, log, openReq, lock, served>>
    BY <1>9 DEF Answers, Picked, Typed, OpenEnds, JobEnds, DialogEnds
  <2> DEFINE like(s) == s.at = b.at /\ s.seen = b.seen /\ s.batch = b.batch
  <2>2. \E s \in States : Become(l, s) /\ like(s)
    <3>1. ASSUME NEW m \in {"none", "passphrase"}
          PROVE  [b EXCEPT !.modal = m] \in States /\ like([b EXCEPT !.modal = m])
      BY <1>1 DEF States
    <3>2. ASSUME NEW o \in Nat
          PROVE  LET t == [b EXCEPT !.modal = "none", !.opens = o] IN
                    t \in States /\ like(t)
      BY <1>1 DEF States
    <3>3. ASSUME NEW o \in Nat, NEW w \in Nat, NEW f \in Nat
          PROVE  LET s == [b EXCEPT !.opens = o]
                     t == [s EXCEPT !.wrong = w]
                     u == [s EXCEPT !.failed = f] IN
                 /\ s \in States /\ like(s) /\ s.wrong = b.wrong /\ s.failed = b.failed
                 /\ t \in States /\ like(t)
                 /\ u \in States /\ like(u)
      BY <1>1 DEF States
    <3>4. ASSUME NEW j \in Nat
          PROVE  [b EXCEPT !.jobs = j] \in States /\ like([b EXCEPT !.jobs = j])
      BY <1>1 DEF States
    <3>5. ASSUME NEW d PROVE LET t == [b EXCEPT !.dialogs = @ \ {d}] IN
                                t \in States /\ like(t)
      BY <1>1 DEF States
    <3> HIDE DEF like
    <3>6. CASE Picked(l)
      BY <3>1, <3>6 DEF Picked
    <3>7. CASE Typed(l)
      <4>1. b.opens + 1 \in Nat
        BY <1>0
      <4> QED
        BY <3>1, <3>2, <3>7, <4>1 DEF Typed
    <3>8. CASE OpenEnds(l)
      <4>1. b.opens - 1 \in Nat /\ b.wrong + 1 \in Nat /\ b.failed + 1 \in Nat
        BY <1>0, <3>8 DEF OpenEnds
      <4> DEFINE s == [b EXCEPT !.opens = b.opens - 1]
                 t == [s EXCEPT !.wrong = b.wrong + 1]
                 u == [s EXCEPT !.failed = b.failed + 1]
      <4>2. /\ s \in States /\ like(s) /\ s.wrong = b.wrong /\ s.failed = b.failed
            /\ t \in States /\ like(t)
            /\ u \in States /\ like(u)
        BY <3>3, <4>1
      <4>3. Become(l, s) \/ Become(l, t) \/ Become(l, u)
        BY <3>8, <4>2 DEF OpenEnds
      <4> HIDE DEF s, t, u
      <4> QED
        BY <4>2, <4>3
    <3>9. CASE JobEnds(l)
      <4>1. b.jobs - 1 \in Nat
        BY <1>0, <3>9 DEF JobEnds
      <4> QED
        BY <3>4, <3>9, <4>1 DEF JobEnds
    <3>10. CASE DialogEnds(l)
      BY <3>5, <3>10 DEF DialogEnds
    <3> QED
      BY <1>9, <3>6, <3>7, <3>8, <3>9, <3>10 DEF Answers
  <2> QED
    BY <1>1, <2>1, <2>2, Steps
<1> QED
  BY <1>2, <1>3, <1>4, <1>5, <1>6, <1>7, <1>8, <1>9

\* The lock is free, so that no other launch is owning.
LEMMA ClaimStep == ASSUME Inv, NEW l \in Launch, Claim(l) PROVE Inv'
<1> DEFINE b == broker[l]
           s(place) == [b EXCEPT !.at = place]
<1>1. b \in States /\ b.at = "claiming" /\ b.batch = {}
  BY DEF Inv, TypeInv, OwnerInv, Claim, Loop
<1>2. ASSUME NEW place \in {"noting", "handing"}
      PROVE  /\ s(place) \in States /\ s(place).at = place
             /\ s(place).seen = b.seen /\ s(place).batch = b.batch
  BY <1>1 DEF States
<1>3. UNCHANGED <<clock, log, openReq, served>>
  BY DEF Claim, compVars
<1>4. CASE lock # None
  <2>1. Become(l, s("handing")) /\ UNCHANGED lock
    BY <1>4 DEF Claim, Moves
  <2> HIDE DEF s
  <2> QED
    BY <1>1, <1>2, <1>3, <2>1, Steps DEF Owning, Reading, Loop, Inv, TypeInv
<1>5. CASE lock = None
  <2>1. broker' = [broker EXCEPT ![l] = s("noting")] /\ lock' = l
    BY <1>5 DEF Claim, Moves, Become
  <2> HIDE DEF s
  <2>2. \A k \in Launch : broker[k].at \notin Owning
    BY <1>5, BrokerAssumption DEF Inv, OwnerInv
  <2>3. TypeInv'
    BY <1>2, <1>3, <2>1 DEF Inv, TypeInv
  <2>4. OwnerInv'
    BY <1>1, <1>2, <2>1, <2>2 DEF Inv, TypeInv, OwnerInv
  <2>5. LogInv' /\ ServedInOrder'
    BY <1>3 DEF Inv, LogInv, ServedInOrder, Newest, Apart
  <2>6. ReadInv'
    BY <1>1, <1>2, <1>3, <2>1
       DEF Inv, TypeInv, ReadInv, Waiting, Apart, Reading, Loop
  <2> QED
    BY <2>3, <2>4, <2>5, <2>6 DEF Inv
<1> QED
  BY <1>4, <1>5

\* It steps over the backlog: nothing in the log is left to dispatch.
LEMMA NoteStep == ASSUME Inv, NEW l \in Launch, NoteBacklog(l) PROVE Inv'
<1> DEFINE b == broker[l]
           s == [b EXCEPT !.at = "raising", !.seen = LastNonce,
                          !.openSeen = openReq]
<1>1. /\ broker \in [Launch -> States] /\ openReq \in Nat
      /\ b.at = "noting" /\ b.batch = {} /\ lock = l
  BY DEF Inv, TypeInv, OwnerInv, NoteBacklog, Owning, Loop
<1>2. LastNonce \in Nat /\ \A c \in log : c \in Lines /\ c.nonce <= LastNonce
  BY LastNonceIs DEF Inv, TypeInv
<1>3. /\ s \in States /\ s.at = "raising" /\ s.batch = {} /\ s.seen = LastNonce
  BY <1>1, <1>2 DEF States
<1>4. /\ broker' = [broker EXCEPT ![l] = s]
      /\ UNCHANGED <<clock, log, openReq, lock, served>>
  BY DEF NoteBacklog, compVars, Become
<1> HIDE DEF s
<1>5. TypeInv'
  BY <1>1, <1>3, <1>4 DEF Inv, TypeInv
<1>6. OwnerInv'
  BY <1>1, <1>3, <1>4 DEF Inv, OwnerInv, Owning, Loop
<1>7. LogInv' /\ ServedInOrder'
  BY <1>4 DEF Inv, LogInv, ServedInOrder, Newest, Apart
<1>8. ReadInv'
  <2>1. \A c \in log : ~(c.nonce > s.seen)
    BY <1>2, <1>3 DEF Lines
  <2> QED
    BY <1>1, <1>3, <1>4, <2>1 DEF Inv, ReadInv, Waiting, Apart
<1> QED
  BY <1>5, <1>6, <1>7, <1>8 DEF Inv

\* The verbs it reads are those that it still has to dispatch.
LEMMA RetryStep == ASSUME Inv, NEW l \in Launch, Retry(l) PROVE Inv'
<1> DEFINE b == broker[l]
           again == [b EXCEPT !.retries = @ - 1, !.modal = "passphrase"]
           read == [b EXCEPT !.at = "drain", !.batch = Pending(l)]
<1>1. /\ broker \in [Launch -> States] /\ b \in States /\ b.retries \in Nat
      /\ b.at = "retry" /\ lock = l
  BY DEF Inv, TypeInv, OwnerInv, Retry, At, States, Owning, Loop
<1>2. UNCHANGED <<clock, log, openReq, lock, served>>
  BY DEF Retry, compVars
<1>3. CASE b.retries > 0
  <2>1. b.retries - 1 \in Nat
    BY <1>1, <1>3
  <2>2. /\ again \in States /\ again.at = b.at
        /\ again.seen = b.seen /\ again.batch = b.batch
    BY <1>1, <2>1 DEF States
  <2>3. Become(l, again)
    BY <1>3 DEF Retry
  <2> HIDE DEF again
  <2> QED
    BY <1>1, <1>2, <2>2, <2>3, Steps DEF Inv, TypeInv, Loop
<1>4. CASE ~(b.retries > 0)
  <2>1. Pending(l) \subseteq log /\ log \subseteq Lines
    BY DEF Pending, Inv, TypeInv
  <2>2. /\ read \in States /\ read.at = "drain"
        /\ read.seen = b.seen /\ read.batch = Pending(l)
    BY <1>1, <2>1 DEF States, Loop
  <2>3. broker' = [broker EXCEPT ![l] = read]
    BY <1>4 DEF Retry, Become
  <2> HIDE DEF read
  <2>4. TypeInv'
    BY <1>1, <1>2, <2>2, <2>3 DEF Inv, TypeInv
  <2>5. OwnerInv'
    BY <1>1, <1>2, <2>2, <2>3 DEF Inv, OwnerInv, Loop
  <2>6. LogInv' /\ ServedInOrder'
    BY <1>2 DEF Inv, LogInv, ServedInOrder, Newest, Apart
  <2>7. ReadInv'
    <3>1. \A c \in Pending(l) :
             c.nonce \in 1..clock /\ c.nonce > b.seen /\ Waiting(c)
      BY <1>1 DEF Pending, Inv, LogInv, ReadInv, Reading, Loop
    <3>2. Apart(Pending(l))
      BY <2>1 DEF Inv, LogInv, Apart
    <3> QED
      BY <1>1, <1>2, <2>2, <2>3, <3>1, <3>2
         DEF Inv, ReadInv, Waiting, Apart, Reading, Loop
  <2> QED
    BY <2>4, <2>5, <2>6, <2>7 DEF Inv
<1> QED
  BY <1>3, <1>4

\* What dispatch makes of a verb has no part in the order.
LEMMA DispatchedIs ==
    ASSUME NEW s \in States, NEW verb \in Verbs
    PROVE  LET t == Dispatched(s, verb) IN
           /\ t \in States /\ t.at = s.at /\ t.seen = s.seen
           /\ t.batch = s.batch
<1>0. s.jobs + 1 \in Nat
  BY DEF States
<1>1. CASE verb = "open"
  BY <1>1 DEF Dispatched, States
<1>2. CASE verb = "close-volume"
  <2> DEFINE j == s.jobs + 1
  <2>1. Dispatched(s, verb) = [s EXCEPT !.jobs = j]
    BY <1>2 DEF Dispatched
  <2>2. j \in Nat
    BY <1>0
  <2> HIDE DEF j
  <2> QED
    BY <2>1, <2>2 DEF States
<1>3. CASE verb \in Dialog
  <2>1. verb # "open" /\ verb # "close-volume"
    BY <1>3, BrokerAssumption
  <2> QED
    BY <1>3, <2>1 DEF Dispatched, States
<1> QED
  BY <1>1, <1>2, <1>3 DEF Verbs

\* The oldest verb goes first, and it is younger than all that went before.
LEMMA DrainStep == ASSUME Inv, NEW l \in Launch, Drain(l) PROVE Inv'
<1> DEFINE b == broker[l]
<1>1. /\ broker \in [Launch -> States] /\ b \in States
      /\ b.at = "drain" /\ lock = l
      /\ UNCHANGED <<clock, log, openReq, lock>>
  BY DEF Inv, TypeInv, OwnerInv, Drain, At, compVars, Owning, Loop
<1>2. CASE b.batch = {}
  <2> DEFINE s == [b EXCEPT !.at = "request"]
  <2>1. s \in States /\ s.at = "request" /\ s.seen = b.seen /\ s.batch = b.batch
    BY <1>1 DEF States, Loop
  <2>2. Become(l, s) /\ UNCHANGED served
    BY <1>2 DEF Drain, Moves
  <2> HIDE DEF s
  <2> QED
    BY <1>1, <2>1, <2>2, Steps DEF Inv, TypeInv, Owning, Reading, Loop
<1>3. CASE b.batch # {}
  <2> DEFINE next == Oldest(b.batch)
             s == [b EXCEPT !.seen = next.nonce, !.batch = @ \ {next}]
             t == Dispatched(s, next.verb)
  <2>1. /\ b.batch \in SUBSET Lines /\ next \in b.batch
        /\ \A d \in b.batch : next.nonce <= d.nonce
    BY <1>1, <1>3, OldestIs DEF States
  <2>2. next \in Lines /\ next.nonce \in Nat /\ next.verb \in Verbs
    BY <2>1 DEF Lines
  <2>3. s \in States /\ s.at = b.at /\ s.seen = next.nonce
        /\ s.batch = b.batch \ {next}
    BY <1>1, <2>2 DEF States
  <2>4. t \in States /\ t.at = "drain" /\ t.seen = next.nonce
        /\ t.batch = b.batch \ {next}
    BY <1>1, <2>2, <2>3, DispatchedIs
  <2>5. broker' = [broker EXCEPT ![l] = t] /\ served' = Append(served, next.nonce)
    BY <1>3 DEF Drain, Become
  <2> HIDE DEF next, s, t
  <2>6. /\ next.nonce \in 1..clock /\ next.nonce > b.seen /\ Waiting(next)
        /\ Apart(b.batch)
    BY <2>1 DEF Inv, ReadInv
  <2>7. /\ served \in Seq(Nat) /\ served' \in Seq(Nat)
        /\ Len(served) \in Nat /\ DOMAIN served = 1..Len(served)
        /\ DOMAIN served' = 1..(Len(served) + 1)
        /\ \A i \in DOMAIN served : served'[i] = served[i]
        /\ served'[Len(served) + 1] = next.nonce
    BY <2>2, <2>5, AppendProperties, LenProperties DEF Inv, TypeInv
  <2>8. \A i \in DOMAIN served' : i \in DOMAIN served \/ i = Len(served) + 1
    BY <2>7
  <2>9. TypeInv'
    BY <1>1, <2>4, <2>5, <2>7 DEF Inv, TypeInv
  <2>10. OwnerInv'
    BY <1>1, <2>4, <2>5 DEF Inv, OwnerInv, Loop
  <2>11. LogInv'
    <3>1. \A i \in DOMAIN served' : served'[i] <= clock'
      BY <1>1, <2>6, <2>7, <2>8 DEF Inv, TypeInv, LogInv
    <3> QED
      BY <1>1, <3>1 DEF Inv, LogInv, Newest, Apart
  <2>12. ServedInOrder'
    <3> SUFFICES ASSUME NEW i \in DOMAIN served', NEW j \in DOMAIN served', i < j
                 PROVE  served'[i] < served'[j]
      BY DEF ServedInOrder
    <3>1. i \in DOMAIN served
      BY <2>7
    <3>2. CASE j \in DOMAIN served
      BY <2>7, <3>1, <3>2 DEF Inv, ServedInOrder
    <3>3. CASE j = Len(served) + 1
      BY <2>6, <2>7, <3>1, <3>3 DEF Waiting
    <3> QED
      BY <2>8, <3>2, <3>3
  <2>13. ReadInv'
    <3>1. ASSUME NEW c \in Lines, c.nonce > next.nonce, Waiting(c)
          PROVE  Waiting(c)'
      BY <2>7, <2>8, <3>1 DEF Waiting
    <3>2. ASSUME NEW c \in b.batch \ {next}
          PROVE  /\ c \in Lines /\ c.nonce \in 1..clock /\ c.nonce > next.nonce
                 /\ Waiting(c)'
      <4>1. c \in Lines /\ c.nonce \in Nat /\ next.nonce <= c.nonce
        BY <2>1, <3>2 DEF Lines
      <4>2. c.nonce # next.nonce
        BY <2>1, <2>6, <3>2 DEF Apart
      <4>3. c.nonce > next.nonce
        BY <2>2, <4>1, <4>2
      <4>4. c.nonce \in 1..clock /\ Waiting(c)
        BY <3>2 DEF Inv, ReadInv
      <4> QED
        BY <3>1, <4>1, <4>3, <4>4
    <3>3. ASSUME NEW c \in log, c.nonce > next.nonce PROVE Waiting(c)'
      <4>1. c \in Lines /\ c.nonce \in Nat /\ b.seen \in Nat
        BY <1>1 DEF Inv, TypeInv, Lines, States
      <4>2. c.nonce > b.seen
        BY <2>2, <2>6, <3>3, <4>1
      <4>3. Waiting(c)
        BY <1>1, <4>2 DEF Inv, ReadInv, Reading, Loop
      <4> QED
        BY <3>1, <3>3, <4>1, <4>3
    <3>4. ASSUME NEW k \in Launch, k # l
          PROVE  /\ broker'[k] = broker[k] /\ broker[k].batch = {}
                 /\ broker[k].at \notin Reading
      BY <1>1, <2>5, <3>4 DEF Inv, OwnerInv, Owning, Reading, Loop
    <3>5. broker'[l] = t
      BY <1>1, <2>5
    <3>6. Apart(t.batch)
      BY <2>4, <2>6 DEF Apart
    <3> SUFFICES ASSUME NEW k \in Launch
                 PROVE  /\ Apart(broker'[k].batch)
                        /\ \A c \in broker'[k].batch :
                              /\ c.nonce \in 1..clock' /\ c.nonce > broker'[k].seen
                              /\ Waiting(c)'
                        /\ broker'[k].at \in Reading =>
                              \A c \in log' :
                                 c.nonce > broker'[k].seen => Waiting(c)'
      BY DEF ReadInv, Apart
    <3>7. CASE k = l
      BY <1>1, <2>4, <3>2, <3>3, <3>5, <3>6, <3>7
    <3>8. CASE k # l
      BY <3>4, <3>8 DEF Apart
    <3> QED
      BY <3>7, <3>8
  <2> QED
    BY <2>9, <2>10, <2>11, <2>12, <2>13 DEF Inv
<1> QED
  BY <1>2, <1>3

LEMMA InvStep == Inv /\ [Next]_vars => Inv'
<1> SUFFICES ASSUME Inv, [Next]_vars PROVE Inv'
  OBVIOUS
<1>1. ASSUME NEW v \in Verbs, Click(<<v>>) PROVE Inv'
  <2>1. <<v>> \in Seq(Verbs) /\ <<v>> # <<>>
    OBVIOUS
  <2> QED
    BY <1>1, <2>1, ClickStep
<1>2. CASE Click(<<"close-volume", "close-volume">>)
  <2> DEFINE two == <<"close-volume", "close-volume">>
  <2>1. two \in Seq(Verbs) /\ two # <<>>
    BY DEF Verbs
  <2> HIDE DEF two
  <2> QED
    BY <1>2, <2>1, ClickStep DEF two
<1>3. CASE UNCHANGED vars
  BY <1>3 DEF vars, compVars, Inv, TypeInv, OwnerInv, LogInv, ReadInv,
              ServedInOrder, Newest, Waiting
<1> QED
  BY <1>1, <1>2, <1>3, CompStep, QuietStep, ClaimStep, NoteStep, RetryStep,
     DrainStep DEF Next, Comes, Turns

\* Each verb is dispatched at most once and in the order of the clicks, whoever
\* dispatches it: cmd_seen only grows (run_broker), a broker that starts steps
\* over what others may have served (last_command_nonce), and only the holder of
\* the lock on broker.pid reads at all (claim_single_instance).
THEOREM ServedOnceInOrder == Spec => []ServedInOrder
<1>1. Inv => ServedInOrder
  BY DEF Inv
<1> QED
  BY <1>1, InvInit, InvStep, PTL DEF Spec

\* Never two brokers at once: whoever has come past the claim holds the lock.
THEOREM OneBroker ==
    Spec => [](\A k, l \in Launch :
                  broker[k].at \in Owning /\ broker[l].at \in Owning => k = l)
<1>1. Inv => \A k, l \in Launch :
                broker[k].at \in Owning /\ broker[l].at \in Owning => k = l
  BY DEF Inv, OwnerInv
<1> QED
  BY <1>1, InvInit, InvStep, PTL DEF Spec
=============================================================================
