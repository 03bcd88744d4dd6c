-------------------------- MODULE MsgQueueProofs --------------------------
(***************************************************************************)
(* Theorems about MsgQueue, for every number of accounts, messages and     *)
(* goroutines, and for every value of the bounds: its types, and what the  *)
(* web hooks and reconcile together leave in the table.                    *)
(***************************************************************************)
EXTENDS MsgQueue, TLAPS

-----------------------------------------------------------------------------
(* Type correctness                                                        *)

\* A part of the state that a step leaves alone keeps its type.
LEMMA Untouched ==
  ASSUME TypeOK
  PROVE  /\ UNCHANGED <<table, old>> => TypeTable'
         /\ UNCHANGED sender => TypeSender'
         /\ UNCHANGED <<outside, settings>> => TypeOutside'
         /\ UNCHANGED bounds => TypeBounds'
         /\ UNCHANGED <<chan, job, todo>> => TypeJobs'
<1>1. UNCHANGED <<table, old>> => TypeTable'
  BY DEF TypeOK, TypeTable, table
<1>2. UNCHANGED sender => TypeSender'
  BY DEF TypeOK, TypeSender, sender
<1>3. UNCHANGED <<outside, settings>> => TypeOutside'
  BY DEF TypeOK, TypeOutside, outside, settings
<1>4. UNCHANGED bounds => TypeBounds'
  BY DEF TypeOK, TypeBounds, bounds
<1>5. UNCHANGED <<chan, job, todo>> => TypeJobs'
  BY DEF TypeOK, TypeJobs
<1> QED
  BY <1>1, <1>2, <1>3, <1>4, <1>5

LEMMA InitTypeOK == Init => TypeOK
<1> SUFFICES ASSUME Init PROVE TypeOK
  OBVIOUS
<1>1. TypeTable
  <2>1. DOMAIN rows = {} /\ rows \in [{} -> Row]
    BY DEF Init
  <2>2. 0 \in 0..MaxRows
    BY BoundAssumption
  <2> QED
    BY <2>1, <2>2 DEF Init, TypeTable
<1>2. TypeJobs
  BY BoundAssumption DEF Init, TypeJobs, Job, Idle
<1>3. TypeSender
  BY DEF Init, TypeSender
<1>4. TypeOutside /\ TypeBounds
  BY DEF Init, TypeOutside, TypeBounds
<1> QED
  BY <1>1, <1>2, <1>3, <1>4 DEF TypeOK

LEMMA IdleJob == Idle \in Job
  BY DEF Idle, Job

\* One goroutine takes a step.
LEMMA JobStep ==
  ASSUME TypeOK, NEW p \in Procs, NEW j \in Job, job' = [job EXCEPT ![p] = j]
  PROVE  job' \in [Procs -> Job]
  BY DEF TypeOK, TypeJobs

LEMMA AbortType ==
  ASSUME TypeOK, NEW p \in Procs, Abort(p), UNCHANGED chan
  PROVE  TypeJobs'
  BY IdleJob, JobStep DEF Abort, TypeOK, TypeJobs

LEMMA FaultType ==
  ASSUME TypeOK, Fault, UNCHANGED <<posts, uploads, admin, crashes, months>>
  PROVE  TypeBounds'
  BY DEF Fault, TypeOK, TypeBounds

\* An INSERT leaves the table well typed.
LEMMA InsertType ==
  ASSUME TypeOK, NEW m \in Msgs \cup {NoMsg}, NEW a \in Accounts \cup {Nobody},
         NEW k \in Nat, NEW st \in {"new", "fail", "ok"}, Insert(m, a, k, st),
         UNCHANGED old
  PROVE  TypeTable'
<1>1. PICK r \in Uids :
        /\ rows' = [q \in DOMAIN rows \cup {r} |->
                       IF q = r
                       THEN [uid |-> seq + 1, mid |-> m, toid |-> a, part |-> k,
                             status |-> st, cool |-> FALSE]
                       ELSE rows[q]]
        /\ reused' = (reused \/ \E e \in recs : e.rowid = r)
  BY DEF Insert
<1>2. seq + 1 \in Uids /\ seq' = seq + 1
  BY BoundAssumption DEF Insert, TypeOK, TypeTable, Uids
<1>3. [uid |-> seq + 1, mid |-> m, toid |-> a, part |-> k,
       status |-> st, cool |-> FALSE] \in Row
  BY <1>2 DEF Row
<1>4. DOMAIN rows' \subseteq Uids /\ rows' \in [DOMAIN rows' -> Row]
  BY <1>1, <1>3 DEF TypeOK, TypeTable
<1>5. seq' \in 0..MaxRows /\ old' \in 0..MaxRows /\ reused' \in BOOLEAN
  BY <1>1, <1>2, BoundAssumption DEF TypeOK, TypeTable, Uids
<1> QED
  BY <1>4, <1>5 DEF TypeTable

LEMMA ProducerType == ASSUME TypeOK, NEW p \in Procs, Producer(p) PROVE TypeOK'
<1> USE Untouched
<1>1. job[p] \in Job
  BY DEF TypeOK, TypeJobs
<1>2. CASE CheckBlocked(p)
  <2> DEFINE d == IF IsBlocked(job[p].mid) THEN <<>> ELSE job[p].dids
  <2>1. d \in Seq(Dids)
    BY <1>1 DEF Job
  <2>2. job' = [job EXCEPT ![p] = [job[p] EXCEPT !.pc = "did", !.dids = d]]
    BY <1>1, <1>2 DEF CheckBlocked, Job
  <2>3. [job[p] EXCEPT !.pc = "did", !.dids = d] \in Job
    <3> HIDE DEF d
    <3> QED BY <1>1, <2>1 DEF Job
  <2>4. TypeJobs'
    BY <1>2, <2>2, <2>3, JobStep DEF CheckBlocked, TypeOK, TypeJobs
  <2> QED
    BY <1>2, <2>4 DEF CheckBlocked, TypeOK
<1>3. CASE CheckBlockedErr(p)
  <2>1. TypeOutside'
    BY <1>3 DEF CheckBlockedErr, TypeOK, TypeOutside, settings
  <2> QED
    BY <1>3, <2>1, AbortType, FaultType DEF CheckBlockedErr, TypeOK
<1>4. CASE LookupDid(p)
  <2> DEFINE l == Recipients(Head(job[p].dids)) \X (1..Parts[job[p].mid])
             st == IF l = {} THEN "did" ELSE "insert"
  <2>1. l \in SUBSET (Accounts \X Nat) /\ st \in {"did", "insert"}
    BY DEF Recipients
  <2>2. Tail(job[p].dids) \in Seq(Dids)
    BY <1>1, <1>4 DEF LookupDid, Job
  <2>3. job' = [job EXCEPT ![p] =
                  [job[p] EXCEPT !.dids = Tail(@), !.left = l, !.pc = st]]
    BY <1>1, <1>4 DEF LookupDid, Job
  <2>4. [job[p] EXCEPT !.dids = Tail(@), !.left = l, !.pc = st] \in Job
    <3> HIDE DEF l, st
    <3> QED BY <1>1, <2>1, <2>2 DEF Job
  <2>5. TypeJobs'
    BY <1>4, <2>3, <2>4, JobStep DEF LookupDid, TypeOK, TypeJobs
  <2> QED
    BY <1>4, <2>5 DEF LookupDid, TypeOK
<1>5. CASE LookupDidErr(p)
  BY <1>5, AbortType, FaultType DEF LookupDidErr, TypeOK
<1>6. CASE InsertPart(p)
  <2>1. PICK i \in job[p].left :
          /\ Insert(job[p].mid, i[1], i[2], "new")
          /\ job' = [job EXCEPT
                       ![p].left = @ \ {i}, ![p].noinsert = FALSE,
                       ![p].pc = IF job[p].left = {i} THEN "did" ELSE "insert"]
    BY <1>6 DEF InsertPart
  <2>2. i[1] \in Accounts /\ i[2] \in Nat /\ job[p].mid \in Msgs \cup {NoMsg}
    BY <1>1 DEF Job
  <2>3. TypeTable'
    BY <1>6, <2>1, <2>2, InsertType DEF InsertPart
  <2> DEFINE st == IF job[p].left = {i} THEN "did" ELSE "insert"
             l == job[p].left \ {i}
  <2>4. st \in {"did", "insert"} /\ l \in SUBSET (Accounts \X Nat)
    BY <1>1 DEF Job
  <2>5. job' = [job EXCEPT ![p] =
                  [job[p] EXCEPT !.left = l, !.noinsert = FALSE, !.pc = st]]
    BY <1>1, <2>1 DEF Job
  <2>6. [job[p] EXCEPT !.left = l, !.noinsert = FALSE, !.pc = st] \in Job
    <3> HIDE DEF l, st
    <3> QED BY <1>1, <2>4 DEF Job
  <2>7. TypeJobs'
    BY <1>6, <2>5, <2>6, JobStep DEF InsertPart, TypeOK, TypeJobs
  <2> QED
    BY <1>6, <2>3, <2>7 DEF InsertPart, TypeOK
<1>7. CASE InsertPartErr(p)
  <2>1. TypeJobs'
    <3>1. CASE job[p].mid = NoMsg
      <4>1. job' = [job EXCEPT ![p] = [job[p] EXCEPT !.pc = "did", !.left = {}]]
        BY <1>1, <1>7, <3>1 DEF InsertPartErr, Job
      <4>2. [job[p] EXCEPT !.pc = "did", !.left = {}] \in Job
        BY <1>1 DEF Job
      <4> QED
        BY <1>7, <3>1, <4>1, <4>2, JobStep DEF InsertPartErr, TypeOK, TypeJobs
    <3>2. CASE job[p].mid # NoMsg
      BY <1>7, <3>2, AbortType DEF InsertPartErr
    <3> QED
      BY <3>1, <3>2
  <2> QED
    BY <1>7, <2>1, FaultType DEF InsertPartErr, TypeOK
<1>8. [Idle EXCEPT !.pc = "list"] \in Job
  BY IdleJob DEF Job
<1>9. CASE Queued(p)
  <2>1. [job[p] EXCEPT !.pc = "bump"] \in Job
    BY <1>1 DEF Job
  <2>2. CASE p = Reco
    <3>1. job' = [job EXCEPT ![p] = [Idle EXCEPT !.pc = "list"]]
      BY <1>9, <2>2 DEF Queued
    <3>2. TypeJobs'
      BY <1>8, <1>9, <3>1, JobStep DEF Queued, TypeOK, TypeJobs
    <3> QED
      BY <1>9, <3>2 DEF Queued, TypeOK
  <2>3. CASE p # Reco
    <3>1. job' = [job EXCEPT ![p] = [job[p] EXCEPT !.pc = "bump"]]
      BY <1>9, <2>3 DEF Queued, TypeOK, TypeJobs
    <3>2. TypeJobs'
      BY <1>9, <2>1, <3>1, JobStep DEF Queued, TypeOK, TypeJobs
    <3> QED
      BY <1>9, <3>2 DEF Queued, TypeOK
  <2> QED
    BY <2>2, <2>3
<1>10. CASE Dummy(p)
  <2>1. \E j \in Job : job' = [job EXCEPT ![p] = j]
    BY <1>8, <1>10, IdleJob DEF Dummy
  <2>2. TypeJobs'
    BY <1>10, <2>1, JobStep DEF Dummy, TypeOK, TypeJobs
  <2>3. job[p].mid \in Msgs \cup {NoMsg}
    BY <1>1 DEF Job
  <2>4. TypeTable'
    BY <1>10, <2>3, InsertType DEF Dummy
  <2>5. TypeOutside'
    BY <1>10 DEF Dummy, TypeOK, TypeOutside, settings
  <2>6. TypeBounds'
    BY <1>10, FaultType DEF Dummy, TypeOK, TypeBounds
  <2> QED
    BY <1>10, <2>2, <2>4, <2>5, <2>6 DEF Dummy, TypeOK
<1> QED
  BY <1>2, <1>3, <1>4, <1>5, <1>6, <1>7, <1>9, <1>10 DEF Producer

LEMMA ReconcileType == TypeOK /\ Reconcile => TypeOK'
<1> SUFFICES ASSUME TypeOK, Reconcile PROVE TypeOK'
  OBVIOUS
<1> USE Untouched
<1>1. Reco \in Procs /\ job[Reco] \in Job
  BY DEF TypeOK, TypeJobs, Procs
<1>2. CASE RecoStart
  <2>1. [job[Reco] EXCEPT !.pc = "list"] \in Job
    BY <1>1 DEF Job
  <2>2. job' = [job EXCEPT ![Reco] = [job[Reco] EXCEPT !.pc = "list"]]
    BY <1>1, <1>2 DEF RecoStart
  <2>3. TypeJobs'
    BY <1>1, <1>2, <2>1, <2>2, JobStep DEF RecoStart, TypeOK, TypeJobs
  <2> QED
    BY <1>2, <2>3 DEF RecoStart, TypeOK
<1>3. ASSUME NEW m \in Msgs, RecoCheck(m) PROVE TypeOK'
  <2> DEFINE d == <<Head(To[m])>>
             j == [Idle EXCEPT !.pc = "block", !.mid = m, !.dids = d]
  <2>1. d \in Seq(Dids)
    BY MessageAssumption
  <2>2. j \in Job
    <3> HIDE DEF d
    <3> QED BY <2>1, IdleJob DEF Job
  <2>3. job' \in [Procs -> Job]
    <3>1. CASE NeedsQueueing(m)
      <4>1. job' = [job EXCEPT ![Reco] = j]
        BY <1>3, <3>1 DEF RecoCheck
      <4> HIDE DEF j
      <4> QED BY <1>1, <2>2, <4>1, JobStep
    <3>2. CASE ~NeedsQueueing(m)
      BY <1>3, <3>2 DEF RecoCheck, TypeOK, TypeJobs
    <3> QED
      BY <3>1, <3>2
  <2>4. TypeJobs'
    BY <1>3, <2>3 DEF RecoCheck, TypeOK, TypeJobs
  <2> QED
    BY <1>3, <2>4 DEF RecoCheck, TypeOK
<1>4. CASE RecoCheckErr
  BY <1>1, <1>4, AbortType, FaultType DEF RecoCheckErr, TypeOK
<1>5. CASE RecoDone
  BY <1>1, <1>5, AbortType DEF RecoDone, TypeOK
<1> QED
  BY <1>2, <1>3, <1>4, <1>5 DEF Reconcile

LEMMA SendingType == TypeOK /\ Sending => TypeOK'
<1> SUFFICES ASSUME TypeOK, Sending PROVE TypeOK'
  OBVIOUS
<1> USE Untouched
<1>1. CASE Wake
  <2>1. TypeSender' /\ chan' \in 0..ChanCap
    BY <1>1, BoundAssumption DEF Wake, TypeOK, TypeSender, TypeJobs
  <2> QED
    BY <1>1, <2>1 DEF Wake, TypeOK, TypeJobs
<1>2. CASE Select
  <2>1. \A r \in DOMAIN rows : Due(r) =>
          [rowid |-> r, uid |-> rows[r].uid, toid |-> rows[r].toid] \in Rec
    BY DEF Due, TypeOK, TypeTable, Row, Rec
  <2>2. recs' \subseteq Rec
    BY <1>2, <2>1 DEF Select
  <2>3. TypeSender'
    BY <1>2, <2>2 DEF Select, TypeOK, TypeSender
  <2> QED
    BY <1>2, <2>3 DEF Select, TypeOK
<1>3. CASE SelectErr
  BY <1>3, FaultType DEF SelectErr, TypeOK
<1>4. ASSUME NEW ok \in BOOLEAN, Sip(ok) PROVE TypeOK'
  <2>1. PICK e \in recs :
          /\ tried' = [tried EXCEPT ![e.toid] = e.uid]
          /\ accepted' = IF ok THEN accepted \cup {e.uid} ELSE accepted
          /\ hot' = hot \cup {e.uid}
    BY <1>4 DEF Sip
  <2>2. e.uid \in Uids /\ e.toid \in Accounts
    BY DEF TypeOK, TypeSender, Rec
  <2>3. TypeSender'
    BY <1>4, <2>1, <2>2 DEF Sip, TypeOK, TypeSender
  <2> QED
    BY <1>4, <2>3 DEF Sip, TypeOK
<1>5. ASSUME NEW e \in recs, NextRec(e), UNCHANGED tried,
             accepted' \subseteq accepted, hot' \subseteq hot
      PROVE  TypeSender'
  BY <1>5 DEF NextRec, TypeOK, TypeSender
<1>6. CASE Update
  <2>1. PICK e \in recs :
          /\ rows' = IF e.rowid \in DOMAIN rows THEN Mark(e.rowid) ELSE rows
          /\ NextRec(e)
    BY <1>6 DEF Update
  <2>2. TypeSender'
    BY <1>5, <1>6, <2>1 DEF Update
  <2>3. DOMAIN rows' = DOMAIN rows
    BY <2>1 DEF Mark, TypeOK, TypeTable
  <2>4. \A r \in DOMAIN rows : rows'[r] \in Row
    BY <2>1 DEF Mark, TypeOK, TypeTable, TypeSender, Row
  <2>5. rows' \in [DOMAIN rows' -> Row]
    BY <2>1, <2>3, <2>4 DEF Mark, TypeOK, TypeTable
  <2>6. TypeTable'
    BY <1>6, <2>3, <2>5 DEF Update, TypeOK, TypeTable
  <2> QED
    BY <1>6, <2>2, <2>6 DEF Update, TypeOK
<1>7. CASE UpdateErr
  BY <1>5, <1>7, FaultType DEF UpdateErr, Forget, TypeOK
<1> QED
  BY <1>1, <1>2, <1>3, <1>4, <1>6, <1>7 DEF Sending

LEMMA EnvironmentType == TypeOK /\ Environment => TypeOK'
<1> SUFFICES ASSUME TypeOK, Environment PROVE TypeOK'
  OBVIOUS
<1> USE Untouched
<1>1. ASSUME NEW m \in Msgs, Arrive(m) PROVE TypeOK'
  <2>1. TypeOutside'
    BY <1>1 DEF Arrive, TypeOK, TypeOutside, settings
  <2> QED
    BY <1>1, <2>1 DEF Arrive, TypeOK
<1>2. ASSUME NEW h \in Handlers, NEW m \in Msgs, Post(h, m) PROVE TypeOK'
  <2>1. [Idle EXCEPT !.pc = "block", !.mid = m, !.dids = To[m]] \in Job
    BY MessageAssumption DEF Idle, Job
  <2>2. job' \in [Procs -> Job]
    BY <1>2, <2>1, JobStep DEF Post, Procs
  <2>3. TypeJobs' /\ TypeBounds'
    BY <1>2, <2>2 DEF Post, TypeOK, TypeJobs, TypeBounds
  <2> QED
    BY <1>2, <2>3 DEF Post, TypeOK
<1>3. ASSUME NEW h \in Handlers, NEW a \in Accounts, Upload(h, a) PROVE TypeOK'
  <2> DEFINE st == IF subacct[a] = "absent" THEN "bump" ELSE "insert"
             l == IF subacct[a] = "absent" THEN {} ELSE {<<a, 1>>}
  <2>1. st \in {"bump", "insert"} /\ l \in SUBSET (Accounts \X Nat)
    OBVIOUS
  <2>2. [Idle EXCEPT !.noinsert = FALSE, !.pc = st, !.left = l] \in Job
    <3> HIDE DEF st, l
    <3> QED BY <2>1, IdleJob DEF Job
  <2>3. job' \in [Procs -> Job]
    BY <1>3, <2>2, JobStep DEF Upload, Procs
  <2>4. TypeJobs' /\ TypeBounds'
    BY <1>3, <2>3 DEF Upload, TypeOK, TypeJobs, TypeBounds
  <2> QED
    BY <1>3, <2>4 DEF Upload, TypeOK
<1>4. ASSUME NEW u \in Uids, TenMinutes(u) PROVE TypeOK'
  <2>1. \A r \in DOMAIN rows : rows'[r] \in Row
    BY <1>4 DEF TenMinutes, TypeOK, TypeTable, Row
  <2>2. TypeTable' /\ TypeSender'
    BY <1>4, <2>1 DEF TenMinutes, TypeOK, TypeTable, TypeSender
  <2> QED
    BY <1>4, <2>2 DEF TenMinutes, TypeOK
<1>5. ASSUME NEW n \in Senders, Block(n) PROVE TypeOK'
  <2>1. TypeOutside' /\ TypeBounds'
    BY <1>5 DEF Block, TypeOK, TypeOutside, TypeBounds
  <2> QED
    BY <1>5, <2>1 DEF Block, TypeOK
<1>6. ASSUME NEW a \in Accounts, NEW st \in {"on", "off", "absent"}, SetAccount(a, st)
      PROVE  TypeOK'
  <2>1. TypeOutside' /\ TypeBounds'
    BY <1>6 DEF SetAccount, TypeOK, TypeOutside, TypeBounds, outside
  <2> QED
    BY <1>6, <2>1 DEF SetAccount, TypeOK
<1>7. CASE Month
  <2>1. TypeOutside' /\ TypeBounds'
    BY <1>7 DEF Month, TypeOK, TypeOutside, TypeBounds, settings
  <2>2. TypeTable'
    BY <1>7 DEF Month, TypeOK, TypeTable, table
  <2> QED
    BY <1>7, <2>1, <2>2 DEF Month, TypeOK
<1>8. CASE Purge
  <2>1. DOMAIN rows' \subseteq Uids /\ rows' \in [DOMAIN rows' -> Row]
    BY <1>8 DEF Purge, TypeOK, TypeTable
  <2>2. TypeTable'
    BY <1>8, <2>1 DEF Purge, TypeOK, TypeTable
  <2> QED
    BY <1>8, <2>2 DEF Purge, TypeOK
<1>9. CASE Restart
  <2>1. TypeJobs'
    BY <1>9, IdleJob, BoundAssumption DEF Restart, TypeJobs
  <2>2. TypeSender'
    BY <1>9 DEF Restart, Forget, TypeOK, TypeSender
  <2>3. TypeBounds'
    BY <1>9 DEF Restart, TypeOK, TypeBounds
  <2> QED
    BY <1>9, <2>1, <2>2, <2>3 DEF Restart, TypeOK
<1> QED
  BY <1>1, <1>2, <1>3, <1>4, <1>5, <1>6, <1>7, <1>8, <1>9 DEF Environment

LEMMA NextTypeOK == TypeOK /\ [Next]_vars => TypeOK'
<1> SUFFICES ASSUME TypeOK, [Next]_vars PROVE TypeOK'
  OBVIOUS
<1>1. ASSUME NEW h \in Handlers, Bump(h) PROVE TypeOK'
  <2>1. job' \in [Procs -> Job]
    BY <1>1, IdleJob, JobStep DEF Bump, Procs
  <2>2. TypeJobs'
    BY <1>1, <2>1, BoundAssumption DEF Bump, HasRoom, TypeOK, TypeJobs
  <2>3. TypeOutside'
    BY <1>1 DEF Bump, TypeOK, TypeOutside, settings
  <2> QED
    BY <1>1, <2>2, <2>3, Untouched DEF Bump, TypeOK
<1>2. CASE UNCHANGED vars
  BY <1>2, Untouched DEF vars, TypeOK
<1> QED
  BY <1>1, <1>2, ProducerType, ReconcileType, SendingType, EnvironmentType DEF Next

\* Every variable keeps its type: rowids and uids stay within the bound, the
\* channel never holds more than its capacity, and a producing goroutine is
\* always at one of the steps of its handler.
THEOREM TypeCorrect == Spec => []TypeOK
  BY InitTypeOK, NextTypeOK, PTL DEF Spec
-----------------------------------------------------------------------------
(* Blocked numbers and acknowledged messages: the inductive invariants     *)

\* Nothing knows a message that was not sent yet.
NothingBefore ==
    \A m \in Msgs : voip[m] = "unsent" =>
        /\ m \notin tainted /\ m \notin todo /\ answer[m] = "none"
        /\ \A p \in Procs : job[p].mid # m
        /\ \A r \in DOMAIN rows : rows[r].mid # m

\* A message in tainted has its sender still blocked, so that a goroutine that
\* found it skips the DID loop.
TaintedSkips ==
    /\ \A m \in tainted : From[m] \in blocked
    /\ \A p \in Procs : job[p].mid \in tainted =>
          /\ job[p].pc # "insert"
          /\ job[p].pc = "did" => job[p].dids = <<>>

BlockedInv == NothingBefore /\ TaintedSkips /\ BlockedNeverQueued

\* What cron may delete is never about a message that VoIP.ms still lists.
ListedIsYoung ==
    /\ old <= seq
    /\ \A r \in DOMAIN rows :
          rows[r].mid \in Msgs /\ voip[rows[r].mid] = "listed" => rows[r].uid > old

\* What the administrator did not change is as it was at first.
SettingsKept ==
    /\ \A n \in Senders \ touched : n \notin blocked
    /\ \A a \in Accounts \ touched : subacct[a] = "on"

InRange(d, s) == \E i \in 1..Len(s) : s[i] = d

\* The rows that the goroutine of h still owes to account a for message m are
\* those of a DID it has not looked up and those left of the current one.
Covers(h, m, a) ==
    \/ InRange(CallerId[a], job[h].dids)
    \/ \A k \in 1..Parts[m] : HasRow(m, a, k) \/ <<a, k>> \in job[h].left

CoversAll(h, m) ==
    From[m] \notin touched =>
        \A a \in Accounts \ touched : InRange(CallerId[a], To[m]) => Covers(h, m, a)

Keeps(h) ==
    \A m \in Msgs : job[h].mid = m /\ voip[m] = "listed" =>
        /\ job[h].pc = "block" => job[h].dids = To[m] /\ job[h].noinsert
        /\ job[h].pc \in {"block", "did", "bump"} => job[h].left = {}
        /\ job[h].pc = "bump" => job[h].dids = <<>> /\ ~job[h].noinsert
        /\ ~job[h].noinsert => Recorded(m)
        /\ job[h].pc \in {"did", "insert", "bump"} => CoversAll(h, m)

AckInv == ListedIsYoung /\ SettingsKept /\ (\A h \in Handlers : Keeps(h)) /\ AckedIsDurable

-----------------------------------------------------------------------------
(* Blocked numbers                                                         *)

LEMMA InitBlocked == Init => BlockedInv
  BY MessageAssumption DEF Init, BlockedInv, NothingBefore, TaintedSkips, BlockedNeverQueued, Idle

\* A goroutine takes a step that leaves VoIP.ms and the numbers alone: it goes
\* on with its message, goes idle, or takes up one that is known; a row that
\* it adds is about its message.
LEMMA JobBlocked ==
  ASSUME TypeOK, BlockedInv, UNCHANGED <<voip, tainted, blocked>>, NEW p \in Procs,
         \A q \in Procs : q # p => job'[q] = job[q],
         \/ job'[p].mid = NoMsg
         \/ job'[p].mid = job[p].mid
         \/ job'[p].mid \in Msgs /\ voip[job'[p].mid] # "unsent",
         job'[p].mid \in tainted =>
             /\ job'[p].pc # "insert"
             /\ job'[p].pc = "did" => job'[p].dids = <<>>,
         todo' \subseteq todo,
         \A m \in Msgs : answer'[m] # answer[m] => m = job[p].mid,
         \A r \in DOMAIN rows' :
             \/ r \in DOMAIN rows /\ rows'[r] = rows[r]
             \/ /\ rows'[r].mid = job[p].mid
                /\ rows'[r].mid \in tainted => rows'[r].toid = Nobody
  PROVE  BlockedInv'
<1>1. NothingBefore'
  <2> SUFFICES ASSUME NEW m \in Msgs, voip[m] = "unsent"
               PROVE  /\ m \notin tainted /\ m \notin todo' /\ answer'[m] = "none"
                      /\ \A q \in Procs : job'[q].mid # m
                      /\ \A r \in DOMAIN rows' : rows'[r].mid # m
    BY DEF NothingBefore
  <2>1. /\ m \notin tainted /\ m \notin todo /\ answer[m] = "none"
        /\ \A q \in Procs : job[q].mid # m
        /\ \A r \in DOMAIN rows : rows[r].mid # m
    BY DEF BlockedInv, NothingBefore
  <2>2. m # NoMsg
    BY MessageAssumption
  <2>3. \A q \in Procs : job'[q].mid # m
    BY <2>1, <2>2
  <2>4. \A r \in DOMAIN rows' : rows'[r].mid # m
    BY <2>1
  <2> QED
    BY <2>1, <2>3, <2>4
<1>2. TaintedSkips'
  BY DEF BlockedInv, TaintedSkips
<1>3. BlockedNeverQueued'
  BY DEF BlockedInv, BlockedNeverQueued
<1> QED
  BY <1>1, <1>2, <1>3 DEF BlockedInv

\* The row that an INSERT adds.
AddsAt(r, m, a, k) ==
    /\ r \notin DOMAIN rows /\ DOMAIN rows' = DOMAIN rows \cup {r}
    /\ \A q \in DOMAIN rows : rows'[q] = rows[q]
    /\ rows'[r].uid = seq + 1 /\ rows'[r].mid = m
    /\ rows'[r].toid = a /\ rows'[r].part = k
    /\ seq' = seq + 1

Adds(m, a, k) == \E r \in Uids : AddsAt(r, m, a, k)

LEMMA InsertAdds ==
  ASSUME TypeOK, NEW m \in Msgs \cup {NoMsg}, NEW a \in Accounts \cup {Nobody},
         NEW k \in Nat, NEW st \in {"new", "fail", "ok"}, Insert(m, a, k, st)
  PROVE  Adds(m, a, k)
<1>1. PICK r \in Uids :
        /\ Fresh(r)
        /\ rows' = [q \in DOMAIN rows \cup {r} |->
                       IF q = r
                       THEN [uid |-> seq + 1, mid |-> m, toid |-> a, part |-> k,
                             status |-> st, cool |-> FALSE]
                       ELSE rows[q]]
  BY DEF Insert
<1>2. r \notin DOMAIN rows
  BY <1>1 DEF Fresh, TypeOK, TypeTable, Uids
<1>3. seq' = seq + 1
  BY DEF Insert
<1> QED
  BY <1>1, <1>2, <1>3 DEF Adds, AddsAt

LEMMA AbortBlocked ==
  ASSUME TypeOK, BlockedInv, UNCHANGED <<voip, tainted, blocked, rows>>,
         NEW p \in Procs, Abort(p),
         \A m \in Msgs : answer'[m] # answer[m] => m = job[p].mid
  PROVE  BlockedInv'
<1>1. job'[p] = Idle /\ \A q \in Procs : q # p => job'[q] = job[q]
  BY DEF Abort, TypeOK, TypeJobs
<1>2. todo' \subseteq todo
  BY DEF Abort
<1>3. job'[p].mid = NoMsg /\ NoMsg \notin tainted
  BY <1>1, MessageAssumption DEF Idle, TypeOK, TypeOutside
<1> QED
  BY <1>1, <1>2, <1>3, JobBlocked

LEMMA ProducerBlocked == ASSUME TypeOK, BlockedInv, NEW p \in Procs, Producer(p) PROVE BlockedInv'
<1> USE DEF table, sender, outside, settings, bounds
<1>1. job[p] \in Job /\ NoMsg \notin tainted
  BY MessageAssumption DEF TypeOK, TypeJobs, TypeOutside
<1>m. job[p].mid \in Msgs \cup {NoMsg}
  BY <1>1 DEF Job
<1>2. job[p].mid \in tainted => /\ job[p].pc # "insert"
                                /\ job[p].pc = "did" => job[p].dids = <<>>
  BY DEF BlockedInv, TaintedSkips
<1>3. CASE CheckBlocked(p)
  <2>1. /\ job'[p].mid = job[p].mid /\ \A q \in Procs : q # p => job'[q] = job[q]
        /\ job'[p].pc = "did"
        /\ IsBlocked(job[p].mid) => job'[p].dids = <<>>
    BY <1>1, <1>3 DEF CheckBlocked, TypeOK, TypeJobs, Job
  <2>2. job[p].mid \in tainted => IsBlocked(job[p].mid)
    BY DEF BlockedInv, TaintedSkips, IsBlocked
  <2>3. UNCHANGED <<voip, tainted, blocked, todo, answer, rows>>
    BY <1>3 DEF CheckBlocked
  <2> QED
    BY <2>1, <2>2, <2>3, JobBlocked
<1>4. CASE CheckBlockedErr(p)
  <2>1. UNCHANGED <<voip, tainted, blocked, rows>> /\ Abort(p)
    BY <1>4 DEF CheckBlockedErr
  <2>2. \A m \in Msgs : answer'[m] # answer[m] => m = job[p].mid
    BY <1>4 DEF CheckBlockedErr, TypeOK, TypeOutside
  <2> QED
    BY <2>1, <2>2, AbortBlocked
<1>5. CASE LookupDid(p)
  <2>1. /\ job'[p].mid = job[p].mid /\ \A q \in Procs : q # p => job'[q] = job[q]
    BY <1>1, <1>5 DEF LookupDid, TypeOK, TypeJobs, Job
  <2>2. job[p].mid \notin tainted
    BY <1>2, <1>5 DEF LookupDid
  <2>3. UNCHANGED <<voip, tainted, blocked, todo, answer, rows>>
    BY <1>5 DEF LookupDid
  <2> QED
    BY <2>1, <2>2, <2>3, JobBlocked
<1>6. CASE LookupDidErr(p)
  BY <1>6, AbortBlocked DEF LookupDidErr
<1>7. CASE InsertPart(p)
  <2>1. PICK i \in job[p].left : Insert(job[p].mid, i[1], i[2], "new")
    BY <1>7 DEF InsertPart
  <2>i. i[1] \in Accounts /\ i[2] \in Nat
    BY <1>1 DEF Job
  <2>2. job[p].mid \notin tainted
    BY <1>2, <1>7 DEF InsertPart
  <2>3. /\ job'[p].mid = job[p].mid /\ \A q \in Procs : q # p => job'[q] = job[q]
    BY <1>1, <1>7 DEF InsertPart, TypeOK, TypeJobs, Job
  <2>4. Adds(job[p].mid, i[1], i[2])
    BY <1>m, <2>1, <2>i, InsertAdds
  <2>5. UNCHANGED <<voip, tainted, blocked, todo, answer>>
    BY <1>7 DEF InsertPart
  <2>6. PICK r \in Uids : AddsAt(r, job[p].mid, i[1], i[2])
    BY <2>4 DEF Adds
  <2>7. \A q \in DOMAIN rows' : \/ q \in DOMAIN rows /\ rows'[q] = rows[q]
                               \/ rows'[q].mid = job[p].mid
    BY <2>6 DEF AddsAt
  <2> QED
    BY <2>2, <2>3, <2>5, <2>7, JobBlocked
<1>8. CASE InsertPartErr(p)
  <2>1. UNCHANGED <<voip, tainted, blocked, answer, rows>>
    BY <1>8 DEF InsertPartErr
  <2>2. CASE job[p].mid = NoMsg
    <3>1. /\ job'[p].mid = job[p].mid /\ \A q \in Procs : q # p => job'[q] = job[q]
          /\ UNCHANGED todo
      BY <1>1, <1>8, <2>2 DEF InsertPartErr, TypeOK, TypeJobs, Job
    <3> QED
      BY <1>1, <2>1, <2>2, <3>1, JobBlocked
  <2>3. CASE job[p].mid # NoMsg
    BY <1>8, <2>1, <2>3, AbortBlocked DEF InsertPartErr
  <2> QED
    BY <2>2, <2>3
<1>9. CASE Queued(p)
  <2>1. \A q \in Procs : q # p => job'[q] = job[q]
    BY <1>9 DEF Queued, TypeOK, TypeJobs
  <2>2. job'[p].mid \in {NoMsg, job[p].mid} /\ job'[p].pc \in {"list", "bump"}
    BY <1>1, <1>9 DEF Queued, TypeOK, TypeJobs, Job, Idle
  <2>3. UNCHANGED <<voip, tainted, blocked, todo, answer, rows>>
    BY <1>9 DEF Queued
  <2> QED
    BY <2>1, <2>2, <2>3, JobBlocked
<1>10. CASE Dummy(p)
  <2>1. /\ \A q \in Procs : q # p => job'[q] = job[q]
        /\ job'[p].mid = NoMsg
    BY <1>10 DEF Dummy, TypeOK, TypeJobs, Idle
  <2>2. \A r \in DOMAIN rows' :
             \/ r \in DOMAIN rows /\ rows'[r] = rows[r]
             \/ rows'[r].mid = job[p].mid /\ rows'[r].toid = Nobody
    <3>1. CASE Insert(job[p].mid, Nobody, 0, "ok")
      <4>1. Adds(job[p].mid, Nobody, 0)
        BY <1>m, <3>1, InsertAdds
      <4> QED
        BY <4>1 DEF Adds, AddsAt
    <3>2. CASE UNCHANGED rows
      BY <3>2
    <3> QED
      BY <1>10, <3>1, <3>2 DEF Dummy
  <2>3. UNCHANGED <<voip, tainted, blocked, todo>>
    BY <1>10 DEF Dummy
  <2>4. \A m \in Msgs : answer'[m] # answer[m] => m = job[p].mid
    BY <1>10 DEF Dummy, TypeOK, TypeOutside
  <2> QED
    BY <1>1, <2>1, <2>2, <2>3, <2>4, JobBlocked
<1> QED
  BY <1>3, <1>4, <1>5, <1>6, <1>7, <1>8, <1>9, <1>10 DEF Producer

LEMMA ReconcileBlocked == ASSUME TypeOK, BlockedInv, Reconcile PROVE BlockedInv'
<1> USE DEF table, sender, outside, settings, bounds
<1>1. /\ Reco \in Procs /\ job[Reco] \in Job
      /\ NoMsg \notin tainted
  BY MessageAssumption DEF TypeOK, TypeJobs, TypeOutside, Procs
<1>2. CASE RecoStart
  <2>1. UNCHANGED <<voip, tainted, blocked, answer, rows>>
    BY <1>2 DEF RecoStart
  <2>2. /\ \A q \in Procs : job'[q].mid = job[q].mid
        /\ \A q \in Procs : q # Reco => job'[q] = job[q]
        /\ job'[Reco].pc = "list"
    BY <1>1, <1>2 DEF RecoStart, TypeOK, TypeJobs, Job
  <2>3. \A m \in todo' : voip[m] # "unsent"
    BY <1>2 DEF RecoStart
  <2>4. NothingBefore'
    BY <2>1, <2>2, <2>3 DEF BlockedInv, NothingBefore
  <2>5. TaintedSkips'
    BY <1>1, <2>1, <2>2 DEF BlockedInv, TaintedSkips
  <2> QED
    BY <2>1, <2>4, <2>5 DEF BlockedInv, BlockedNeverQueued
<1>3. ASSUME NEW m \in Msgs, RecoCheck(m) PROVE BlockedInv'
  <2>1. UNCHANGED <<voip, tainted, blocked, answer, rows>>
    BY <1>3 DEF RecoCheck
  <2>2. /\ todo' \subseteq todo /\ voip[m] # "unsent"
        /\ \A q \in Procs : q # Reco => job'[q] = job[q]
    BY <1>3 DEF RecoCheck, TypeOK, TypeJobs, BlockedInv, NothingBefore
  <2>3. \/ job'[Reco].mid = m /\ job'[Reco].pc = "block"
        \/ job'[Reco] = job[Reco]
    BY <1>1, <1>3 DEF RecoCheck, TypeOK, TypeJobs, Idle
  <2> QED
    BY <1>1, <2>1, <2>2, <2>3, JobBlocked DEF BlockedInv, TaintedSkips
<1>4. CASE RecoCheckErr
  BY <1>1, <1>4, AbortBlocked DEF RecoCheckErr
<1>5. CASE RecoDone
  BY <1>1, <1>5, AbortBlocked DEF RecoDone
<1> QED
  BY <1>2, <1>3, <1>4, <1>5 DEF Reconcile

\* Rows may go; those that stay are about the same message and account.
LEMMA TableBlocked ==
  ASSUME BlockedInv, UNCHANGED <<voip, tainted, blocked, job, todo, answer>>,
         DOMAIN rows' \subseteq DOMAIN rows,
         \A r \in DOMAIN rows' : rows'[r].mid = rows[r].mid /\ rows'[r].toid = rows[r].toid
  PROVE  BlockedInv'
<1>1. NothingBefore'
  BY DEF BlockedInv, NothingBefore
<1>2. TaintedSkips' /\ BlockedNeverQueued'
  BY DEF BlockedInv, TaintedSkips, BlockedNeverQueued
<1> QED
  BY <1>1, <1>2 DEF BlockedInv

LEMMA UpdateKeeps ==
  ASSUME TypeOK, Update
  PROVE  /\ DOMAIN rows' = DOMAIN rows
         /\ \A r \in DOMAIN rows :
               /\ rows'[r].uid = rows[r].uid /\ rows'[r].mid = rows[r].mid
               /\ rows'[r].toid = rows[r].toid /\ rows'[r].part = rows[r].part
<1>1. PICK e \in recs : rows' = IF e.rowid \in DOMAIN rows THEN Mark(e.rowid) ELSE rows
  BY DEF Update
<1>2. DOMAIN rows' = DOMAIN rows
  BY <1>1 DEF Mark, TypeOK, TypeTable
<1>3. ASSUME NEW r \in DOMAIN rows
      PROVE  /\ rows'[r].uid = rows[r].uid /\ rows'[r].mid = rows[r].mid
             /\ rows'[r].toid = rows[r].toid /\ rows'[r].part = rows[r].part
  BY <1>1, <1>3 DEF Mark, TypeOK, TypeTable, Row
<1> QED
  BY <1>2, <1>3

LEMMA SendingBlocked == ASSUME TypeOK, BlockedInv, Sending PROVE BlockedInv'
<1>1. UNCHANGED <<voip, tainted, blocked, job, todo, answer>>
  BY DEF Sending, Wake, Select, SelectErr, Sip, Update, UpdateErr, outside, settings
<1>2. CASE Update
  BY <1>1, <1>2, UpdateKeeps, TableBlocked
<1>3. CASE ~Update
  <2>1. UNCHANGED rows
    BY <1>3 DEF Sending, Wake, Select, SelectErr, Sip, UpdateErr, table
  <2> QED
    BY <1>1, <2>1, TableBlocked
<1> QED
  BY <1>2, <1>3

LEMMA EnvironmentBlocked == ASSUME TypeOK, BlockedInv, Environment PROVE BlockedInv'
<1> USE DEF table, sender, outside, settings, bounds
<1>1. ASSUME NEW m \in Msgs, Arrive(m) PROVE BlockedInv'
  <2>1. UNCHANGED <<rows, job, todo, answer, blocked>> /\ voip[m] = "unsent"
    BY <1>1 DEF Arrive
  <2>2. /\ voip'[m] = "listed"
        /\ \A n \in Msgs : n # m => voip'[n] = voip[n] /\ (n \in tainted' <=> n \in tainted)
        /\ m \in tainted' => From[m] \in blocked
        /\ tainted' \subseteq tainted \cup {m}
    BY <1>1 DEF Arrive, TypeOK, TypeOutside, BlockedInv, NothingBefore
  <2>3. /\ m \notin tainted /\ \A p \in Procs : job[p].mid # m
        /\ \A r \in DOMAIN rows : rows[r].mid # m
    BY <2>1 DEF BlockedInv, NothingBefore
  <2>4. NothingBefore'
    BY <2>1, <2>2 DEF BlockedInv, NothingBefore
  <2>5. TaintedSkips' /\ BlockedNeverQueued'
    BY <2>1, <2>2, <2>3 DEF BlockedInv, TaintedSkips, BlockedNeverQueued
  <2> QED
    BY <2>4, <2>5 DEF BlockedInv
<1>2. ASSUME NEW h \in Handlers, NEW m \in Msgs, Post(h, m) PROVE BlockedInv'
  <2>1. UNCHANGED <<voip, tainted, blocked, todo, answer, rows>> /\ h \in Procs
    BY <1>2 DEF Post, Procs
  <2>2. /\ \A q \in Procs : q # h => job'[q] = job[q]
        /\ job'[h].mid = m /\ job'[h].pc = "block" /\ voip[m] # "unsent"
    BY <1>2, <2>1 DEF Post, TypeOK, TypeJobs, Idle
  <2> QED
    BY <2>1, <2>2, JobBlocked
<1>3. ASSUME NEW h \in Handlers, NEW a \in Accounts, Upload(h, a) PROVE BlockedInv'
  <2>1. UNCHANGED <<voip, tainted, blocked, todo, answer, rows>> /\ h \in Procs
    BY <1>3 DEF Upload, Procs
  <2>2. /\ \A q \in Procs : q # h => job'[q] = job[q]
        /\ job'[h].mid = NoMsg
    BY <1>3, <2>1 DEF Upload, TypeOK, TypeJobs, Idle
  <2>3. NoMsg \notin tainted
    BY MessageAssumption DEF TypeOK, TypeOutside
  <2> QED
    BY <2>1, <2>2, <2>3, JobBlocked
<1>4. ASSUME NEW u \in Uids, TenMinutes(u) PROVE BlockedInv'
  <2>1. /\ DOMAIN rows' = DOMAIN rows
        /\ \A r \in DOMAIN rows : rows'[r].mid = rows[r].mid /\ rows'[r].toid = rows[r].toid
    BY <1>4 DEF TenMinutes, TypeOK, TypeTable, Row
  <2> QED
    BY <1>4, <2>1, TableBlocked DEF TenMinutes
<1>5. ASSUME NEW n \in Senders, Block(n) PROVE BlockedInv'
  <2>1. UNCHANGED <<voip, job, todo, answer, rows>>
    BY <1>5 DEF Block
  <2>2. tainted' \subseteq tainted /\ \A m \in tainted' : From[m] \in blocked => From[m] \in blocked'
    BY <1>5 DEF Block
  <2>3. NothingBefore'
    BY <2>1, <2>2 DEF BlockedInv, NothingBefore
  <2>4. TaintedSkips' /\ BlockedNeverQueued'
    BY <2>1, <2>2 DEF BlockedInv, TaintedSkips, BlockedNeverQueued
  <2> QED
    BY <2>3, <2>4 DEF BlockedInv
<1>6. ASSUME NEW a \in Accounts, NEW st \in {"on", "off", "absent"}, SetAccount(a, st)
      PROVE  BlockedInv'
  BY <1>6, TableBlocked DEF SetAccount
<1>7. CASE Month
  <2>1. UNCHANGED <<tainted, blocked, job, todo, answer, rows>>
    BY <1>7 DEF Month
  <2>2. \A m \in Msgs : voip'[m] = "unsent" => voip[m] = "unsent"
    BY <1>7 DEF Month
  <2>3. NothingBefore'
    BY <2>1, <2>2 DEF BlockedInv, NothingBefore
  <2> QED
    BY <2>1, <2>3 DEF BlockedInv, TaintedSkips, BlockedNeverQueued
<1>8. CASE Purge
  BY <1>8, TableBlocked DEF Purge
<1>9. CASE Restart
  <2>1. UNCHANGED <<voip, tainted, blocked, answer, rows>> /\ todo' = {}
    BY <1>9 DEF Restart
  <2>2. \A p \in Procs : job'[p].mid = NoMsg
    BY <1>9 DEF Restart, Idle
  <2>3. NoMsg \notin tainted /\ NoMsg \notin Msgs
    BY MessageAssumption DEF TypeOK, TypeOutside
  <2>4. NothingBefore'
    BY <2>1, <2>2, <2>3 DEF BlockedInv, NothingBefore
  <2>5. TaintedSkips' /\ BlockedNeverQueued'
    BY <2>1, <2>2, <2>3 DEF BlockedInv, TaintedSkips, BlockedNeverQueued
  <2> QED
    BY <2>4, <2>5 DEF BlockedInv
<1> QED
  BY <1>1, <1>2, <1>3, <1>4, <1>5, <1>6, <1>7, <1>8, <1>9 DEF Environment

LEMMA NextBlocked == TypeOK /\ BlockedInv /\ [Next]_vars => BlockedInv'
<1> SUFFICES ASSUME TypeOK, BlockedInv, [Next]_vars PROVE BlockedInv'
  OBVIOUS
<1>1. ASSUME NEW h \in Handlers, Bump(h) PROVE BlockedInv'
  <2>1. /\ h \in Procs /\ job'[h].mid = NoMsg
        /\ \A q \in Procs : q # h => job'[q] = job[q]
    BY <1>1 DEF Bump, TypeOK, TypeJobs, Procs, Idle
  <2>2. UNCHANGED <<voip, tainted, blocked, todo, rows>>
    BY <1>1 DEF Bump, table, settings
  <2>3. \A m \in Msgs : answer'[m] # answer[m] => m = job[h].mid
    BY <1>1 DEF Bump, TypeOK, TypeOutside
  <2>4. NoMsg \notin tainted
    BY MessageAssumption DEF TypeOK, TypeOutside
  <2> QED
    BY <2>1, <2>2, <2>3, <2>4, JobBlocked
<1>2. CASE UNCHANGED vars
  BY <1>2, TableBlocked DEF vars, table, outside, settings
<1> QED
  BY <1>1, <1>2, ProducerBlocked, ReconcileBlocked, SendingBlocked, EnvironmentBlocked DEF Next

\* A message that came from a number blocked since before it arrived has no row
\* for any account, however web hooks, reconciles, restarts and changes of the
\* table blocked interleave.
THEOREM BlockedCorrect == Spec => []BlockedNeverQueued
<1>1. TypeOK /\ BlockedInv /\ [Next]_vars => TypeOK' /\ BlockedInv'
  BY NextTypeOK, NextBlocked
<1>2. BlockedInv => BlockedNeverQueued
  BY DEF BlockedInv
<1> QED
  BY <1>1, <1>2, InitTypeOK, InitBlocked, PTL DEF Spec

-----------------------------------------------------------------------------
(* Acknowledged messages                                                   *)

LEMMA InitAck == Init => AckInv
<1> SUFFICES ASSUME Init PROVE AckInv
  OBVIOUS
<1>1. ListedIsYoung /\ SettingsKept /\ AckedIsDurable
  BY DEF Init, ListedIsYoung, SettingsKept, AckedIsDurable
<1>2. \A h \in Handlers : job[h].mid \notin Msgs
  BY MessageAssumption DEF Init, Procs, Idle
<1> QED
  BY <1>1, <1>2 DEF AckInv, Keeps

\* No step but cron's touches a row but for its status, and cron's takes old
\* ones only.
RowsStay ==
    \A r \in DOMAIN rows : rows[r].uid > old =>
        /\ r \in DOMAIN rows'
        /\ rows'[r].mid = rows[r].mid /\ rows'[r].toid = rows[r].toid
        /\ rows'[r].part = rows[r].part

LEMMA StillThere ==
  ASSUME AckInv, RowsStay, NEW m \in Msgs, voip[m] = "listed"
  PROVE  /\ Recorded(m) => Recorded(m)'
         /\ \A a, k : HasRow(m, a, k) => HasRow(m, a, k)'
<1>1. \A r \in DOMAIN rows : rows[r].mid = m => rows[r].uid > old
  BY DEF AckInv, ListedIsYoung
<1>2. Recorded(m) => Recorded(m)'
  BY <1>1 DEF RowsStay, Recorded
<1>3. ASSUME NEW a, NEW k, HasRow(m, a, k) PROVE HasRow(m, a, k)'
  BY <1>1, <1>3 DEF RowsStay, HasRow
<1> QED
  BY <1>2, <1>3

\* A goroutine that takes no step owes nothing new.
LEMMA KeepsStill ==
  ASSUME AckInv, RowsStay, touched \subseteq touched', NEW h \in Handlers,
         job'[h] = job[h],
         job[h].mid \in Msgs /\ voip'[job[h].mid] = "listed" => voip[job[h].mid] = "listed"
  PROVE  Keeps(h)'
<1> SUFFICES ASSUME NEW m \in Msgs, job[h].mid = m, voip'[m] = "listed"
             PROVE  /\ job[h].pc = "block" => job[h].dids = To[m] /\ job[h].noinsert
                    /\ job[h].pc \in {"block", "did", "bump"} => job[h].left = {}
                    /\ job[h].pc = "bump" => job[h].dids = <<>> /\ ~job[h].noinsert
                    /\ ~job[h].noinsert => Recorded(m)'
                    /\ job[h].pc \in {"did", "insert", "bump"} => CoversAll(h, m)'
  BY DEF Keeps
<1>1. voip[m] = "listed" /\ Keeps(h)
  BY DEF AckInv
<1>2. /\ Recorded(m) => Recorded(m)'
      /\ \A a, k : HasRow(m, a, k) => HasRow(m, a, k)'
  BY <1>1, StillThere
<1>3. CoversAll(h, m) => CoversAll(h, m)'
  <2> SUFFICES ASSUME CoversAll(h, m), From[m] \notin touched',
                      NEW a \in Accounts \ touched', InRange(CallerId[a], To[m])
               PROVE  Covers(h, m, a)'
    BY DEF CoversAll, InRange
  <2>1. Covers(h, m, a)
    BY DEF CoversAll
  <2>2. CASE InRange(CallerId[a], job[h].dids)
    BY <2>2 DEF Covers, InRange
  <2>3. CASE ~InRange(CallerId[a], job[h].dids)
    <3>1. \A k \in 1..Parts[m] : HasRow(m, a, k)' \/ <<a, k>> \in job'[h].left
      BY <1>2, <2>1, <2>3 DEF Covers
    <3> QED
      BY <3>1 DEF Covers
  <2> QED
    BY <2>2, <2>3
<1> QED
  BY <1>1, <1>2, <1>3 DEF Keeps

LEMMA DurableStill ==
  ASSUME AckInv, RowsStay, touched \subseteq touched', NEW m \in Msgs,
         voip[m] = "listed", answer[m] = "done"
  PROVE  Recorded(m)' /\ FannedOut(m)'
<1>1. Recorded(m) /\ FannedOut(m)
  BY DEF AckInv, AckedIsDurable
<1>2. /\ Recorded(m) => Recorded(m)'
      /\ \A a, k : HasRow(m, a, k) => HasRow(m, a, k)'
  BY StillThere
<1> QED
  BY <1>1, <1>2 DEF FannedOut

LEMMA NoMsgKeeps ==
  ASSUME NEW h \in Handlers, job'[h].mid = NoMsg
  PROVE  Keeps(h)'
  BY MessageAssumption DEF Keeps

\* When the DID loop is over and nothing is left, everything is in the table.
LEMMA AllCovered ==
  ASSUME NEW h \in Handlers, NEW m \in Msgs, CoversAll(h, m),
         job[h].dids = <<>>, job[h].left = {}
  PROVE  FannedOut(m)
<1> SUFFICES ASSUME From[m] \notin touched, NEW a \in Accounts \ touched,
                    CallerId[a] \in {To[m][i] : i \in 1..Len(To[m])},
                    NEW k \in 1..Parts[m]
             PROVE  HasRow(m, a, k)
  BY DEF FannedOut
<1>1. InRange(CallerId[a], To[m])
  BY DEF InRange
<1>2. Covers(h, m, a)
  BY <1>1 DEF CoversAll
<1>3. ~InRange(CallerId[a], job[h].dids)
  BY DEF InRange
<1> QED
  BY <1>2, <1>3 DEF Covers

\* A goroutine takes a step; the settings and VoIP.ms's lists stay.
LEMMA JobAck ==
  ASSUME TypeOK, AckInv, RowsStay, ListedIsYoung',
         UNCHANGED <<voip, touched, blocked, subacct>>, NEW p \in Procs,
         \A q \in Procs : q # p => job'[q] = job[q],
         p \in Handlers => Keeps(p)',
         \A m \in Msgs : voip[m] = "listed" /\ answer'[m] = "done" =>
             answer[m] = "done" \/ (Recorded(m)' /\ FannedOut(m)')
  PROVE  AckInv'
<1>1. SettingsKept'
  BY DEF AckInv, SettingsKept
<1>2. ASSUME NEW h \in Handlers PROVE Keeps(h)'
  <2>1. CASE h = p
    BY <2>1
  <2>2. CASE h # p
    BY <2>2, KeepsStill DEF Procs
  <2> QED
    BY <2>1, <2>2
<1>3. ASSUME NEW m \in Msgs, voip'[m] = "listed", answer'[m] = "done"
      PROVE  Recorded(m)' /\ FannedOut(m)'
  BY <1>3, DurableStill
<1>4. AckedIsDurable'
  BY <1>3 DEF AckedIsDurable
<1> QED
  BY <1>1, <1>2, <1>4 DEF AckInv

LEMMA SameRows ==
  ASSUME AckInv, UNCHANGED <<rows, seq, old, voip>>
  PROVE  RowsStay /\ ListedIsYoung'
  BY DEF RowsStay, AckInv, ListedIsYoung

\* A row is added for a message.
LEMMA AddedRow ==
  ASSUME TypeOK, AckInv, NEW r, NEW m, NEW a, NEW k, AddsAt(r, m, a, k),
         UNCHANGED <<old, voip>>
  PROVE  RowsStay /\ ListedIsYoung'
<1>1. seq \in Int /\ old \in Int /\ old <= seq
  BY BoundAssumption DEF TypeOK, TypeTable, AckInv, ListedIsYoung
<1>2. RowsStay
  BY DEF AddsAt, RowsStay
<1>3. seq' = seq + 1 /\ rows'[r].uid = seq + 1
  BY DEF AddsAt
<1>4. old' <= seq' /\ rows'[r].uid > old'
  BY <1>1, <1>3
<1>5. \A q \in DOMAIN rows' : q = r \/ (q \in DOMAIN rows /\ rows'[q] = rows[q])
  BY DEF AddsAt
<1>6. ListedIsYoung'
  BY <1>4, <1>5 DEF AckInv, ListedIsYoung
<1> QED
  BY <1>2, <1>6

LEMMA AbortAck ==
  ASSUME TypeOK, AckInv, UNCHANGED <<rows, seq, old, voip, touched, blocked, subacct>>,
         NEW p \in Procs, Abort(p),
         \A m \in Msgs : answer'[m] = "done" => answer[m] = "done"
  PROVE  AckInv'
<1>1. job'[p] = Idle /\ \A q \in Procs : q # p => job'[q] = job[q]
  BY DEF Abort, TypeOK, TypeJobs
<1>2. p \in Handlers => Keeps(p)'
  BY <1>1, NoMsgKeeps DEF Idle
<1> QED
  BY <1>1, <1>2, SameRows, JobAck

LEMMA CheckAck ==
  ASSUME TypeOK, AckInv, NEW h \in Handlers, CheckBlocked(h)
  PROVE  Keeps(h)'
<1>1. /\ job[h].pc = "block" /\ job[h] \in Job
      /\ UNCHANGED <<rows, voip, touched, blocked>>
  BY DEF CheckBlocked, TypeOK, TypeJobs, Procs, table, outside, settings
<1>2. /\ job'[h].pc = "did" /\ job'[h].mid = job[h].mid
      /\ job'[h].left = job[h].left /\ job'[h].noinsert = job[h].noinsert
      /\ job'[h].dids = IF IsBlocked(job[h].mid) THEN <<>> ELSE job[h].dids
  BY <1>1 DEF CheckBlocked, TypeOK, TypeJobs, Procs, Job
<1> SUFFICES ASSUME NEW m \in Msgs, job[h].mid = m, voip[m] = "listed"
             PROVE  /\ job'[h].left = {}
                    /\ ~job'[h].noinsert => Recorded(m)'
                    /\ CoversAll(h, m)'
  BY <1>1, <1>2 DEF Keeps
<1>3. job[h].dids = To[m] /\ job[h].noinsert /\ job[h].left = {}
  BY <1>1 DEF AckInv, Keeps
<1>4. From[m] \notin touched => ~IsBlocked(m)
  BY MessageAssumption DEF AckInv, SettingsKept, IsBlocked
<1>5. CoversAll(h, m)'
  BY <1>1, <1>2, <1>3, <1>4 DEF CoversAll, Covers
<1> QED
  BY <1>2, <1>3, <1>5

LEMMA LookupAck ==
  ASSUME TypeOK, AckInv, NEW h \in Handlers, LookupDid(h)
  PROVE  Keeps(h)'
<1> DEFINE l == Recipients(Head(job[h].dids)) \X (1..Parts[job[h].mid])
<1>1. /\ job[h].pc = "did" /\ job[h].dids # <<>> /\ job[h] \in Job
      /\ UNCHANGED <<rows, voip, touched, subacct>>
  BY DEF LookupDid, TypeOK, TypeJobs, Procs, table, outside, settings
<1>2. /\ job'[h].pc = IF l = {} THEN "did" ELSE "insert"
      /\ job'[h].mid = job[h].mid /\ job'[h].noinsert = job[h].noinsert
      /\ job'[h].left = l /\ job'[h].dids = Tail(job[h].dids)
  BY <1>1 DEF LookupDid, TypeOK, TypeJobs, Procs, Job
<1> SUFFICES ASSUME NEW m \in Msgs, job[h].mid = m, voip[m] = "listed"
             PROVE  /\ job'[h].pc = "did" => job'[h].left = {}
                    /\ ~job'[h].noinsert => Recorded(m)'
                    /\ CoversAll(h, m)'
  BY <1>1, <1>2 DEF Keeps
<1>3. job[h].left = {} /\ CoversAll(h, m) /\ (~job[h].noinsert => Recorded(m))
  BY <1>1 DEF AckInv, Keeps
<1>4. ASSUME From[m] \notin touched, NEW a \in Accounts \ touched,
             InRange(CallerId[a], To[m])
      PROVE  Covers(h, m, a)'
  <2>1. Covers(h, m, a)
    BY <1>3, <1>4 DEF CoversAll
  <2>2. CASE InRange(CallerId[a], job[h].dids)
    <3>1. PICK i \in 1..Len(job[h].dids) : job[h].dids[i] = CallerId[a]
      BY <2>2 DEF InRange
    <3>2. job[h].dids \in Seq(Dids)
      BY <1>1 DEF Job
    <3>3. CASE i = 1
      <4>1. a \in Recipients(Head(job[h].dids))
        BY <1>1, <3>1, <3>2, <3>3 DEF Recipients, AckInv, SettingsKept
      <4>2. job'[h].left = Recipients(Head(job[h].dids)) \X (1..Parts[m])
        BY <1>2
      <4>3. \A k \in 1..Parts[m] : <<a, k>> \in job'[h].left
        BY <4>1, <4>2
      <4> QED
        BY <4>3 DEF Covers
    <3>4. CASE i # 1
      <4>1. /\ i - 1 \in 1..Len(Tail(job[h].dids))
            /\ Tail(job[h].dids)[i - 1] = CallerId[a]
        BY <1>1, <3>1, <3>2, <3>4
      <4>2. InRange(CallerId[a], job'[h].dids)
        BY <1>2, <4>1 DEF InRange
      <4> QED
        BY <4>2 DEF Covers, InRange
    <3> QED
      BY <3>3, <3>4
  <2>3. CASE ~InRange(CallerId[a], job[h].dids)
    <3>1. \A k \in 1..Parts[m] : HasRow(m, a, k)
      BY <1>3, <2>1, <2>3 DEF Covers
    <3>2. \A k \in 1..Parts[m] : HasRow(m, a, k)'
      BY <1>1, <3>1 DEF HasRow
    <3> QED
      BY <3>2 DEF Covers
  <2> QED
    BY <2>2, <2>3
<1>5. CoversAll(h, m)'
  BY <1>1, <1>4 DEF CoversAll, InRange
<1>6. ~job'[h].noinsert => Recorded(m)'
  BY <1>1, <1>2, <1>3 DEF Recorded
<1>7. job'[h].pc = "did" => job'[h].left = {}
  BY <1>2
<1> QED
  BY <1>5, <1>6, <1>7

LEMMA InsertAck ==
  ASSUME TypeOK, AckInv, NEW h \in Handlers, NEW i \in job[h].left, NEW r,
         AddsAt(r, job[h].mid, i[1], i[2]), RowsStay, job[h].pc = "insert",
         job' = [job EXCEPT ![h].left = @ \ {i}, ![h].noinsert = FALSE,
                            ![h].pc = IF job[h].left = {i} THEN "did" ELSE "insert"],
         UNCHANGED <<voip, touched>>
  PROVE  Keeps(h)'
<1>1. job[h] \in Job
  BY DEF TypeOK, TypeJobs, Procs
<1>2. /\ job'[h].pc = IF job[h].left = {i} THEN "did" ELSE "insert"
      /\ job'[h].mid = job[h].mid /\ ~job'[h].noinsert
      /\ job'[h].left = job[h].left \ {i} /\ job'[h].dids = job[h].dids
  BY <1>1 DEF TypeOK, TypeJobs, Procs, Job
<1> SUFFICES ASSUME NEW m \in Msgs, job[h].mid = m, voip[m] = "listed"
             PROVE  /\ job'[h].pc = "did" => job'[h].left = {}
                    /\ Recorded(m)'
                    /\ CoversAll(h, m)'
  <2>1. job'[h].pc \in {"did", "insert"} /\ job'[h].mid = job[h].mid /\ ~job'[h].noinsert
    BY <1>2
  <2> QED
    BY <2>1 DEF Keeps
<1>3. CoversAll(h, m)
  BY DEF AckInv, Keeps
<1>4. r \in DOMAIN rows' /\ rows'[r].mid = m
      /\ rows'[r].toid = i[1] /\ rows'[r].part = i[2]
  BY DEF AddsAt
<1>5. Recorded(m)' /\ HasRow(m, i[1], i[2])'
  BY <1>4 DEF Recorded, HasRow
<1>6. job[h].left \subseteq Accounts \X Nat
  BY <1>1 DEF Job
<1>i. i = <<i[1], i[2]>>
  BY <1>6
<1>7. \A a, k : HasRow(m, a, k) => HasRow(m, a, k)'
  BY StillThere
<1>8. ASSUME From[m] \notin touched, NEW a \in Accounts \ touched,
             InRange(CallerId[a], To[m])
      PROVE  Covers(h, m, a)'
  <2>1. Covers(h, m, a)
    BY <1>3, <1>8 DEF CoversAll
  <2>2. CASE InRange(CallerId[a], job[h].dids)
    BY <1>2, <2>2 DEF Covers, InRange
  <2>3. ASSUME ~InRange(CallerId[a], job[h].dids), NEW k \in 1..Parts[m]
        PROVE  HasRow(m, a, k)' \/ <<a, k>> \in job'[h].left
    <3>1. HasRow(m, a, k) \/ <<a, k>> \in job[h].left
      BY <2>1, <2>3 DEF Covers
    <3>2. CASE <<a, k>> = i
      <4>1. a = i[1] /\ k = i[2]
        BY <3>2
      <4> QED
        BY <1>5, <4>1
    <3>3. CASE <<a, k>> # i
      BY <1>2, <1>7, <3>1, <3>3
    <3> QED
      BY <3>2, <3>3
  <2>4. CASE ~InRange(CallerId[a], job[h].dids)
    BY <2>3, <2>4 DEF Covers
  <2> QED
    BY <2>2, <2>4
<1>9. CoversAll(h, m)'
  BY <1>8 DEF CoversAll, InRange
<1>10. job'[h].pc = "did" => job'[h].left = {}
  BY <1>2
<1> QED
  BY <1>5, <1>9, <1>10

LEMMA DummyAck == ASSUME TypeOK, AckInv, NEW p \in Procs, Dummy(p) PROVE AckInv'
<1>1. /\ job[p] \in Job /\ job[p].pc = "did" /\ job[p].dids = <<>>
      /\ UNCHANGED <<voip, touched, blocked, subacct, old>>
  BY DEF Dummy, TypeOK, TypeJobs, settings
<1>2. /\ \A q \in Procs : q # p => job'[q] = job[q]
      /\ job'[p].mid = NoMsg
  BY DEF Dummy, TypeOK, TypeJobs, Idle
<1>3. p \in Handlers => Keeps(p)'
  BY <1>2, NoMsgKeeps
<1>4. job[p].mid \in Msgs \cup {NoMsg}
  BY <1>1 DEF Job
<1>5. CASE Insert(job[p].mid, Nobody, 0, "ok")
  <2>1. Adds(job[p].mid, Nobody, 0)
    BY <1>4, <1>5, InsertAdds
  <2>2. PICK r \in Uids : AddsAt(r, job[p].mid, Nobody, 0)
    BY <2>1 DEF Adds
  <2>3. RowsStay /\ ListedIsYoung'
    BY <1>1, <2>2, AddedRow
  <2>4. ASSUME NEW m \in Msgs, voip[m] = "listed", answer'[m] = "done", answer[m] # "done"
        PROVE  Recorded(m)' /\ FannedOut(m)'
    <3>1. job[p].mid = m /\ p \in Handlers
      BY <2>4 DEF Dummy, TypeOK, TypeOutside, Procs
    <3>2. CoversAll(p, m) /\ job[p].left = {}
      BY <1>1, <2>4, <3>1 DEF AckInv, Keeps
    <3>3. FannedOut(m)
      BY <1>1, <3>1, <3>2, AllCovered
    <3>4. \A a, k : HasRow(m, a, k) => HasRow(m, a, k)'
      BY <2>3, <2>4, StillThere
    <3>5. Recorded(m)'
      BY <2>2, <3>1 DEF AddsAt, Recorded
    <3> QED
      BY <1>1, <3>3, <3>4, <3>5 DEF FannedOut
  <2> QED
    BY <1>1, <1>2, <1>3, <2>3, <2>4, JobAck
<1>6. CASE UNCHANGED table
  <2>1. UNCHANGED <<rows, seq>>
    BY <1>6 DEF table
  <2>2. \A m \in Msgs : answer'[m] = "done" => answer[m] = "done"
    <3>1. ~(seq' > seq)
      BY <2>1, BoundAssumption DEF TypeOK, TypeTable
    <3> QED
      BY <3>1 DEF Dummy, TypeOK, TypeOutside
  <2> QED
    BY <1>1, <1>2, <1>3, <2>1, <2>2, SameRows, JobAck
<1> QED
  BY <1>5, <1>6 DEF Dummy

LEMMA InsertPartAck == ASSUME TypeOK, AckInv, NEW p \in Procs, InsertPart(p) PROVE AckInv'
<1>1. PICK i \in job[p].left :
        /\ Insert(job[p].mid, i[1], i[2], "new")
        /\ job' = [job EXCEPT
                     ![p].left = @ \ {i}, ![p].noinsert = FALSE,
                     ![p].pc = IF job[p].left = {i} THEN "did" ELSE "insert"]
  BY DEF InsertPart
<1>t. job[p] \in Job
  BY DEF TypeOK, TypeJobs
<1>2. i[1] \in Accounts /\ i[2] \in Nat /\ job[p].mid \in Msgs \cup {NoMsg}
  BY <1>t DEF Job
<1>3. Adds(job[p].mid, i[1], i[2])
  BY <1>1, <1>2, InsertAdds
<1>4. PICK r \in Uids : AddsAt(r, job[p].mid, i[1], i[2])
  BY <1>3 DEF Adds
<1>5. UNCHANGED <<old, voip, touched, blocked, subacct, answer>> /\ job[p].pc = "insert"
  BY DEF InsertPart, outside, settings
<1>6. RowsStay /\ ListedIsYoung'
  BY <1>4, <1>5, AddedRow
<1>7. ASSUME p \in Handlers PROVE Keeps(p)'
  BY <1>1, <1>4, <1>5, <1>6, <1>7, InsertAck
<1>8. \A q \in Procs : q # p => job'[q] = job[q]
  BY <1>1 DEF TypeOK, TypeJobs
<1> QED
  BY <1>5, <1>6, <1>7, <1>8, JobAck

LEMMA ProducerAck == ASSUME TypeOK, AckInv, NEW p \in Procs, Producer(p) PROVE AckInv'
<1> USE DEF table, sender, outside, settings, bounds
<1>1. job[p] \in Job
  BY DEF TypeOK, TypeJobs
<1>2. CASE CheckBlocked(p)
  <2>1. /\ UNCHANGED <<rows, seq, old, voip, touched, blocked, subacct, answer>>
        /\ \A q \in Procs : q # p => job'[q] = job[q]
    BY <1>2 DEF CheckBlocked, TypeOK, TypeJobs
  <2>2. p \in Handlers => Keeps(p)'
    BY <1>2, CheckAck
  <2> QED
    BY <2>1, <2>2, SameRows, JobAck
<1>3. CASE CheckBlockedErr(p)
  <2>1. UNCHANGED <<rows, seq, old, voip, touched, blocked, subacct>> /\ Abort(p)
    BY <1>3 DEF CheckBlockedErr
  <2>2. \A m \in Msgs : answer'[m] = "done" => answer[m] = "done"
    BY <1>3 DEF CheckBlockedErr, TypeOK, TypeOutside
  <2> QED
    BY <2>1, <2>2, AbortAck
<1>4. CASE LookupDid(p)
  <2>1. /\ UNCHANGED <<rows, seq, old, voip, touched, blocked, subacct, answer>>
        /\ \A q \in Procs : q # p => job'[q] = job[q]
    BY <1>4 DEF LookupDid, TypeOK, TypeJobs
  <2>2. p \in Handlers => Keeps(p)'
    BY <1>4, LookupAck
  <2> QED
    BY <2>1, <2>2, SameRows, JobAck
<1>5. CASE LookupDidErr(p)
  BY <1>5, AbortAck DEF LookupDidErr
<1>7. CASE InsertPartErr(p)
  <2>1. UNCHANGED <<rows, seq, old, voip, touched, blocked, subacct, answer>>
    BY <1>7 DEF InsertPartErr
  <2>2. CASE job[p].mid = NoMsg
    <3>1. job'[p].mid = NoMsg /\ \A q \in Procs : q # p => job'[q] = job[q]
      BY <1>1, <1>7, <2>2 DEF InsertPartErr, TypeOK, TypeJobs, Job
    <3>2. p \in Handlers => Keeps(p)'
      BY <3>1, NoMsgKeeps
    <3> QED
      BY <2>1, <3>1, <3>2, SameRows, JobAck
  <2>3. CASE job[p].mid # NoMsg
    BY <1>7, <2>1, <2>3, AbortAck DEF InsertPartErr
  <2> QED
    BY <2>2, <2>3
<1>8. CASE Queued(p)
  <2>1. UNCHANGED <<rows, seq, old, voip, touched, blocked, subacct, answer>>
    BY <1>8 DEF Queued
  <2>2. \A q \in Procs : q # p => job'[q] = job[q]
    BY <1>8 DEF Queued, TypeOK, TypeJobs
  <2>3. ASSUME p \in Handlers PROVE Keeps(p)'
    <3>1. p # Reco /\ job[p].pc = "did" /\ job[p].dids = <<>> /\ ~job[p].noinsert
      BY <1>8, <2>3, MessageAssumption DEF Queued
    <3>2. job'[p] = [job[p] EXCEPT !.pc = "bump"]
      BY <1>8, <3>1 DEF Queued, TypeOK, TypeJobs
    <3>3. /\ job'[p].pc = "bump" /\ job'[p].mid = job[p].mid /\ job'[p].dids = <<>>
          /\ job'[p].left = job[p].left /\ ~job'[p].noinsert
      BY <1>1, <3>1, <3>2 DEF Job
    <3> SUFFICES ASSUME NEW m \in Msgs, job[p].mid = m, voip[m] = "listed"
                 PROVE  job[p].left = {} /\ Recorded(m)' /\ CoversAll(p, m)'
      BY <2>1, <3>3 DEF Keeps
    <3>4. job[p].left = {} /\ Recorded(m) /\ CoversAll(p, m)
      BY <2>3, <3>1 DEF AckInv, Keeps
    <3>5. Recorded(m)' /\ CoversAll(p, m)'
      BY <2>1, <3>1, <3>3, <3>4 DEF CoversAll, Covers, Recorded, HasRow, InRange
    <3> QED
      BY <3>4, <3>5
  <2> QED
    BY <2>1, <2>2, <2>3, SameRows, JobAck
<1> QED
  BY <1>2, <1>3, <1>4, <1>5, <1>7, <1>8, InsertPartAck, DummyAck
  DEF Producer

LEMMA ReconcileAck == ASSUME TypeOK, AckInv, Reconcile PROVE AckInv'
<1> USE DEF table, sender, outside, settings, bounds
<1>1. Reco \in Procs /\ Reco \notin Handlers
  BY MessageAssumption DEF Procs
<1>2. CASE RecoCheckErr \/ RecoDone
  BY <1>1, <1>2, AbortAck DEF RecoCheckErr, RecoDone
<1>3. CASE RecoStart
  <2>1. /\ UNCHANGED <<rows, seq, old, voip, touched, blocked, subacct, answer>>
        /\ \A q \in Procs : q # Reco => job'[q] = job[q]
    BY <1>3 DEF RecoStart, TypeOK, TypeJobs
  <2> QED
    BY <1>1, <2>1, SameRows, JobAck
<1>4. ASSUME NEW m \in Msgs, RecoCheck(m) PROVE AckInv'
  <2>1. /\ UNCHANGED <<rows, seq, old, voip, touched, blocked, subacct, answer>>
        /\ \A q \in Procs : q # Reco => job'[q] = job[q]
    BY <1>4 DEF RecoCheck, TypeOK, TypeJobs
  <2> QED
    BY <1>1, <2>1, SameRows, JobAck
<1> QED
  BY <1>2, <1>3, <1>4 DEF Reconcile

\* Rows that go are old ones, the others stay about the same.
LEMMA TableAck ==
  ASSUME TypeOK, AckInv, RowsStay,
         UNCHANGED <<seq, old, voip, job, answer, touched, blocked, subacct>>,
         DOMAIN rows' \subseteq DOMAIN rows,
         \A r \in DOMAIN rows' : rows'[r].mid = rows[r].mid /\ rows'[r].uid = rows[r].uid
  PROVE  AckInv'
<1>1. ListedIsYoung' /\ SettingsKept'
  BY DEF AckInv, ListedIsYoung, SettingsKept
<1>2. \A h \in Handlers : Keeps(h)'
  BY KeepsStill
<1>3. ASSUME NEW m \in Msgs, voip'[m] = "listed", answer'[m] = "done"
      PROVE  Recorded(m)' /\ FannedOut(m)'
  BY <1>3, DurableStill
<1>4. AckedIsDurable'
  BY <1>3 DEF AckedIsDurable
<1> QED
  BY <1>1, <1>2, <1>4 DEF AckInv

LEMMA SendingAck == ASSUME TypeOK, AckInv, Sending PROVE AckInv'
<1>1. UNCHANGED <<seq, old, voip, job, answer, touched, blocked, subacct>>
  BY DEF Sending, Wake, Select, SelectErr, Sip, Update, UpdateErr, table, outside, settings
<1>2. CASE Update
  BY <1>1, <1>2, UpdateKeeps, TableAck DEF RowsStay
<1>3. CASE ~Update
  <2>1. UNCHANGED rows
    BY <1>3 DEF Sending, Wake, Select, SelectErr, Sip, UpdateErr, table
  <2> QED
    BY <1>1, <2>1, TableAck DEF RowsStay
<1> QED
  BY <1>2, <1>3

LEMMA BumpAck == ASSUME TypeOK, AckInv, NEW h \in Handlers, Bump(h) PROVE AckInv'
<1>1. /\ h \in Procs /\ job[h].pc = "bump"
      /\ UNCHANGED <<rows, seq, old, voip, touched, blocked, subacct>>
  BY DEF Bump, Procs, table, settings
<1>2. job'[h].mid = NoMsg /\ \A q \in Procs : q # h => job'[q] = job[q]
  BY <1>1 DEF Bump, TypeOK, TypeJobs, Idle
<1>3. Keeps(h)'
  BY <1>2, NoMsgKeeps
<1>4. ASSUME NEW m \in Msgs, voip[m] = "listed", answer'[m] = "done", answer[m] # "done"
      PROVE  Recorded(m)' /\ FannedOut(m)'
  <2>1. job[h].mid = m
    BY <1>4 DEF Bump, TypeOK, TypeOutside
  <2>2. Keeps(h)
    BY DEF AckInv
  <2>3. /\ job[h].dids = <<>> /\ ~job[h].noinsert /\ job[h].left = {}
        /\ Recorded(m) /\ CoversAll(h, m)
    BY <1>1, <1>4, <2>1, <2>2 DEF Keeps
  <2>4. FannedOut(m)
    BY <2>3, AllCovered
  <2> QED
    BY <1>1, <2>3, <2>4 DEF FannedOut, Recorded, HasRow
<1> QED
  BY <1>1, <1>2, <1>3, <1>4, SameRows, JobAck

LEMMA ArriveAck == ASSUME TypeOK, BlockedInv, AckInv, NEW m \in Msgs, Arrive(m) PROVE AckInv'
<1>1. /\ UNCHANGED <<rows, seq, old, job, touched, blocked, subacct, answer>>
      /\ voip[m] = "unsent"
      /\ \A n \in Msgs : n # m => voip'[n] = voip[n]
  BY DEF Arrive, table, settings, TypeOK, TypeOutside
<1>2. /\ answer[m] = "none" /\ \A p \in Procs : job[p].mid # m
      /\ \A r \in DOMAIN rows : rows[r].mid # m
  BY <1>1 DEF BlockedInv, NothingBefore
<1>3. RowsStay
  BY <1>1 DEF RowsStay
<1>4. ListedIsYoung' /\ SettingsKept'
  BY <1>1, <1>2 DEF AckInv, ListedIsYoung, SettingsKept
<1>5. \A h \in Handlers : Keeps(h)'
  BY <1>1, <1>2, <1>3, KeepsStill DEF Procs
<1>6. ASSUME NEW n \in Msgs, voip'[n] = "listed", answer'[n] = "done"
      PROVE  Recorded(n)' /\ FannedOut(n)'
  <2>1. n # m
    BY <1>1, <1>2, <1>6
  <2> QED
    BY <1>1, <1>3, <1>6, <2>1, DurableStill
<1>7. AckedIsDurable'
  BY <1>6 DEF AckedIsDurable
<1> QED
  BY <1>4, <1>5, <1>7 DEF AckInv

\* The administrator changes something.
LEMMA TouchedAck ==
  ASSUME TypeOK, AckInv, UNCHANGED <<rows, seq, old, voip, job, answer>>,
         touched \subseteq touched', SettingsKept'
  PROVE  AckInv'
<1>1. RowsStay /\ ListedIsYoung'
  BY SameRows
<1>2. \A h \in Handlers : Keeps(h)'
  BY <1>1, KeepsStill
<1>3. ASSUME NEW m \in Msgs, voip'[m] = "listed", answer'[m] = "done"
      PROVE  Recorded(m)' /\ FannedOut(m)'
  BY <1>1, <1>3, DurableStill
<1>4. AckedIsDurable'
  BY <1>3 DEF AckedIsDurable
<1> QED
  BY <1>1, <1>2, <1>4 DEF AckInv

LEMMA PostAck ==
  ASSUME TypeOK, AckInv, NEW h \in Handlers, NEW m \in Msgs, Post(h, m)
  PROVE  AckInv'
<1>1. /\ h \in Procs
      /\ UNCHANGED <<rows, seq, old, voip, touched, blocked, subacct, answer>>
  BY DEF Post, Procs, table, outside, settings
<1>2. /\ job'[h] = [Idle EXCEPT !.pc = "block", !.mid = m, !.dids = To[m]]
      /\ \A q \in Procs : q # h => job'[q] = job[q]
  BY <1>1 DEF Post, TypeOK, TypeJobs
<1>3. /\ job'[h].pc = "block" /\ job'[h].mid = m /\ job'[h].dids = To[m]
      /\ job'[h].left = {} /\ job'[h].noinsert = TRUE
  BY <1>2 DEF Idle
<1>4. Keeps(h)'
  BY <1>3 DEF Keeps
<1> QED
  BY <1>1, <1>2, <1>4, SameRows, JobAck

LEMMA EnvironmentAck ==
  ASSUME TypeOK, BlockedInv, AckInv, Environment PROVE AckInv'
<1> USE DEF table, sender, outside, settings, bounds
<1>1. ASSUME NEW h \in Handlers, NEW a \in Accounts, Upload(h, a) PROVE AckInv'
  <2>1. /\ h \in Procs
        /\ UNCHANGED <<rows, seq, old, voip, touched, blocked, subacct, answer>>
    BY <1>1 DEF Upload, Procs
  <2>2. job'[h].mid = NoMsg /\ \A q \in Procs : q # h => job'[q] = job[q]
    BY <1>1, <2>1 DEF Upload, TypeOK, TypeJobs, Idle
  <2>3. Keeps(h)'
    BY <2>2, NoMsgKeeps
  <2> QED
    BY <2>1, <2>2, <2>3, SameRows, JobAck
<1>2. ASSUME NEW u \in Uids, TenMinutes(u) PROVE AckInv'
  <2>1. /\ DOMAIN rows' = DOMAIN rows
        /\ \A r \in DOMAIN rows :
              /\ rows'[r].uid = rows[r].uid /\ rows'[r].mid = rows[r].mid
              /\ rows'[r].toid = rows[r].toid /\ rows'[r].part = rows[r].part
    BY <1>2 DEF TenMinutes, TypeOK, TypeTable, Row
  <2>2. UNCHANGED <<seq, old, voip, job, answer, touched, blocked, subacct>>
    BY <1>2 DEF TenMinutes
  <2> QED
    BY <2>1, <2>2, TableAck DEF RowsStay
<1>3. ASSUME NEW n \in Senders, Block(n) PROVE AckInv'
  <2>1. UNCHANGED <<rows, seq, old, voip, job, answer, subacct>>
    BY <1>3 DEF Block
  <2>2. /\ touched' = touched \cup {n}
        /\ \A x \in Senders : x # n => (x \in blocked' <=> x \in blocked)
    BY <1>3 DEF Block
  <2>3. SettingsKept'
    BY <2>1, <2>2 DEF AckInv, SettingsKept
  <2> QED
    BY <2>1, <2>2, <2>3, TouchedAck
<1>4. ASSUME NEW a \in Accounts, NEW st \in {"on", "off", "absent"}, SetAccount(a, st)
      PROVE  AckInv'
  <2>1. UNCHANGED <<rows, seq, old, voip, job, answer, blocked>>
    BY <1>4 DEF SetAccount
  <2>2. /\ touched' = touched \cup {a}
        /\ \A x \in Accounts : x # a => subacct'[x] = subacct[x]
    BY <1>4 DEF SetAccount, TypeOK, TypeOutside
  <2>3. SettingsKept'
    BY <2>1, <2>2 DEF AckInv, SettingsKept
  <2> QED
    BY <2>1, <2>2, <2>3, TouchedAck
<1>5. CASE Month
  <2>1. UNCHANGED <<rows, seq, touched, blocked, subacct>> /\ old' = seq
    BY <1>5 DEF Month
  <2>2. \A m \in Msgs : voip'[m] # "listed"
    BY <1>5 DEF Month
  <2>3. old' <= seq'
    BY <2>1, BoundAssumption DEF TypeOK, TypeTable
  <2>4. ListedIsYoung' /\ SettingsKept'
    BY <2>1, <2>2, <2>3 DEF AckInv, ListedIsYoung, SettingsKept
  <2> QED
    BY <2>2, <2>4 DEF AckInv, Keeps, AckedIsDurable
<1>6. CASE Purge
  <2>1. UNCHANGED <<seq, old, voip, job, answer, touched, blocked, subacct>>
    BY <1>6 DEF Purge
  <2>2. rows' = [r \in {q \in DOMAIN rows : rows[q].uid > old} |-> rows[r]]
    BY <1>6 DEF Purge
  <2> QED
    BY <2>1, <2>2, TableAck DEF RowsStay
<1>7. CASE Restart
  <2>1. /\ UNCHANGED <<rows, seq, old, voip, touched, blocked, subacct, answer>>
        /\ \A h \in Handlers : job'[h].mid = NoMsg
    BY <1>7 DEF Restart, Procs, Idle
  <2>2. RowsStay /\ ListedIsYoung'
    BY <2>1, SameRows
  <2>3. \A h \in Handlers : Keeps(h)'
    BY <2>1, NoMsgKeeps
  <2>4. SettingsKept'
    BY <2>1 DEF AckInv, SettingsKept
  <2>5. ASSUME NEW m \in Msgs, voip'[m] = "listed", answer'[m] = "done"
        PROVE  Recorded(m)' /\ FannedOut(m)'
    BY <2>1, <2>2, <2>5, DurableStill
  <2>6. AckedIsDurable'
    BY <2>5 DEF AckedIsDurable
  <2> QED
    BY <2>2, <2>3, <2>4, <2>6 DEF AckInv
<1> QED
  BY <1>1, <1>2, <1>3, <1>4, <1>5, <1>6, <1>7, ArriveAck, PostAck DEF Environment

LEMMA NextAck == TypeOK /\ BlockedInv /\ AckInv /\ [Next]_vars => AckInv'
<1> SUFFICES ASSUME TypeOK, BlockedInv, AckInv, [Next]_vars PROVE AckInv'
  OBVIOUS
<1>1. CASE UNCHANGED vars
  BY <1>1, TableAck DEF RowsStay, vars, table, outside, settings
<1> QED
  BY <1>1, ProducerAck, BumpAck, ReconcileAck, SendingAck, EnvironmentAck DEF Next

\* A message that VoIP.ms was told 200 for, and still lists, is in the table, in
\* all its parts and for every account of its DIDs: after any interleaving of
\* web hooks, reconcile, the sender, cron, failing statements and restarts.
THEOREM AckedCorrect == Spec => []AckedIsDurable
<1>1. TypeOK /\ BlockedInv /\ AckInv /\ [Next]_vars => TypeOK' /\ BlockedInv' /\ AckInv'
  BY NextTypeOK, NextBlocked, NextAck
<1>2. AckInv => AckedIsDurable
  BY DEF AckInv
<1> QED
  BY <1>1, <1>2, InitTypeOK, InitBlocked, InitAck, PTL DEF Spec

-----------------------------------------------------------------------------
(* Reconcile queues a message once                                         *)

\* What reconcile has yet to queue of a message that no web hook was posted for.
\* It looks at one DID per message, and has no rows before that.
RecoOwes(m) ==
    job[Reco].mid = m =>
        /\ job[Reco].noinsert => ~Recorded(m)
        /\ job[Reco].pc \in {"block", "did"} /\ job[Reco].dids # <<>> =>
              job[Reco].noinsert /\ Tail(job[Reco].dids) = <<>>
        /\ job[Reco].pc = "insert" => job[Reco].dids = <<>>
        /\ \A r \in DOMAIN rows : rows[r].mid = m =>
              <<rows[r].toid, rows[r].part>> \notin job[Reco].left

OnceInv ==
    /\ ReconcileQueuesOnce
    /\ \A m \in Msgs : posts[m] = 0 =>
          /\ \A h \in Handlers : job[h].mid # m
          /\ RecoOwes(m)

LEMMA InitOnce == Init => OnceInv
  BY MessageAssumption DEF Init, OnceInv, ReconcileQueuesOnce, RecoOwes, Procs, Idle

\* The rows of messages that no web hook was posted for stay or go, and the
\* goroutines go on with other messages.
LEMMA OnceStill ==
  ASSUME TypeOK, OnceInv,
         \A m \in Msgs : posts'[m] = 0 => posts[m] = 0,
         \A r \in DOMAIN rows' : rows'[r].mid \in Msgs /\ posts'[rows'[r].mid] = 0 =>
             /\ r \in DOMAIN rows
             /\ rows'[r].mid = rows[r].mid /\ rows'[r].toid = rows[r].toid
             /\ rows'[r].part = rows[r].part,
         \A h \in Handlers : job'[h].mid \in Msgs /\ posts'[job'[h].mid] = 0 =>
             job'[h].mid = job[h].mid,
         job'[Reco] = job[Reco] \/ job'[Reco].mid = NoMsg,
         \A m \in Msgs : posts'[m] \in Nat
  PROVE  OnceInv'
<1>1. ReconcileQueuesOnce'
  <2> SUFFICES ASSUME NEW r \in DOMAIN rows', NEW q \in DOMAIN rows', rows'[r].mid \in Msgs,
                      SameItem(r, q)', r # q, posts'[rows'[r].mid] = 0
               PROVE  FALSE
    BY DEF ReconcileQueuesOnce
  <2>1. r \in DOMAIN rows /\ q \in DOMAIN rows /\ SameItem(r, q) /\ rows[r].mid = rows'[r].mid
    BY DEF SameItem
  <2> QED
    BY <2>1 DEF OnceInv, ReconcileQueuesOnce
<1>2. ASSUME NEW m \in Msgs, posts'[m] = 0
      PROVE  (\A h \in Handlers : job'[h].mid # m) /\ RecoOwes(m)'
  <2>1. (\A h \in Handlers : job[h].mid # m) /\ RecoOwes(m)
    BY <1>2 DEF OnceInv
  <2>2. \A h \in Handlers : job'[h].mid # m
    BY <1>2, <2>1
  <2>3. RecoOwes(m)'
    <3>1. CASE job'[Reco] = job[Reco]
      BY <1>2, <2>1, <3>1 DEF RecoOwes, Recorded
    <3>2. CASE job'[Reco].mid = NoMsg
      BY <3>2, MessageAssumption DEF RecoOwes
    <3> QED
      BY <3>1, <3>2
  <2> QED
    BY <2>2, <2>3
<1> QED
  BY <1>1, <1>2 DEF OnceInv

\* Reconcile goes on with its message, and no row is added.
LEMMA RecoOnce ==
  ASSUME TypeOK, OnceInv, UNCHANGED <<rows, posts>>,
         \A h \in Handlers : job'[h] = job[h],
         \A m \in Msgs : posts[m] = 0 => RecoOwes(m)'
  PROVE  OnceInv'
<1>1. ReconcileQueuesOnce'
  BY DEF OnceInv, ReconcileQueuesOnce, SameItem
<1> QED
  BY <1>1 DEF OnceInv

LEMMA HandlerOnce ==
  ASSUME TypeOK, OnceInv, NEW h \in Handlers, Producer(h) PROVE OnceInv'
<1>1. /\ h \in Procs /\ job[h] \in Job /\ h # Reco
      /\ UNCHANGED posts
  BY MessageAssumption
  DEF TypeOK, TypeJobs, Procs, Producer, CheckBlocked, CheckBlockedErr, LookupDid,
      LookupDidErr, InsertPart, InsertPartErr, Queued, Dummy, bounds
<1>2. /\ \A q \in Procs : q # h => job'[q] = job[q]
      /\ job'[h].mid \in {job[h].mid, NoMsg}
  <2>1. CASE CheckBlocked(h) \/ LookupDid(h)
    BY <1>1, <2>1 DEF CheckBlocked, LookupDid, TypeOK, TypeJobs, Job
  <2>4. CASE InsertPart(h)
    BY <1>1, <2>4 DEF InsertPart, TypeOK, TypeJobs, Job
  <2>2. CASE CheckBlockedErr(h) \/ LookupDidErr(h) \/ Dummy(h)
    BY <1>1, <2>2 DEF CheckBlockedErr, LookupDidErr, Dummy, Abort, TypeOK, TypeJobs, Idle
  <2>3. CASE InsertPartErr(h) \/ Queued(h)
    BY <1>1, <2>3 DEF InsertPartErr, Queued, Abort, TypeOK, TypeJobs, Job, Idle
  <2> QED
    BY <2>1, <2>2, <2>3, <2>4 DEF Producer
<1>3. job[h].mid \in Msgs \cup {NoMsg}
  BY <1>1 DEF Job
<1>4. \A r \in DOMAIN rows' : \/ r \in DOMAIN rows /\ rows'[r] = rows[r]
                              \/ rows'[r].mid = job[h].mid
  <2>1. CASE UNCHANGED rows
    BY <2>1
  <2>2. CASE InsertPart(h)
    <3>1. PICK i \in job[h].left : Insert(job[h].mid, i[1], i[2], "new")
      BY <2>2 DEF InsertPart
    <3>2. i[1] \in Accounts /\ i[2] \in Nat
      BY <1>1 DEF Job
    <3>3. Adds(job[h].mid, i[1], i[2])
      BY <1>3, <3>1, <3>2, InsertAdds
    <3> QED
      BY <3>3 DEF Adds, AddsAt
  <2>3. CASE Insert(job[h].mid, Nobody, 0, "ok")
    <3>1. Adds(job[h].mid, Nobody, 0)
      BY <1>3, <2>3, InsertAdds
    <3> QED
      BY <3>1 DEF Adds, AddsAt
  <2> QED
    BY <2>1, <2>2, <2>3
    DEF Producer, CheckBlocked, CheckBlockedErr, LookupDid, LookupDidErr, InsertPartErr,
        Queued, Dummy, table
<1>5. job[h].mid \in Msgs => posts[job[h].mid] # 0
  BY DEF OnceInv
<1>6. \A r \in DOMAIN rows' : rows'[r].mid \in Msgs /\ posts'[rows'[r].mid] = 0 =>
          r \in DOMAIN rows /\ rows'[r] = rows[r]
  BY <1>1, <1>4, <1>5
<1>7. \A g \in Handlers : job'[g].mid \in Msgs /\ posts'[job'[g].mid] = 0 =>
          job'[g].mid = job[g].mid
  BY <1>2, MessageAssumption DEF Procs
<1>8. job'[Reco] = job[Reco] /\ \A m \in Msgs : posts'[m] \in Nat
  BY <1>1, <1>2 DEF Procs, TypeOK, TypeBounds
<1> QED
  BY <1>1, <1>6, <1>7, <1>8, OnceStill

\* Reconcile's INSERT of a part, or of the dummy row.
LEMMA RecoAdds ==
  ASSUME TypeOK, OnceInv, NEW r, NEW a, NEW k, AddsAt(r, job[Reco].mid, a, k),
         UNCHANGED posts, \A h \in Handlers : job'[h] = job[h],
         job[Reco].mid \in Msgs /\ posts[job[Reco].mid] = 0 =>
             \A q \in DOMAIN rows : rows[q].mid = job[Reco].mid =>
                 rows[q].toid # a \/ rows[q].part # k,
         \A m \in Msgs : posts[m] = 0 => RecoOwes(m)'
  PROVE  OnceInv'
<1>1. ReconcileQueuesOnce'
  <2> SUFFICES ASSUME NEW s \in DOMAIN rows', NEW q \in DOMAIN rows', rows'[s].mid \in Msgs,
                      SameItem(s, q)', s # q, ~(posts[rows'[s].mid] > 0)
               PROVE  FALSE
    BY DEF ReconcileQueuesOnce
  <2>1. posts[rows'[s].mid] = 0
    BY DEF TypeOK, TypeBounds
  <2>2. CASE s # r /\ q # r
    BY <2>2 DEF AddsAt, SameItem, OnceInv, ReconcileQueuesOnce
  <2>3. CASE s = r
    BY <2>1, <2>3 DEF AddsAt, SameItem
  <2>4. CASE q = r
    BY <2>1, <2>4 DEF AddsAt, SameItem
  <2> QED
    BY <2>2, <2>3, <2>4
<1> QED
  BY <1>1 DEF OnceInv

LEMMA RecoNone ==
  ASSUME job'[Reco].mid = NoMsg
  PROVE  \A m \in Msgs : RecoOwes(m)'
  BY MessageAssumption DEF RecoOwes

LEMMA RecoProducerOnce == ASSUME TypeOK, OnceInv, Producer(Reco) PROVE OnceInv'
<1>1. /\ Reco \in Procs /\ job[Reco] \in Job /\ \A h \in Handlers : h \in Procs /\ h # Reco
  BY MessageAssumption DEF TypeOK, TypeJobs, Procs
<1>2. UNCHANGED posts /\ \A h \in Handlers : job'[h] = job[h]
  BY <1>1 DEF Producer, CheckBlocked, CheckBlockedErr, LookupDid, LookupDidErr, InsertPart,
              InsertPartErr, Queued, Dummy, Abort, bounds, TypeOK, TypeJobs
<1>3. job[Reco].mid \in Msgs \cup {NoMsg}
  BY <1>1 DEF Job
<1>4. \A m \in Msgs : posts[m] = 0 => RecoOwes(m)
  BY DEF OnceInv
<1>5. CASE CheckBlocked(Reco)
  <2>1. /\ UNCHANGED rows /\ job[Reco].pc = "block" /\ job'[Reco].pc = "did"
        /\ job'[Reco].mid = job[Reco].mid /\ job'[Reco].left = job[Reco].left
        /\ job'[Reco].noinsert = job[Reco].noinsert
        /\ job'[Reco].dids \in {job[Reco].dids, <<>>}
    BY <1>1, <1>5 DEF CheckBlocked, table, TypeOK, TypeJobs, Job
  <2>2. \A m \in Msgs : posts[m] = 0 => RecoOwes(m)'
    BY <1>4, <2>1 DEF RecoOwes, Recorded
  <2> QED
    BY <1>2, <2>1, <2>2, RecoOnce
<1>6. CASE CheckBlockedErr(Reco) \/ LookupDidErr(Reco)
  <2>1. UNCHANGED rows /\ job'[Reco].mid = NoMsg
    BY <1>1, <1>6 DEF CheckBlockedErr, LookupDidErr, Abort, Idle, table, TypeOK, TypeJobs
  <2> QED
    BY <1>2, <2>1, RecoNone, RecoOnce
<1>7. CASE LookupDid(Reco)
  <2> DEFINE l == Recipients(Head(job[Reco].dids)) \X (1..Parts[job[Reco].mid])
  <2>1. /\ UNCHANGED rows /\ job[Reco].pc = "did" /\ job[Reco].dids # <<>>
        /\ job'[Reco].pc \in {"did", "insert"}
        /\ job'[Reco].mid = job[Reco].mid /\ job'[Reco].noinsert = job[Reco].noinsert
        /\ job'[Reco].dids = Tail(job[Reco].dids)
    BY <1>1, <1>7 DEF LookupDid, table, TypeOK, TypeJobs, Job
  <2>2. ASSUME NEW m \in Msgs, posts[m] = 0 PROVE RecoOwes(m)'
    <3>1. job[Reco].mid = m => /\ ~Recorded(m) /\ Tail(job[Reco].dids) = <<>>
      BY <1>4, <2>1, <2>2 DEF RecoOwes
    <3> QED
      BY <2>1, <3>1 DEF RecoOwes, Recorded
  <2> QED
    BY <1>2, <2>1, <2>2, RecoOnce
<1>8. CASE InsertPart(Reco)
  <2>1. PICK i \in job[Reco].left :
          /\ Insert(job[Reco].mid, i[1], i[2], "new")
          /\ job' = [job EXCEPT
                       ![Reco].left = @ \ {i}, ![Reco].noinsert = FALSE,
                       ![Reco].pc = IF job[Reco].left = {i} THEN "did" ELSE "insert"]
    BY <1>8 DEF InsertPart
  <2>2. job[Reco].left \subseteq Accounts \X Nat /\ job[Reco].pc = "insert"
    BY <1>1, <1>8 DEF Job, InsertPart
  <2>3. i[1] \in Accounts /\ i[2] \in Nat /\ i = <<i[1], i[2]>>
    BY <2>2
  <2>4. Adds(job[Reco].mid, i[1], i[2])
    BY <1>3, <2>1, <2>3, InsertAdds
  <2>5. PICK r \in Uids : AddsAt(r, job[Reco].mid, i[1], i[2])
    BY <2>4 DEF Adds
  <2>6. /\ job'[Reco].pc \in {"did", "insert"} /\ job'[Reco].dids = job[Reco].dids
        /\ job'[Reco].mid = job[Reco].mid /\ ~job'[Reco].noinsert
        /\ job'[Reco].left = job[Reco].left \ {i}
    BY <1>1, <2>1 DEF TypeOK, TypeJobs, Job
  <2>7. ASSUME job[Reco].mid \in Msgs, posts[job[Reco].mid] = 0
        PROVE  \A q \in DOMAIN rows : rows[q].mid = job[Reco].mid =>
                   <<rows[q].toid, rows[q].part>> \notin job[Reco].left
    BY <1>4, <2>7 DEF RecoOwes
  <2>8. job[Reco].mid \in Msgs /\ posts[job[Reco].mid] = 0 =>
          \A q \in DOMAIN rows : rows[q].mid = job[Reco].mid =>
              rows[q].toid # i[1] \/ rows[q].part # i[2]
    BY <2>3, <2>7
  <2>9. ASSUME NEW m \in Msgs, posts[m] = 0 PROVE RecoOwes(m)'
    <3> SUFFICES ASSUME job[Reco].mid = m PROVE RecoOwes(m)'
      BY <2>6 DEF RecoOwes
    <3>1. job[Reco].dids = <<>>
      BY <1>4, <2>2, <2>9 DEF RecoOwes
    <3>2. ASSUME NEW q \in DOMAIN rows', rows'[q].mid = m
          PROVE  <<rows'[q].toid, rows'[q].part>> \notin job[Reco].left \ {i}
      <4>1. CASE q = r
        BY <2>3, <2>5, <4>1 DEF AddsAt
      <4>2. CASE q # r
        BY <2>5, <2>7, <2>9, <3>2, <4>2 DEF AddsAt
      <4> QED
        BY <4>1, <4>2
    <3> QED
      BY <2>6, <3>1, <3>2 DEF RecoOwes
  <2> QED
    BY <1>2, <2>5, <2>8, <2>9, RecoAdds
<1>9. CASE InsertPartErr(Reco)
  <2>1. UNCHANGED rows
    BY <1>9 DEF InsertPartErr, table
  <2>2. job'[Reco].mid = NoMsg
    BY <1>1, <1>9 DEF InsertPartErr, Abort, Idle, TypeOK, TypeJobs, Job
  <2> QED
    BY <1>2, <2>1, <2>2, RecoNone, RecoOnce
<1>10. CASE Queued(Reco)
  <2>1. UNCHANGED rows /\ job'[Reco].mid = NoMsg
    BY <1>1, <1>10 DEF Queued, Idle, table, TypeOK, TypeJobs
  <2> QED
    BY <1>2, <2>1, RecoNone, RecoOnce
<1>11. CASE Dummy(Reco)
  <2>1. job'[Reco].mid = NoMsg /\ job[Reco].noinsert
    BY <1>1, <1>11 DEF Dummy, Idle, TypeOK, TypeJobs
  <2>2. CASE Insert(job[Reco].mid, Nobody, 0, "ok")
    <3>1. Adds(job[Reco].mid, Nobody, 0)
      BY <1>3, <2>2, InsertAdds
    <3>2. PICK r \in Uids : AddsAt(r, job[Reco].mid, Nobody, 0)
      BY <3>1 DEF Adds
    <3>3. job[Reco].mid \in Msgs /\ posts[job[Reco].mid] = 0 => ~Recorded(job[Reco].mid)
      BY <1>4, <2>1 DEF RecoOwes
    <3> QED
      BY <1>2, <2>1, <3>2, <3>3, RecoNone, RecoAdds DEF Recorded
  <2>3. CASE UNCHANGED table
    BY <1>2, <2>1, <2>3, RecoNone, RecoOnce DEF table
  <2> QED
    BY <1>11, <2>2, <2>3 DEF Dummy
<1> QED
  BY <1>5, <1>6, <1>7, <1>8, <1>9, <1>10, <1>11 DEF Producer

LEMMA ReconcileOnce == ASSUME TypeOK, OnceInv, Reconcile PROVE OnceInv'
<1>1. /\ Reco \in Procs /\ job[Reco] \in Job /\ \A h \in Handlers : h \in Procs /\ h # Reco
  BY MessageAssumption DEF TypeOK, TypeJobs, Procs
<1>2. UNCHANGED <<rows, posts>> /\ \A h \in Handlers : job'[h] = job[h]
  BY <1>1 DEF Reconcile, RecoStart, RecoCheck, RecoCheckErr, RecoDone, Abort, bounds, table,
              TypeOK, TypeJobs
<1>3. CASE RecoStart
  <2>1. /\ job'[Reco].mid = job[Reco].mid /\ job'[Reco].pc = "list"
        /\ job'[Reco].left = job[Reco].left /\ job'[Reco].noinsert = job[Reco].noinsert
    BY <1>1, <1>3 DEF RecoStart, TypeOK, TypeJobs, Job
  <2>2. ASSUME NEW m \in Msgs, posts[m] = 0 PROVE RecoOwes(m)'
    <3>1. RecoOwes(m)
      BY <2>2 DEF OnceInv
    <3> QED
      BY <1>2, <2>1, <3>1 DEF RecoOwes, Recorded
  <2> QED
    BY <1>2, <2>2, RecoOnce
<1>4. ASSUME NEW m \in Msgs, RecoCheck(m) PROVE OnceInv'
  <2>1. CASE NeedsQueueing(m)
    <3>1. job'[Reco] = [Idle EXCEPT !.pc = "block", !.mid = m, !.dids = <<Head(To[m])>>]
      BY <1>1, <1>4, <2>1 DEF RecoCheck, TypeOK, TypeJobs
    <3>2. /\ job'[Reco].pc = "block" /\ job'[Reco].mid = m /\ job'[Reco].left = {}
          /\ job'[Reco].noinsert = TRUE /\ job'[Reco].dids = <<Head(To[m])>>
      BY <3>1 DEF Idle
    <3>3. Tail(job'[Reco].dids) = <<>>
      BY <3>2
    <3>4. \A n \in Msgs : RecoOwes(n)'
      BY <1>2, <2>1, <3>2, <3>3 DEF RecoOwes, NeedsQueueing, Recorded
    <3> QED
      BY <1>2, <3>4, RecoOnce
  <2>2. CASE ~NeedsQueueing(m)
    <3>1. job' = job
      BY <1>4, <2>2 DEF RecoCheck
    <3>2. \A n \in Msgs : posts[n] = 0 => RecoOwes(n)'
      BY <1>2, <3>1 DEF OnceInv, RecoOwes, Recorded
    <3> QED
      BY <1>2, <3>2, RecoOnce
  <2> QED
    BY <2>1, <2>2
<1>5. CASE RecoCheckErr \/ RecoDone
  <2>1. job'[Reco].mid = NoMsg
    BY <1>1, <1>5 DEF RecoCheckErr, RecoDone, Abort, Idle, TypeOK, TypeJobs
  <2> QED
    BY <1>2, <2>1, RecoNone, RecoOnce
<1> QED
  BY <1>3, <1>4, <1>5 DEF Reconcile

\* Rows may go, what stays is about the same; and no goroutine takes a step.
LEMMA TableOnce ==
  ASSUME TypeOK, OnceInv, UNCHANGED <<job, posts>>, DOMAIN rows' \subseteq DOMAIN rows,
         \A r \in DOMAIN rows' : /\ rows'[r].mid = rows[r].mid /\ rows'[r].toid = rows[r].toid
                                 /\ rows'[r].part = rows[r].part
  PROVE  OnceInv'
<1>1. \A m \in Msgs : posts'[m] \in Nat
  BY DEF TypeOK, TypeBounds
<1> QED
  BY <1>1, OnceStill

LEMMA SendingOnce == ASSUME TypeOK, OnceInv, Sending PROVE OnceInv'
<1>1. UNCHANGED <<job, posts>>
  BY DEF Sending, Wake, Select, SelectErr, Sip, Update, UpdateErr, bounds
<1>2. CASE Update
  BY <1>1, <1>2, UpdateKeeps, TableOnce
<1>3. CASE ~Update
  <2>1. UNCHANGED rows
    BY <1>3 DEF Sending, Wake, Select, SelectErr, Sip, UpdateErr, table
  <2> QED
    BY <1>1, <2>1, TableOnce
<1> QED
  BY <1>2, <1>3

\* One web hook or upload takes a step that leaves the table alone.
LEMMA OneOnce ==
  ASSUME TypeOK, OnceInv, UNCHANGED rows, NEW h \in Handlers,
         \A q \in Procs : q # h => job'[q] = job[q],
         \A m \in Msgs : posts'[m] \in Nat /\ posts'[m] >= posts[m],
         job'[h].mid = NoMsg \/ posts'[job'[h].mid] # 0
  PROVE  OnceInv'
<1>1. \A m \in Msgs : posts[m] \in Nat
  BY DEF TypeOK, TypeBounds
<1>2. \A m \in Msgs : posts'[m] = 0 => posts[m] = 0
  BY <1>1
<1>3. job'[Reco] = job[Reco]
  BY MessageAssumption DEF Procs
<1>4. \A g \in Handlers : job'[g].mid \in Msgs /\ posts'[job'[g].mid] = 0 =>
          job'[g].mid = job[g].mid
  BY MessageAssumption DEF Procs
<1> QED
  BY <1>2, <1>3, <1>4, OnceStill

LEMMA EnvironmentOnce == ASSUME TypeOK, OnceInv, Environment PROVE OnceInv'
<1> USE DEF table, sender, outside, settings, bounds
<1>t. \A m \in Msgs : posts[m] \in Nat
  BY DEF TypeOK, TypeBounds
<1>1. ASSUME NEW m \in Msgs, Arrive(m) PROVE OnceInv'
  BY <1>1, TableOnce DEF Arrive
<1>2. ASSUME NEW h \in Handlers, NEW m \in Msgs, Post(h, m) PROVE OnceInv'
  <2>1. UNCHANGED rows /\ h \in Procs
    BY <1>2 DEF Post, Procs
  <2>2. job'[h].mid = m /\ \A q \in Procs : q # h => job'[q] = job[q]
    BY <1>2, <2>1 DEF Post, TypeOK, TypeJobs, Idle
  <2>3. /\ posts'[m] = posts[m] + 1
        /\ \A n \in Msgs : n # m => posts'[n] = posts[n]
    BY <1>2 DEF Post, TypeOK, TypeBounds
  <2>4. /\ \A n \in Msgs : posts'[n] \in Nat /\ posts'[n] >= posts[n]
        /\ posts'[m] # 0
    BY <1>t, <2>3
  <2> QED
    BY <2>1, <2>2, <2>4, OneOnce
<1>3. ASSUME NEW h \in Handlers, NEW a \in Accounts, Upload(h, a) PROVE OnceInv'
  <2>1. UNCHANGED <<rows, posts>> /\ h \in Procs
    BY <1>3 DEF Upload, Procs
  <2>2. job'[h].mid = NoMsg /\ \A q \in Procs : q # h => job'[q] = job[q]
    BY <1>3, <2>1 DEF Upload, TypeOK, TypeJobs, Idle
  <2>3. \A n \in Msgs : posts'[n] \in Nat /\ posts'[n] >= posts[n]
    BY <1>t, <2>1
  <2> QED
    BY <2>1, <2>2, <2>3, OneOnce
<1>4. ASSUME NEW u \in Uids, TenMinutes(u) PROVE OnceInv'
  <2>1. /\ DOMAIN rows' = DOMAIN rows
        /\ \A r \in DOMAIN rows :
              /\ rows'[r].mid = rows[r].mid /\ rows'[r].toid = rows[r].toid
              /\ rows'[r].part = rows[r].part
    BY <1>4 DEF TenMinutes, TypeOK, TypeTable, Row
  <2> QED
    BY <1>4, <2>1, TableOnce DEF TenMinutes
<1>5. ASSUME NEW n \in Senders, Block(n) PROVE OnceInv'
  BY <1>5, TableOnce DEF Block
<1>6. ASSUME NEW a \in Accounts, NEW st \in {"on", "off", "absent"}, SetAccount(a, st)
      PROVE  OnceInv'
  BY <1>6, TableOnce DEF SetAccount
<1>7. CASE Month
  BY <1>7, TableOnce DEF Month
<1>8. CASE Purge
  BY <1>8, TableOnce DEF Purge
<1>9. CASE Restart
  <2>1. /\ UNCHANGED <<rows, posts>>
        /\ \A p \in Procs : job'[p].mid = NoMsg
    BY <1>9 DEF Restart, Idle
  <2>2. job'[Reco].mid = NoMsg /\ \A h \in Handlers : job'[h].mid \notin Msgs
    BY <2>1, MessageAssumption DEF Procs
  <2> QED
    BY <1>t, <2>1, <2>2, OnceStill
<1> QED
  BY <1>1, <1>2, <1>3, <1>4, <1>5, <1>6, <1>7, <1>8, <1>9 DEF Environment

LEMMA NextOnce == TypeOK /\ OnceInv /\ [Next]_vars => OnceInv'
<1> SUFFICES ASSUME TypeOK, OnceInv, [Next]_vars PROVE OnceInv'
  OBVIOUS
<1>1. ASSUME NEW p \in Procs, Producer(p) PROVE OnceInv'
  BY <1>1, HandlerOnce, RecoProducerOnce DEF Procs
<1>2. ASSUME NEW h \in Handlers, Bump(h) PROVE OnceInv'
  <2>1. UNCHANGED <<rows, posts>> /\ h \in Procs
    BY <1>2 DEF Bump, Procs, table, bounds
  <2>2. job'[h].mid = NoMsg /\ \A q \in Procs : q # h => job'[q] = job[q]
    BY <1>2, <2>1 DEF Bump, TypeOK, TypeJobs, Idle
  <2>3. \A n \in Msgs : posts'[n] \in Nat /\ posts'[n] >= posts[n]
    BY <2>1 DEF TypeOK, TypeBounds
  <2> QED
    BY <2>1, <2>2, <2>3, OneOnce
<1>3. CASE UNCHANGED vars
  BY <1>3, TableOnce DEF vars, table, bounds
<1> QED
  BY <1>1, <1>2, <1>3, ReconcileOnce, SendingOnce, EnvironmentOnce DEF Next

\* A message that only reconcile takes up is queued once per account and part,
\* however often its passes are repeated, fail or die in between.
THEOREM ReconcileCorrect == Spec => []ReconcileQueuesOnce
<1>1. TypeOK /\ OnceInv /\ [Next]_vars => TypeOK' /\ OnceInv'
  BY NextTypeOK, NextOnce
<1>2. OnceInv => ReconcileQueuesOnce
  BY DEF OnceInv
<1> QED
  BY <1>1, <1>2, InitTypeOK, InitOnce, PTL DEF Spec
=============================================================================
