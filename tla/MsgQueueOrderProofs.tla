------------------------ MODULE MsgQueueOrderProofs ------------------------
(***************************************************************************)
(* The message queue implements Mailbox, and a row is marked as accepted   *)
(* only when it was: for every number of accounts, messages and goroutines *)
(* and every interleaving of them with the sender, cron and restarts.      *)
(* What was tried rests for ten minutes, and what was accepted for good.   *)
(***************************************************************************)
EXTENDS MsgQueueProofs

-----------------------------------------------------------------------------
(* The inductive invariant                                                 *)

Waits(r, a) == rows[r].toid = a /\ Pending(r)

\* Rowids and uids are in the same order.
RowOrder ==
    /\ \A r \in DOMAIN rows : rows[r].uid <= seq
    /\ \A r, q \in DOMAIN rows : r < q => rows[r].uid < rows[q].uid

\* What waits for an account is not older than what was tried.
TriedFirst ==
    \A a \in Accounts :
        /\ tried[a] <= seq
        /\ \A r \in DOMAIN rows : Waits(r, a) => tried[a] <= rows[r].uid

\* The sender holds at most one row per account, the oldest that waits.
HeldOldest ==
    \A e \in recs :
        /\ e.uid <= seq
        /\ tried[e.toid] <= e.uid
        /\ \A r \in DOMAIN rows : Waits(r, e.toid) => e.uid <= rows[r].uid

HeldApart == \A e, f \in recs : e.toid = f.toid \/ e.rowid = f.rowid => e = f

\* A held rowid is never that of an account's finished row, ...
HeldPending ==
    \A e \in recs : e.rowid \in DOMAIN rows /\ rows[e.rowid].toid \in Accounts
                        => Pending(e.rowid)

\* ... and it is that of the selected row, unless it was given out again.
HeldSame ==
    ~reused => \A e \in recs : e.rowid \in DOMAIN rows => rows[e.rowid].uid = e.uid

OutcomeOfFirst ==
    spc = "update" /\ outcome => \A e \in recs : First(e) => e.uid \in accepted

OrderInv == RowOrder /\ TriedFirst /\ HeldOldest /\ HeldApart /\ HeldPending
MarkInv == HeldSame /\ OutcomeOfFirst /\ MarkedMeansAccepted

-----------------------------------------------------------------------------
(* What the steps of the system do to the table and to the sender          *)

\* One row is appended, with the next uid; an account's row is not finished.
Appended ==
    \E r \in Uids, w \in Row :
        /\ Fresh(r)
        /\ rows' = [q \in DOMAIN rows \cup {r} |-> IF q = r THEN w ELSE rows[q]]
        /\ w.uid = seq + 1 /\ seq' = seq + 1
        /\ w.toid \in Accounts => w.status # "ok"
        /\ ~reused' => ~reused /\ \A e \in recs : e.rowid # r
        /\ UNCHANGED <<spc, recs, outcome, tried, accepted>>

\* Rows may go; those that stay keep their identity, account and status.
Trimmed ==
    /\ DOMAIN rows' \subseteq DOMAIN rows
    /\ \A r \in DOMAIN rows' : /\ rows'[r].uid = rows[r].uid
                               /\ rows'[r].toid = rows[r].toid
                               /\ rows'[r].status = rows[r].status
    /\ UNCHANGED <<seq, reused>>

Unsent == UNCHANGED <<spc, recs, outcome, tried, accepted>>

LEMMA NobodyIsNone == Nobody \notin Accounts
  BY AccountsAssumption DEF Nobody

LEMMA UntouchedTrims == UNCHANGED table => Trimmed
  BY DEF table, Trimmed

LEMMA InsertAppends ==
  ASSUME TypeOK, NEW m \in Msgs \cup {NoMsg}, NEW a \in Accounts \cup {Nobody},
         NEW k \in Nat, NEW st \in {"new", "fail", "ok"}, Insert(m, a, k, st),
         a \in Accounts => st = "new", UNCHANGED sender
  PROVE  Appended
<1> DEFINE w == [uid |-> seq + 1, mid |-> m, toid |-> a, part |-> k,
                 status |-> st, cool |-> FALSE]
<1>1. PICK r \in Uids :
        /\ Fresh(r)
        /\ rows' = [q \in DOMAIN rows \cup {r} |-> IF q = r THEN w ELSE rows[q]]
        /\ reused' = (reused \/ \E e \in recs : e.rowid = r)
  BY DEF Insert
<1>2. seq + 1 \in Uids /\ seq' = seq + 1
  BY BoundAssumption DEF Insert, TypeOK, TypeTable, Uids
<1>3. w \in Row
  BY <1>2 DEF Row
<1>4. w.uid = seq + 1 /\ (w.toid \in Accounts => w.status # "ok")
  OBVIOUS
<1>5. ~reused' => ~reused /\ \A e \in recs : e.rowid # r
  BY <1>1
<1>6. UNCHANGED <<spc, recs, outcome, tried, accepted>>
  BY DEF sender
<1> HIDE DEF w
<1> QED
  BY <1>1, <1>2, <1>3, <1>4, <1>5, <1>6 DEF Appended

LEMMA ProducerEffect ==
  ASSUME TypeOK, NEW p \in Procs, Producer(p)
  PROVE  (Appended \/ Trimmed) /\ Unsent
<1> USE UntouchedTrims
<1>1. job[p] \in Job
  BY DEF TypeOK, TypeJobs
<1>2. UNCHANGED sender
  BY DEF Producer, CheckBlocked, CheckBlockedErr, LookupDid, LookupDidErr,
         InsertPart, InsertPartErr, Queued, Dummy
<1>3. Unsent
  BY <1>2 DEF sender, Unsent
<1>4. CASE InsertPart(p)
  <2>1. PICK i \in job[p].left : Insert(job[p].mid, i[1], i[2], "new")
    BY <1>4 DEF InsertPart
  <2>2. i[1] \in Accounts /\ i[2] \in Nat /\ job[p].mid \in Msgs \cup {NoMsg}
    BY <1>1 DEF Job
  <2> QED
    BY <1>2, <1>3, <2>1, <2>2, InsertAppends
<1>5. CASE Dummy(p)
  <2>1. job[p].mid \in Msgs \cup {NoMsg}
    BY <1>1 DEF Job
  <2>2. CASE Insert(job[p].mid, Nobody, 0, "ok")
    BY <1>2, <1>3, <2>1, <2>2, InsertAppends, NobodyIsNone
  <2>3. CASE UNCHANGED table
    BY <1>3, <2>3
  <2> QED
    BY <1>5, <2>2, <2>3 DEF Dummy
<1>6. CASE CheckBlocked(p) \/ CheckBlockedErr(p) \/ LookupDid(p) \/ LookupDidErr(p)
           \/ InsertPartErr(p) \/ Queued(p)
  BY <1>3, <1>6 DEF CheckBlocked, CheckBlockedErr, LookupDid, LookupDidErr,
                    InsertPartErr, Queued
<1> QED
  BY <1>4, <1>5, <1>6 DEF Producer

LEMMA EnvironmentEffect ==
  ASSUME TypeOK, Environment
  PROVE  Trimmed /\ (Unsent \/ Restart)
<1> USE UntouchedTrims DEF Unsent, sender
<1>1. ASSUME NEW m \in Msgs, Arrive(m) PROVE Trimmed /\ Unsent
  BY <1>1 DEF Arrive
<1>2. ASSUME NEW h \in Handlers, NEW m \in Msgs, Post(h, m) PROVE Trimmed /\ Unsent
  BY <1>2 DEF Post
<1>3. ASSUME NEW h \in Handlers, NEW a \in Accounts, Upload(h, a)
      PROVE  Trimmed /\ Unsent
  BY <1>3 DEF Upload
<1>4. ASSUME NEW u \in Uids, TenMinutes(u) PROVE Trimmed /\ Unsent
  BY <1>4 DEF TenMinutes, Trimmed, TypeOK, TypeTable, Row
<1>5. ASSUME NEW n \in Senders, Block(n) PROVE Trimmed /\ Unsent
  BY <1>5 DEF Block
<1>6. ASSUME NEW a \in Accounts, NEW st \in {"on", "off", "absent"}, SetAccount(a, st)
      PROVE  Trimmed /\ Unsent
  BY <1>6 DEF SetAccount
<1>7. CASE Month
  BY <1>7 DEF Month
<1>8. CASE Purge
  BY <1>8 DEF Purge, Trimmed
<1>9. CASE Restart
  BY <1>9 DEF Restart
<1> QED
  BY <1>1, <1>2, <1>3, <1>4, <1>5, <1>6, <1>7, <1>8, <1>9 DEF Environment

\* Every step of the system is one of these.
LEMMA Effects ==
  ASSUME TypeOK, [Next]_vars
  PROVE  \/ Appended
         \/ Trimmed /\ (Unsent \/ Restart)
         \/ Sending
<1>1. ASSUME NEW h \in Handlers, Bump(h) PROVE Trimmed /\ Unsent
  BY <1>1, UntouchedTrims DEF Bump, sender, Unsent
<1>2. CASE Reconcile
  BY <1>2, UntouchedTrims DEF Reconcile, RecoStart, RecoCheck, RecoCheckErr, RecoDone,
                              sender, Unsent
<1>3. CASE UNCHANGED vars
  BY <1>3, UntouchedTrims DEF vars, sender, Unsent
<1> QED
  BY <1>1, <1>2, <1>3, ProducerEffect, EnvironmentEffect DEF Next

\* The sender is done with the row it tried first, whether or not the UPDATE
\* that notes the outcome works.
Finished(e) ==
    /\ First(e)
    /\ recs' = recs \ {e}
    /\ outcome' = FALSE /\ spc' # "update"
    /\ DOMAIN rows' = DOMAIN rows
    /\ \A r \in DOMAIN rows :
          /\ rows'[r].uid = rows[r].uid /\ rows'[r].toid = rows[r].toid
          /\ rows'[r].status # rows[r].status =>
                r = e.rowid /\ (rows'[r].status = "ok" => outcome)
    /\ UNCHANGED <<seq, reused, tried>>
    /\ accepted' = accepted \/ (rows' = rows /\ accepted' = accepted \ {e.uid})

LEMMA UpdateFinishes ==
  ASSUME TypeOK, Update \/ UpdateErr
  PROVE  \E e \in recs : Finished(e)
<1>1. CASE Update
  <2>1. PICK e \in recs :
          /\ First(e)
          /\ rows' = IF e.rowid \in DOMAIN rows THEN Mark(e.rowid) ELSE rows
          /\ NextRec(e)
    BY <1>1 DEF Update
  <2>2. DOMAIN rows' = DOMAIN rows
    BY <2>1 DEF Mark, TypeOK, TypeTable
  <2>3. ASSUME NEW r \in DOMAIN rows
        PROVE  /\ rows'[r].uid = rows[r].uid /\ rows'[r].toid = rows[r].toid
               /\ rows'[r].status # rows[r].status =>
                     r = e.rowid /\ (rows'[r].status = "ok" => outcome)
    BY <2>1, <2>3 DEF Mark, TypeOK, TypeTable, Row
  <2> QED
    BY <1>1, <2>1, <2>2, <2>3 DEF Update, Finished, NextRec
<1>2. CASE UpdateErr
  BY <1>2 DEF UpdateErr, Finished, NextRec, Forget, table
<1> QED
  BY <1>1, <1>2

-----------------------------------------------------------------------------
(* Order: the invariant                                                    *)

LEMMA InitOrder == Init => OrderInv
  BY DEF Init, OrderInv, RowOrder, TriedFirst, HeldOldest, HeldApart, HeldPending

LEMMA AppendedOrder == ASSUME TypeOK, OrderInv, Appended PROVE OrderInv'
<1>1. PICK r \in Uids, w \in Row :
        /\ Fresh(r)
        /\ rows' = [q \in DOMAIN rows \cup {r} |-> IF q = r THEN w ELSE rows[q]]
        /\ w.uid = seq + 1 /\ seq' = seq + 1
        /\ w.toid \in Accounts => w.status # "ok"
        /\ UNCHANGED <<spc, recs, outcome, tried, accepted>>
  BY DEF Appended
<1>2. /\ DOMAIN rows' = DOMAIN rows \cup {r}
      /\ rows'[r] = w
      /\ \A q \in DOMAIN rows : q < r /\ rows'[q] = rows[q]
  BY <1>1 DEF Fresh, TypeOK, TypeTable, Uids
<1>3. seq \in Int /\ \A q \in DOMAIN rows : rows[q].uid \in Int /\ q \in Int
  BY BoundAssumption DEF TypeOK, TypeTable, Uids, Row
<1>4. RowOrder'
  <2>1. \A q \in DOMAIN rows' : rows'[q].uid <= seq'
    BY <1>1, <1>2, <1>3 DEF OrderInv, RowOrder
  <2>2. ASSUME NEW p \in DOMAIN rows', NEW q \in DOMAIN rows', p < q
        PROVE  rows'[p].uid < rows'[q].uid
    <3>1. p \in DOMAIN rows
      BY <1>2, <1>3, <2>2 DEF Uids
    <3>2. CASE q = r
      BY <1>1, <1>2, <1>3, <3>1, <3>2 DEF OrderInv, RowOrder
    <3>3. CASE q # r
      BY <1>2, <2>2, <3>1, <3>3 DEF OrderInv, RowOrder
    <3> QED
      BY <3>2, <3>3
  <2> QED
    BY <2>1, <2>2 DEF RowOrder
<1>5. TriedFirst'
  <2> SUFFICES ASSUME NEW a \in Accounts
               PROVE  /\ tried'[a] <= seq'
                      /\ \A q \in DOMAIN rows' : Waits(q, a)' => tried'[a] <= rows'[q].uid
    BY DEF TriedFirst
  <2>1. tried[a] \in Int /\ tried[a] <= seq
    BY DEF TypeOK, TypeSender, Uids, OrderInv, TriedFirst
  <2>2. tried'[a] <= seq'
    BY <1>1, <1>3, <2>1
  <2>3. ASSUME NEW q \in DOMAIN rows', Waits(q, a)' PROVE tried'[a] <= rows'[q].uid
    <3>1. CASE q = r
      BY <1>1, <1>2, <1>3, <2>1, <3>1
    <3>2. CASE q # r
      BY <1>1, <1>2, <2>3, <3>2 DEF OrderInv, TriedFirst, Waits, Pending
    <3> QED
      BY <3>1, <3>2
  <2> QED
    BY <2>2, <2>3
<1>6. HeldOldest'
  <2> SUFFICES ASSUME NEW e \in recs
               PROVE  /\ e.uid <= seq'
                      /\ tried'[e.toid] <= e.uid
                      /\ \A q \in DOMAIN rows' : Waits(q, e.toid)' => e.uid <= rows'[q].uid
    BY <1>1 DEF HeldOldest
  <2>1. e.uid \in Int /\ e.uid <= seq /\ tried[e.toid] <= e.uid
    BY DEF TypeOK, TypeSender, Rec, Uids, OrderInv, HeldOldest
  <2>2. ASSUME NEW q \in DOMAIN rows', Waits(q, e.toid)' PROVE e.uid <= rows'[q].uid
    <3>1. CASE q = r
      BY <1>1, <1>2, <1>3, <2>1, <3>1
    <3>2. CASE q # r
      BY <1>1, <1>2, <2>2, <3>2 DEF OrderInv, HeldOldest, Waits, Pending
    <3> QED
      BY <3>1, <3>2
  <2>3. e.uid <= seq' /\ tried'[e.toid] <= e.uid
    BY <1>1, <1>3, <2>1
  <2> QED
    BY <2>2, <2>3
<1>7. HeldApart'
  BY <1>1 DEF OrderInv, HeldApart
<1>8. HeldPending'
  BY <1>1, <1>2 DEF OrderInv, HeldPending, Pending
<1> QED
  BY <1>4, <1>5, <1>6, <1>7, <1>8 DEF OrderInv

LEMMA TrimmedOrder ==
  ASSUME TypeOK, OrderInv, Trimmed, Unsent \/ Restart
  PROVE  OrderInv'
<1>1. tried' = tried /\ recs' \subseteq recs
  BY DEF Unsent, Restart
<1>2. \A r \in DOMAIN rows', a \in Accounts : Waits(r, a)' => Waits(r, a)
  BY DEF Trimmed, Waits, Pending
<1>3. RowOrder'
  BY DEF OrderInv, RowOrder, Trimmed
<1>4. TriedFirst'
  BY <1>1, <1>2 DEF OrderInv, TriedFirst, Trimmed
<1>5. HeldOldest'
  BY <1>1, <1>2 DEF OrderInv, HeldOldest, Trimmed, TypeOK, TypeSender, Rec
<1>6. HeldApart' /\ HeldPending'
  BY <1>1 DEF OrderInv, HeldApart, HeldPending, Trimmed, Pending
<1> QED
  BY <1>3, <1>4, <1>5, <1>6 DEF OrderInv

LEMMA SelectOrder == ASSUME TypeOK, OrderInv, Select PROVE OrderInv'
<1>1. UNCHANGED <<rows, seq, tried>>
  BY DEF Select, table
<1>2. recs' = {[rowid |-> r, uid |-> rows[r].uid, toid |-> rows[r].toid] :
                  r \in {q \in DOMAIN rows : Due(q)}}
  BY DEF Select
<1>3. ASSUME NEW e \in recs'
      PROVE  \E r \in DOMAIN rows : /\ Due(r) /\ e.rowid = r
                                    /\ e.uid = rows[r].uid /\ e.toid = rows[r].toid
  BY <1>2
<1>4. \A r \in DOMAIN rows : rows[r].uid \in Int /\ r \in Int /\ rows[r].uid <= seq
  BY DEF TypeOK, TypeTable, Uids, Row, OrderInv, RowOrder
<1>5. RowOrder' /\ TriedFirst'
  BY <1>1 DEF OrderInv, RowOrder, TriedFirst, Waits, Pending
<1>6. HeldOldest'
  <2> SUFFICES ASSUME NEW e \in recs'
               PROVE  /\ e.uid <= seq /\ tried[e.toid] <= e.uid
                      /\ \A q \in DOMAIN rows : Waits(q, e.toid) => e.uid <= rows[q].uid
    BY <1>1 DEF HeldOldest, Waits, Pending
  <2>1. PICK r \in DOMAIN rows : /\ Due(r) /\ e.rowid = r
                                 /\ e.uid = rows[r].uid /\ e.toid = rows[r].toid
    BY <1>3
  <2>2. Waits(r, e.toid) /\ e.toid \in Accounts
    BY <2>1 DEF Due, Oldest, Waits
  <2>3. e.uid <= seq /\ tried[e.toid] <= e.uid
    BY <1>4, <2>1, <2>2 DEF OrderInv, TriedFirst
  <2>4. ASSUME NEW q \in DOMAIN rows, Waits(q, e.toid) PROVE e.uid <= rows[q].uid
    <3>1. r <= q
      BY <2>1, <2>4 DEF Due, Oldest, Waits
    <3>2. r = q \/ r < q
      BY <1>4, <3>1
    <3> QED
      BY <1>4, <2>1, <3>2 DEF OrderInv, RowOrder
  <2> QED
    BY <2>3, <2>4
<1>7. HeldApart'
  <2> SUFFICES ASSUME NEW e \in recs', NEW f \in recs',
                      e.toid = f.toid \/ e.rowid = f.rowid
               PROVE  e = f
    BY DEF HeldApart
  <2>1. PICK r \in DOMAIN rows :
          /\ Due(r) /\ e = [rowid |-> r, uid |-> rows[r].uid, toid |-> rows[r].toid]
    BY <1>2
  <2>2. PICK q \in DOMAIN rows :
          /\ Due(q) /\ f = [rowid |-> q, uid |-> rows[q].uid, toid |-> rows[q].toid]
    BY <1>2
  <2>3. CASE rows[r].toid = rows[q].toid
    <3>1. r <= q /\ q <= r
      BY <2>1, <2>2, <2>3 DEF Due, Oldest
    <3> QED
      BY <1>4, <2>1, <2>2, <3>1
  <2>4. CASE r = q
    BY <2>1, <2>2, <2>4
  <2> QED
    BY <2>1, <2>2, <2>3, <2>4
<1>8. HeldPending'
  BY <1>1, <1>3 DEF HeldPending, Pending, Due, Oldest
<1> QED
  BY <1>5, <1>6, <1>7, <1>8 DEF OrderInv

LEMMA SipOrder ==
  ASSUME TypeOK, OrderInv, NEW ok \in BOOLEAN, Sip(ok)
  PROVE  OrderInv'
<1>1. PICK e \in recs : First(e) /\ tried' = [tried EXCEPT ![e.toid] = e.uid]
  BY DEF Sip
<1>2. UNCHANGED <<rows, seq, recs>>
  BY DEF Sip, table
<1>3. e.toid \in Accounts /\ e.uid \in Int /\ e.uid <= seq
  BY DEF TypeOK, TypeSender, Rec, Uids, OrderInv, HeldOldest
<1>4. tried'[e.toid] = e.uid /\ \A a \in Accounts : a # e.toid => tried'[a] = tried[a]
  BY <1>1, <1>3 DEF TypeOK, TypeSender
<1>5. RowOrder' /\ HeldApart' /\ HeldPending'
  BY <1>2 DEF OrderInv, RowOrder, HeldApart, HeldPending, Pending
<1>6. TriedFirst'
  <2> SUFFICES ASSUME NEW a \in Accounts
               PROVE  /\ tried'[a] <= seq
                      /\ \A r \in DOMAIN rows : Waits(r, a) => tried'[a] <= rows[r].uid
    BY <1>2 DEF TriedFirst, Waits, Pending
  <2>1. CASE a = e.toid
    BY <1>3, <1>4, <2>1 DEF OrderInv, HeldOldest
  <2>2. CASE a # e.toid
    BY <1>4, <2>2 DEF OrderInv, TriedFirst
  <2> QED
    BY <2>1, <2>2
<1>7. HeldOldest'
  <2> SUFFICES ASSUME NEW f \in recs PROVE tried'[f.toid] <= f.uid
    BY <1>2 DEF OrderInv, HeldOldest, Waits, Pending
  <2>1. CASE f = e
    BY <1>3, <1>4, <2>1
  <2>2. CASE f # e
    BY <1>4, <2>2 DEF OrderInv, HeldApart, HeldOldest, TypeOK, TypeSender, Rec
  <2> QED
    BY <2>1, <2>2
<1> QED
  BY <1>5, <1>6, <1>7 DEF OrderInv

LEMMA FinishedWaits ==
  ASSUME TypeOK, OrderInv, NEW e \in recs, Finished(e), NEW a \in Accounts,
         NEW r \in DOMAIN rows, Waits(r, a)'
  PROVE  Waits(r, a)
<1>1. CASE r = e.rowid
  BY <1>1 DEF Finished, Waits, Pending, OrderInv, HeldPending
<1>2. CASE r # e.rowid
  BY <1>2 DEF Finished, Waits, Pending
<1> QED
  BY <1>1, <1>2

LEMMA FinishedOrder ==
  ASSUME TypeOK, OrderInv, NEW e \in recs, Finished(e)
  PROVE  OrderInv'
<1>1. /\ DOMAIN rows' = DOMAIN rows /\ recs' = recs \ {e}
      /\ UNCHANGED <<seq, tried>>
      /\ \A r \in DOMAIN rows : rows'[r].uid = rows[r].uid /\ rows'[r].toid = rows[r].toid
  BY DEF Finished
<1>2. RowOrder'
  BY <1>1 DEF OrderInv, RowOrder
<1>3. TriedFirst'
  BY <1>1, FinishedWaits DEF OrderInv, TriedFirst
<1>4. HeldOldest'
  BY <1>1, FinishedWaits DEF OrderInv, HeldOldest, TypeOK, TypeSender, Rec
<1>5. HeldApart'
  BY <1>1 DEF OrderInv, HeldApart
<1>6. HeldPending'
  <2> SUFFICES ASSUME NEW f \in recs, f # e, f.rowid \in DOMAIN rows,
                      rows[f.rowid].toid \in Accounts
               PROVE  rows'[f.rowid].status # "ok"
    BY <1>1 DEF HeldPending, Pending
  <2>1. f.rowid # e.rowid
    BY DEF OrderInv, HeldApart
  <2> QED
    BY <2>1 DEF Finished, OrderInv, HeldPending, Pending
<1> QED
  BY <1>2, <1>3, <1>4, <1>5, <1>6 DEF OrderInv

LEMMA NextOrder == TypeOK /\ OrderInv /\ [Next]_vars => OrderInv'
<1> SUFFICES ASSUME TypeOK, OrderInv, [Next]_vars PROVE OrderInv'
  OBVIOUS
<1>1. CASE Sending
  <2>1. CASE Wake \/ SelectErr
    <3>1. UNCHANGED <<rows, seq, tried, recs>>
      BY <2>1 DEF Wake, SelectErr, table, sender
    <3> QED
      BY <3>1 DEF OrderInv, RowOrder, TriedFirst, HeldOldest, HeldApart, HeldPending,
                  Waits, Pending
  <2> QED
    BY <1>1, <2>1, SelectOrder, SipOrder, UpdateFinishes, FinishedOrder DEF Sending
<1> QED
  BY <1>1, Effects, AppendedOrder, TrimmedOrder

\* Inductive invariant behind the two theorems below: the rows that wait for
\* an account are numbered after the last one tried, and the sender holds at
\* most one row per account, the oldest.
THEOREM OrderCorrect == Spec => []OrderInv
<1>1. TypeOK /\ OrderInv /\ [Next]_vars => TypeOK' /\ OrderInv'
  BY NextTypeOK, NextOrder
<1> QED
  BY <1>1, InitTypeOK, InitOrder, PTL DEF Spec

-----------------------------------------------------------------------------
(* Order: the refinement                                                   *)

Waiting(a) == {rows[r].uid : r \in {q \in DOMAIN rows : rows[q].toid = a /\ Pending(q)}}

LEMMA WaitingIs ==
  ASSUME NEW a \in Accounts
  PROVE  \A u : u \in Waiting(a) <=> \E r \in DOMAIN rows : Waits(r, a) /\ u = rows[r].uid
  BY DEF Waiting, Waits

LEMMA WaitingIsNext ==
  ASSUME NEW a \in Accounts
  PROVE  \A u : u \in Waiting(a)' <=> \E r \in DOMAIN rows' : Waits(r, a)' /\ u = rows'[r].uid
  BY DEF Waiting, Waits

LEMMA WaitingType ==
  ASSUME TypeOK, NEW a \in Accounts
  PROVE  Waiting(a) \subseteq Uids
  BY DEF Waiting, TypeOK, TypeTable, Row

\* The waiting rows of an account after an INSERT.
LEMMA AppendedPuts ==
  ASSUME TypeOK, TypeOK', OrderInv, Appended
  PROVE  \/ \E a \in Accounts, u \in Uids : MB!Put(a, u)
         \/ UNCHANGED MB!vars
<1>1. PICK r \in Uids, w \in Row :
        /\ Fresh(r)
        /\ rows' = [q \in DOMAIN rows \cup {r} |-> IF q = r THEN w ELSE rows[q]]
        /\ w.uid = seq + 1 /\ seq' = seq + 1
        /\ w.toid \in Accounts => w.status # "ok"
        /\ UNCHANGED <<spc, recs, outcome, tried, accepted>>
  BY DEF Appended
<1>2. /\ DOMAIN rows' = DOMAIN rows \cup {r} /\ r \notin DOMAIN rows
      /\ rows'[r] = w
      /\ \A q \in DOMAIN rows : rows'[q] = rows[q]
  BY <1>1 DEF Fresh, TypeOK, TypeTable, Uids
<1>3. seq \in Int /\ w.uid \in Uids
      /\ \A q \in DOMAIN rows : rows[q].uid \in Int /\ rows[q].uid <= seq
  BY BoundAssumption DEF TypeOK, TypeTable, Uids, Row, OrderInv, RowOrder
<1>4. ASSUME NEW a \in Accounts
      PROVE  Waiting(a)' = IF a = w.toid THEN Waiting(a) \cup {w.uid} ELSE Waiting(a)
  <2>1. \A q \in DOMAIN rows : Waits(q, a)' <=> Waits(q, a)
    BY <1>2 DEF Waits, Pending
  <2>2. Waits(r, a)' <=> a = w.toid
    BY <1>1, <1>2 DEF Waits, Pending
  <2>3. ASSUME NEW u
        PROVE  u \in Waiting(a)' <=> u \in Waiting(a) \/ (a = w.toid /\ u = w.uid)
    <3>1. u \in Waiting(a) <=> \E q \in DOMAIN rows : Waits(q, a) /\ u = rows[q].uid
      BY WaitingIs
    <3>2. u \in Waiting(a)' <=> \E q \in DOMAIN rows' : Waits(q, a)' /\ u = rows'[q].uid
      BY WaitingIsNext
    <3> QED
      BY <1>2, <2>1, <2>2, <3>1, <3>2
  <2> HIDE DEF Waiting
  <2> QED
    BY <2>3
<1>5. CASE w.toid \in Accounts
  <2> DEFINE a == w.toid
  <2>1. [b \in Accounts |-> Waiting(b)'] =
          [[b \in Accounts |-> Waiting(b)] EXCEPT ![a] = @ \cup {w.uid}]
    BY <1>4, <1>5
  <2>2. w.uid > tried[a]
    BY <1>1, <1>3, <1>5 DEF OrderInv, TriedFirst, TypeOK, TypeSender, Uids
  <2>3. \A v \in Waiting(a) : v < w.uid
    BY <1>1, <1>3, <1>5, WaitingIs
  <2>4. MB!Put(a, w.uid)
    BY <1>1, <1>5, <2>1, <2>2, <2>3 DEF MB!Put, Waiting
  <2> QED
    BY <1>3, <1>5, <2>4
<1>6. CASE w.toid \notin Accounts
  <2>1. \A a \in Accounts : Waiting(a)' = Waiting(a)
    BY <1>4, <1>6
  <2> QED
    BY <1>1, <2>1 DEF MB!vars, Waiting
<1> QED
  BY <1>5, <1>6

\* Rows that go, or that are marked, leave the mailbox.
LEMMA Leaves ==
  ASSUME TypeOK', UNCHANGED tried, DOMAIN rows' \subseteq DOMAIN rows,
         \A r \in DOMAIN rows' : rows'[r].uid = rows[r].uid,
         \A r \in DOMAIN rows', a \in Accounts : Waits(r, a)' => Waits(r, a)
  PROVE  MB!Leave
<1>1. ASSUME NEW a \in Accounts
      PROVE  Waiting(a)' \subseteq Waiting(a) /\ Waiting(a)' \subseteq Uids
  <2>1. Waiting(a)' \subseteq Waiting(a)
    BY WaitingIs, WaitingIsNext
  <2>2. Waiting(a)' \subseteq Uids
    BY WaitingIsNext DEF TypeOK, TypeTable, Row
  <2> QED
    BY <2>1, <2>2
<1> QED
  BY <1>1 DEF MB!Leave, Waiting

LEMMA SipTries ==
  ASSUME TypeOK, OrderInv, NEW ok \in BOOLEAN, Sip(ok)
  PROVE  \E a \in Accounts, u \in Uids : MB!Try(a, u)
<1>1. PICK e \in recs : First(e) /\ tried' = [tried EXCEPT ![e.toid] = e.uid]
  BY DEF Sip
<1>2. e.toid \in Accounts /\ e.uid \in Uids
  BY DEF TypeOK, TypeSender, Rec
<1>3. e.uid >= tried[e.toid]
  BY <1>2 DEF OrderInv, HeldOldest, TypeOK, TypeSender, Uids
<1>4. \A v \in Waiting(e.toid) : e.uid <= v
  BY <1>2, WaitingIs DEF OrderInv, HeldOldest
<1>5. \A a \in Accounts : Waiting(a)' = Waiting(a)
  BY DEF Sip, table, Waiting, Pending
<1>6. MB!Try(e.toid, e.uid)
  BY <1>1, <1>2, <1>3, <1>4, <1>5 DEF MB!Try, Waiting
<1> QED
  BY <1>2, <1>6

LEMMA StepInOrder ==
  ASSUME TypeOK, TypeOK', OrderInv, [Next]_vars
  PROVE  [MB!Next]_(MB!vars)
<1>1. CASE Appended
  BY <1>1, AppendedPuts DEF MB!Next
<1>2. CASE Trimmed /\ (Unsent \/ Restart)
  <2>1. MB!Leave
    BY <1>2, Leaves DEF Trimmed, Unsent, Restart, Waits, Pending
  <2> QED
    BY <2>1 DEF MB!Next
<1>3. CASE Sending
  <2>1. CASE Wake \/ Select \/ SelectErr
    <3>1. UNCHANGED <<rows, tried>>
      BY <2>1 DEF Wake, Select, SelectErr, table, sender
    <3> QED
      BY <3>1 DEF MB!vars, Pending
  <2>2. ASSUME NEW e \in recs, Finished(e) PROVE MB!Leave
    BY <2>2, Leaves, FinishedWaits DEF Finished
  <2> QED
    BY <1>3, <2>1, <2>2, SipTries, UpdateFinishes DEF Sending, MB!Next
<1> QED
  BY <1>1, <1>2, <1>3, Effects

\* The queue implements Mailbox: per account the oldest message is tried until
\* it is accepted or deleted, and nothing that is tried overtakes another.
THEOREM QueueInOrder == Spec => InOrder
<1>1. Init => MB!Init
  BY DEF Init, MB!Init
<1> QED
  BY <1>1, StepInOrder, TypeCorrect, OrderCorrect, PTL DEF Spec, InOrder, MB!Spec

-----------------------------------------------------------------------------
(* A message is not handed over twice, nor tried twice within ten minutes  *)

\* The row that the sender tried and is about to mark.
BeingMarked(r) ==
    spc = "update" /\ \E e \in recs : First(e) /\ e.rowid = r /\ e.uid = rows[r].uid

\* A uid that was tried is an old one, and no two selected rows share theirs.
UidsApart ==
    /\ \A u \in accepted \cup hot : u <= seq
    /\ \A e, f \in recs : e.uid = f.uid => e = f
    /\ \A e \in recs, r \in DOMAIN rows : rows[r].uid = e.uid => e.rowid = r
    /\ \A e \in recs : e.rowid \in DOMAIN rows /\ rows[e.rowid].uid \in accepted =>
          rows[e.rowid].uid = e.uid

\* What was accepted waits no more, and what was tried lately is not due: but
\* for the row whose mark is on its way.
RowsMarked ==
    /\ \A r \in DOMAIN rows : Pending(r) /\ rows[r].uid \in accepted =>
          outcome /\ BeingMarked(r)
    /\ \A r \in DOMAIN rows : Pending(r) /\ rows[r].uid \in hot =>
          rows[r].cool \/ BeingMarked(r)

\* The same for the rows that the sender selected.
HeldUntried ==
    /\ \A e \in recs : e.uid \in accepted => spc = "update" /\ outcome /\ First(e)
    /\ \A e \in recs : e.uid \in hot => spc = "update" /\ First(e)

HandInv == UidsApart /\ RowsMarked /\ HeldUntried

LEMMA InitHand == Init => HandInv
  BY DEF Init, HandInv, UidsApart, RowsMarked, HeldUntried

LEMMA OneFirst ==
  ASSUME TypeOK, OrderInv, NEW e \in recs, NEW f \in recs, First(e), First(f)
  PROVE  e = f
<1>1. e.rowid \in Int /\ f.rowid \in Int /\ e.rowid <= f.rowid /\ f.rowid <= e.rowid
  BY DEF TypeOK, TypeSender, Rec, Uids, First
<1>2. e.rowid = f.rowid
  BY <1>1
<1> QED
  BY <1>2 DEF OrderInv, HeldApart

\* Nothing is sent, selected or marked.
Quiet ==
    /\ DOMAIN rows' \subseteq DOMAIN rows
    /\ \A r \in DOMAIN rows' :
          /\ rows'[r].uid = rows[r].uid /\ rows'[r].status = rows[r].status
          /\ rows[r].cool => rows'[r].cool \/ rows[r].uid \notin hot'
    /\ hot' \subseteq hot
    /\ spc' = "update" <=> spc = "update"
    /\ UNCHANGED <<recs, outcome, accepted, seq>>

LEMMA UntouchedQuiet == UNCHANGED <<table, sender>> => Quiet
  BY DEF table, sender, Quiet

LEMMA ProducerQuiet ==
  ASSUME TypeOK, NEW p \in Procs, Producer(p)
  PROVE  Quiet \/ (Appended /\ UNCHANGED hot)
<1>1. UNCHANGED sender
  BY DEF Producer, CheckBlocked, CheckBlockedErr, LookupDid, LookupDidErr,
         InsertPart, InsertPartErr, Queued, Dummy
<1>2. CASE UNCHANGED table
  BY <1>1, <1>2, UntouchedQuiet
<1>3. CASE InsertPart(p) \/ Insert(job[p].mid, Nobody, 0, "ok")
  <2>1. job[p] \in Job
    BY DEF TypeOK, TypeJobs
  <2>2. job[p].mid \in Msgs \cup {NoMsg}
    BY <2>1 DEF Job
  <2>3. CASE InsertPart(p)
    <3>1. PICK i \in job[p].left : Insert(job[p].mid, i[1], i[2], "new")
      BY <2>3 DEF InsertPart
    <3>2. i[1] \in Accounts /\ i[2] \in Nat
      BY <2>1 DEF Job
    <3>3. Appended
      BY <1>1, <2>2, <3>1, <3>2, InsertAppends
    <3> QED
      BY <1>1, <3>3 DEF sender
  <2>4. CASE Insert(job[p].mid, Nobody, 0, "ok")
    <3>1. Appended
      BY <1>1, <2>2, <2>4, InsertAppends, NobodyIsNone
    <3> QED
      BY <1>1, <3>1 DEF sender
  <2> QED
    BY <1>3, <2>3, <2>4
<1>4. CASE CheckBlocked(p) \/ CheckBlockedErr(p) \/ LookupDid(p) \/ LookupDidErr(p)
           \/ InsertPartErr(p) \/ Queued(p)
  BY <1>2, <1>4 DEF CheckBlocked, CheckBlockedErr, LookupDid, LookupDidErr,
                    InsertPartErr, Queued
<1>5. CASE Dummy(p)
  BY <1>2, <1>3, <1>5 DEF Dummy
<1> QED
  BY <1>3, <1>4, <1>5 DEF Producer

LEMMA EnvironmentQuiet == ASSUME TypeOK, Environment, ~Restart PROVE Quiet
<1> USE UntouchedQuiet
<1>1. ASSUME NEW m \in Msgs, Arrive(m) PROVE Quiet
  BY <1>1 DEF Arrive
<1>2. ASSUME NEW h \in Handlers, NEW m \in Msgs, Post(h, m) PROVE Quiet
  BY <1>2 DEF Post
<1>3. ASSUME NEW h \in Handlers, NEW a \in Accounts, Upload(h, a) PROVE Quiet
  BY <1>3 DEF Upload
<1>4. ASSUME NEW u \in Uids, TenMinutes(u) PROVE Quiet
  <2>1. /\ hot' = hot \ {u}
        /\ rows' = [r \in DOMAIN rows |->
                      IF rows[r].uid = u THEN [rows[r] EXCEPT !.cool = FALSE] ELSE rows[r]]
        /\ UNCHANGED <<spc, recs, outcome, accepted, seq>>
    BY <1>4 DEF TenMinutes
  <2>2. ASSUME NEW r \in DOMAIN rows
        PROVE  /\ rows'[r].uid = rows[r].uid /\ rows'[r].status = rows[r].status
               /\ rows[r].cool => rows'[r].cool \/ rows[r].uid \notin hot'
    BY <2>1 DEF TypeOK, TypeTable, Row
  <2> QED
    BY <2>1, <2>2 DEF Quiet
<1>5. ASSUME NEW n \in Senders, Block(n) PROVE Quiet
  BY <1>5 DEF Block
<1>6. ASSUME NEW a \in Accounts, NEW st \in {"on", "off", "absent"}, SetAccount(a, st)
      PROVE  Quiet
  BY <1>6 DEF SetAccount
<1>7. CASE Month
  BY <1>7 DEF Month
<1>8. CASE Purge
  BY <1>8 DEF Purge, Quiet, sender
<1> QED
  BY <1>1, <1>2, <1>3, <1>4, <1>5, <1>6, <1>7, <1>8 DEF Environment

LEMMA QuietHand ==
  ASSUME TypeOK, UidsApart, RowsMarked, HeldUntried, Quiet
  PROVE  UidsApart' /\ RowsMarked' /\ HeldUntried'
<1>1. UidsApart'
  BY DEF Quiet, UidsApart
<1>2. \A r \in DOMAIN rows' : /\ r \in DOMAIN rows /\ (Pending(r)' => Pending(r))
                              /\ BeingMarked(r) => BeingMarked(r)'
  BY DEF Quiet, Pending, BeingMarked, First
<1>3. RowsMarked'
  BY <1>2 DEF Quiet, RowsMarked
<1>4. HeldUntried'
  BY DEF Quiet, HeldUntried, First
<1> QED
  BY <1>1, <1>3, <1>4

LEMMA AppendedHand ==
  ASSUME TypeOK, OrderInv, UidsApart, RowsMarked, HeldUntried, Appended, UNCHANGED hot
  PROVE  UidsApart' /\ RowsMarked' /\ HeldUntried'
<1>1. PICK r \in Uids, w \in Row :
        /\ Fresh(r)
        /\ rows' = [q \in DOMAIN rows \cup {r} |-> IF q = r THEN w ELSE rows[q]]
        /\ w.uid = seq + 1 /\ seq' = seq + 1
        /\ UNCHANGED <<spc, recs, outcome, accepted>>
  BY DEF Appended
<1>2. /\ DOMAIN rows' = DOMAIN rows \cup {r}
      /\ rows'[r] = w /\ r \notin DOMAIN rows
      /\ \A q \in DOMAIN rows : rows'[q] = rows[q]
  BY <1>1 DEF Fresh, TypeOK, TypeTable, Uids
<1>3. seq \in Int
  BY BoundAssumption DEF TypeOK, TypeTable
<1>4. w.uid \notin accepted \cup hot
  BY <1>1, <1>3 DEF UidsApart
<1>5. \A e \in recs : w.uid # e.uid
  BY <1>1, <1>3 DEF OrderInv, HeldOldest
<1>6. UidsApart'
  <2>1. \A u \in accepted \cup hot : u <= seq'
    BY <1>1, <1>3 DEF UidsApart, TypeOK, TypeSender, Uids
  <2>2. \A e \in recs, q \in DOMAIN rows' : rows'[q].uid = e.uid => e.rowid = q
    BY <1>2, <1>5 DEF UidsApart
  <2>3. \A e \in recs : e.rowid \in DOMAIN rows' /\ rows'[e.rowid].uid \in accepted =>
          rows'[e.rowid].uid = e.uid
    BY <1>2, <1>4 DEF UidsApart
  <2> QED
    BY <1>1, <2>1, <2>2, <2>3 DEF UidsApart
<1>7. \A q \in DOMAIN rows : /\ Pending(q)' <=> Pending(q)
                             /\ BeingMarked(q) => BeingMarked(q)'
  BY <1>1, <1>2 DEF Pending, BeingMarked, First
<1>8. RowsMarked'
  BY <1>1, <1>2, <1>4, <1>7 DEF RowsMarked
<1>9. HeldUntried'
  BY <1>1 DEF HeldUntried, First
<1> QED
  BY <1>6, <1>8, <1>9

LEMMA SelectHand ==
  ASSUME TypeOK, OrderInv, UidsApart, RowsMarked, HeldUntried, Select
  PROVE  UidsApart' /\ RowsMarked' /\ HeldUntried'
<1>1. UNCHANGED <<rows, seq, accepted, hot>> /\ spc = "select" /\ spc' # "update"
  BY DEF Select, table
<1>2. recs' = {[rowid |-> r, uid |-> rows[r].uid, toid |-> rows[r].toid] :
                  r \in {q \in DOMAIN rows : Due(q)}}
  BY DEF Select
<1>3. \A e \in recs' : /\ e.rowid \in DOMAIN rows /\ Due(e.rowid)
                       /\ e.uid = rows[e.rowid].uid
                       /\ e = [rowid |-> e.rowid, uid |-> rows[e.rowid].uid,
                               toid |-> rows[e.rowid].toid]
  BY <1>2
<1>4. \A r, q \in DOMAIN rows : rows[r].uid = rows[q].uid => r = q
  <2> SUFFICES ASSUME NEW r \in DOMAIN rows, NEW q \in DOMAIN rows,
                      rows[r].uid = rows[q].uid, r # q
               PROVE  FALSE
    OBVIOUS
  <2>1. r \in Int /\ q \in Int /\ rows[r].uid \in Int /\ rows[q].uid \in Int
    BY DEF TypeOK, TypeTable, Uids, Row
  <2>2. r < q \/ q < r
    BY <2>1
  <2> QED
    BY <2>1, <2>2 DEF OrderInv, RowOrder
<1>5. UidsApart'
  <2>1. \A e, f \in recs' : e.uid = f.uid => e = f
    BY <1>3, <1>4
  <2>2. \A e \in recs', r \in DOMAIN rows : rows[r].uid = e.uid => e.rowid = r
    BY <1>3, <1>4
  <2> QED
    BY <1>1, <1>3, <2>1, <2>2 DEF UidsApart
<1>6. \A r \in DOMAIN rows : ~BeingMarked(r)
  BY <1>1 DEF BeingMarked
<1>7. RowsMarked'
  BY <1>1, <1>6 DEF RowsMarked, Pending
<1>8. \A e \in recs' : Pending(e.rowid) /\ ~rows[e.rowid].cool
  BY <1>3 DEF Due, Oldest
<1>9. \A e \in recs' : e.uid \notin accepted /\ e.uid \notin hot
  BY <1>3, <1>6, <1>8 DEF RowsMarked
<1>10. HeldUntried'
  BY <1>1, <1>9 DEF HeldUntried
<1> QED
  BY <1>5, <1>7, <1>10

LEMMA SipHand ==
  ASSUME TypeOK, OrderInv, UidsApart, RowsMarked, HeldUntried,
         NEW ok \in BOOLEAN, Sip(ok)
  PROVE  UidsApart' /\ RowsMarked' /\ HeldUntried'
<1>1. PICK e \in recs :
        /\ First(e)
        /\ accepted' = IF ok THEN accepted \cup {e.uid} ELSE accepted
        /\ hot' = hot \cup {e.uid}
  BY DEF Sip
<1>2. UNCHANGED <<rows, seq, recs>> /\ spc = "sip" /\ spc' = "update" /\ outcome' = ok
  BY DEF Sip, table
<1>3. UidsApart'
  <2>1. e.uid <= seq
    BY DEF OrderInv, HeldOldest
  <2>2. \A f \in recs : f.rowid \in DOMAIN rows /\ rows[f.rowid].uid = e.uid => f = e
    BY DEF UidsApart, OrderInv, HeldApart
  <2>3. \A f \in recs : f.rowid \in DOMAIN rows /\ rows[f.rowid].uid \in accepted' =>
          rows[f.rowid].uid = f.uid
    BY <1>1, <2>2 DEF UidsApart
  <2>4. \A u \in accepted' \cup hot' : u <= seq
    BY <1>1, <2>1 DEF UidsApart
  <2> QED
    BY <1>2, <2>3, <2>4 DEF UidsApart
<1>4. First(e)'
  BY <1>1, <1>2 DEF First
<1>5. \A r \in DOMAIN rows : rows[r].uid = e.uid => BeingMarked(r)'
  BY <1>2, <1>4 DEF UidsApart, BeingMarked
<1>6. \A r \in DOMAIN rows : ~BeingMarked(r)
  BY <1>2 DEF BeingMarked
<1>7. RowsMarked'
  BY <1>1, <1>2, <1>5, <1>6 DEF RowsMarked, Pending
<1>8. \A f \in recs : f.uid \notin accepted /\ f.uid \notin hot
  BY <1>2 DEF HeldUntried
<1>9. HeldUntried'
  <2>1. ASSUME NEW f \in recs, f.uid \in accepted' \cup hot' PROVE f = e
    BY <1>1, <1>8, <2>1 DEF UidsApart
  <2>2. \A f \in recs : f.uid \in accepted' => ok
    BY <1>1, <1>8
  <2> QED
    BY <1>2, <1>4, <2>1, <2>2 DEF HeldUntried
<1> QED
  BY <1>3, <1>7, <1>9

LEMMA UpdateHand ==
  ASSUME TypeOK, OrderInv, UidsApart, RowsMarked, HeldUntried, Update
  PROVE  UidsApart' /\ RowsMarked' /\ HeldUntried'
<1>1. PICK e \in recs :
        /\ First(e)
        /\ rows' = IF e.rowid \in DOMAIN rows THEN Mark(e.rowid) ELSE rows
        /\ NextRec(e)
  BY DEF Update
<1>2. /\ UNCHANGED <<seq, accepted, hot>> /\ recs' = recs \ {e} /\ spc' # "update"
      /\ spc = "update"
  BY <1>1 DEF Update, NextRec
<1>3. DOMAIN rows' = DOMAIN rows /\ \A r \in DOMAIN rows : rows'[r].uid = rows[r].uid
  BY UpdateKeeps
<1>4. UidsApart'
  BY <1>2, <1>3 DEF UidsApart
<1>5. \A r \in DOMAIN rows : BeingMarked(r) => r = e.rowid
  BY <1>1, OneFirst DEF BeingMarked
<1>6. \A r \in DOMAIN rows : r # e.rowid => rows'[r] = rows[r]
  BY <1>1 DEF Mark, TypeOK, TypeTable
<1>7. ASSUME e.rowid \in DOMAIN rows
      PROVE  IF outcome THEN ~Pending(e.rowid)' ELSE rows'[e.rowid].cool
  <2>1. rows' = Mark(e.rowid) /\ rows[e.rowid] \in Row
    BY <1>1, <1>7 DEF TypeOK, TypeTable
  <2>2. /\ rows'[e.rowid].status = IF outcome THEN "ok" ELSE "fail"
        /\ rows'[e.rowid].cool = ~outcome
    BY <1>7, <2>1 DEF Mark, TypeOK, TypeTable, Row
  <2> QED
    BY <2>2 DEF Pending
<1>8. RowsMarked'
  <2>1. ASSUME NEW r \in DOMAIN rows, Pending(r)', rows[r].uid \in accepted PROVE FALSE
    <3>1. CASE r = e.rowid
      <4>1. ~outcome
        BY <1>7, <2>1, <3>1
      <4>2. rows[r].uid = e.uid
        BY <2>1, <3>1 DEF UidsApart
      <4> QED
        BY <2>1, <4>1, <4>2 DEF HeldUntried
    <3>2. CASE r # e.rowid
      BY <1>5, <1>6, <2>1, <3>2 DEF RowsMarked, Pending
    <3> QED
      BY <3>1, <3>2
  <2>2. ASSUME NEW r \in DOMAIN rows, Pending(r)', rows[r].uid \in hot
        PROVE  rows'[r].cool
    <3>1. CASE r = e.rowid
      BY <1>7, <2>2, <3>1
    <3>2. CASE r # e.rowid
      BY <1>5, <1>6, <2>2, <3>2 DEF RowsMarked, Pending
    <3> QED
      BY <3>1, <3>2
  <2> QED
    BY <1>2, <1>3, <2>1, <2>2 DEF RowsMarked
<1>9. ASSUME NEW f \in recs' PROVE f.uid \notin accepted /\ f.uid \notin hot
  <2>1. f \in recs /\ f # e
    BY <1>2
  <2>2. ~First(f)
    BY <1>1, <2>1, OneFirst
  <2> QED
    BY <2>1, <2>2 DEF HeldUntried
<1>10. HeldUntried'
  BY <1>2, <1>9 DEF HeldUntried
<1> QED
  BY <1>4, <1>8, <1>10

\* What is not marked is forgotten with the row that was held for it.
LEMMA ForgetHand ==
  ASSUME TypeOK, OrderInv, UidsApart, RowsMarked, HeldUntried, UNCHANGED <<rows, seq>>,
         spc' # "update", recs' \subseteq recs,
         accepted' \subseteq accepted, hot' \subseteq hot,
         spc = "update" => \A e \in recs : First(e) =>
             e \notin recs' /\ e.uid \notin accepted' /\ e.uid \notin hot'
  PROVE  UidsApart' /\ RowsMarked' /\ HeldUntried'
<1>1. UidsApart'
  BY DEF UidsApart
<1>2. \A r \in DOMAIN rows : BeingMarked(r) =>
        rows[r].uid \notin accepted' /\ rows[r].uid \notin hot'
  BY DEF BeingMarked
<1>3. RowsMarked'
  BY <1>2 DEF RowsMarked, Pending
<1>4. \A e \in recs' : e.uid \notin accepted' /\ e.uid \notin hot'
  BY DEF HeldUntried
<1>5. HeldUntried'
  BY <1>4 DEF HeldUntried
<1> QED
  BY <1>1, <1>3, <1>5

LEMMA UpdateErrHand ==
  ASSUME TypeOK, OrderInv, UidsApart, RowsMarked, HeldUntried, UpdateErr
  PROVE  UidsApart' /\ RowsMarked' /\ HeldUntried'
<1>1. PICK e \in recs : First(e) /\ NextRec(e) /\ Forget({e.uid})
  BY DEF UpdateErr
<1>2. recs' = recs \ {e} /\ spc' # "update" /\ UNCHANGED <<rows, seq>>
  BY <1>1 DEF UpdateErr, NextRec, table
<1>3. accepted' = accepted \ {e.uid} /\ hot' = hot \ {e.uid}
  BY <1>1 DEF Forget
<1>4. \A f \in recs : First(f) => f = e
  BY <1>1, OneFirst
<1> QED
  BY <1>2, <1>3, <1>4, ForgetHand

LEMMA RestartHand ==
  ASSUME TypeOK, OrderInv, UidsApart, RowsMarked, HeldUntried, Restart
  PROVE  UidsApart' /\ RowsMarked' /\ HeldUntried'
<1> DEFINE U == {e.uid : e \in {f \in recs : spc = "update" /\ First(f)}}
<1>1. accepted' = accepted \ U /\ hot' = hot \ U
  BY DEF Restart, Forget
<1>2. recs' = {} /\ spc' # "update" /\ UNCHANGED <<rows, seq>>
  BY DEF Restart, table
<1>3. spc = "update" => \A e \in recs : First(e) => e.uid \in U
  OBVIOUS
<1> HIDE DEF U
<1> QED
  BY <1>1, <1>2, <1>3, ForgetHand

LEMMA WakeQuiet == ASSUME Wake PROVE Quiet
  BY DEF Wake, Quiet, table

LEMMA SelectErrQuiet == ASSUME SelectErr PROVE Quiet
  BY UntouchedQuiet DEF SelectErr

LEMMA NextHand == TypeOK /\ OrderInv /\ HandInv /\ [Next]_vars => HandInv'
<1> SUFFICES ASSUME TypeOK, OrderInv, UidsApart, RowsMarked, HeldUntried, [Next]_vars
             PROVE  UidsApart' /\ RowsMarked' /\ HeldUntried'
  BY DEF HandInv
<1>1. CASE \E p \in Procs : Producer(p)
  BY <1>1, ProducerQuiet, QuietHand, AppendedHand
<1>2. CASE (\E h \in Handlers : Bump(h)) \/ Reconcile \/ UNCHANGED vars
  <2>1. UNCHANGED <<table, sender>>
    BY <1>2 DEF Bump, Reconcile, RecoStart, RecoCheck, RecoCheckErr, RecoDone, vars
  <2> QED
    BY <2>1, UntouchedQuiet, QuietHand
<1>3. CASE Sending
  BY <1>3, WakeQuiet, SelectErrQuiet, QuietHand, SelectHand, SipHand, UpdateHand,
     UpdateErrHand DEF Sending
<1>4. CASE Environment
  BY <1>4, EnvironmentQuiet, QuietHand, RestartHand
<1> QED
  BY <1>1, <1>2, <1>3, <1>4 DEF Next

\* Inductive invariant behind the theorems below: what was tried is noted in its
\* row, or the sender holds it and is about to note it.
LEMMA HandCorrect == Spec => [](TypeOK /\ OrderInv /\ HandInv)
<1>1. TypeOK /\ OrderInv /\ HandInv /\ [Next]_vars => (TypeOK /\ OrderInv /\ HandInv)'
  BY NextTypeOK, NextOrder, NextHand
<1>2. Init => TypeOK /\ OrderInv /\ HandInv
  BY InitTypeOK, InitOrder, InitHand
<1> QED
  BY <1>1, <1>2, PTL DEF Spec

LEMMA NothingTriedIsHeld ==
  ASSUME HandInv, spc = "sip", NEW e \in recs
  PROVE  e.uid \notin accepted \cup hot
  BY DEF HandInv, HeldUntried

\* send_msgs hands OpenSIPS no message that OpenSIPS accepted before, and none
\* that it tried within the last ten minutes, whatever the producers, cron, the
\* administrator and restarts do to the table in between: but for the one whose
\* result was lost.
THEOREM RetryCorrect == Spec => RetriedInTurn
<1>1. (TypeOK /\ OrderInv /\ HandInv) =>
        [spc = "sip" /\ spc' = "update" =>
            \A e \in recs : First(e) => e.uid \notin accepted \cup hot]_vars
  BY NothingTriedIsHeld
<1> QED
  BY <1>1, HandCorrect, PTL DEF RetriedInTurn

-----------------------------------------------------------------------------
(* The reply code goes to the row it is about                              *)

LEMMA InitMark == Init => MarkInv
  BY DEF Init, MarkInv, HeldSame, OutcomeOfFirst, MarkedMeansAccepted

LEMMA AppendedMark == ASSUME TypeOK, MarkInv, Appended PROVE MarkInv'
<1>1. PICK r \in Uids, w \in Row :
        /\ Fresh(r)
        /\ rows' = [q \in DOMAIN rows \cup {r} |-> IF q = r THEN w ELSE rows[q]]
        /\ w.toid \in Accounts => w.status # "ok"
        /\ ~reused' => ~reused /\ \A e \in recs : e.rowid # r
        /\ UNCHANGED <<spc, recs, outcome, tried, accepted>>
  BY DEF Appended
<1>2. /\ DOMAIN rows' = DOMAIN rows \cup {r}
      /\ rows'[r] = w
      /\ \A q \in DOMAIN rows : q # r => rows'[q] = rows[q]
  BY <1>1
<1>3. HeldSame'
  BY <1>1, <1>2 DEF MarkInv, HeldSame
<1>4. OutcomeOfFirst'
  BY <1>1 DEF MarkInv, OutcomeOfFirst, First
<1>5. MarkedMeansAccepted'
  BY <1>1, <1>2 DEF MarkInv, MarkedMeansAccepted, Pending
<1> QED
  BY <1>3, <1>4, <1>5 DEF MarkInv

\* The row of a held message is pending, so that what is forgotten is no reason
\* of a mark.
LEMMA HeldUnmarked ==
  ASSUME OrderInv, UidsApart, NEW e \in recs, NEW r \in DOMAIN rows,
         rows[r].toid \in Accounts, ~Pending(r)
  PROVE  rows[r].uid # e.uid
  BY DEF OrderInv, HeldPending, UidsApart

LEMMA TrimmedMark ==
  ASSUME TypeOK, OrderInv, UidsApart, MarkInv, Trimmed, Unsent \/ Restart
  PROVE  MarkInv'
<1>1. recs' \subseteq recs /\ (spc' = "update" => UNCHANGED <<spc, recs, outcome, accepted>>)
  BY DEF Unsent, Restart
<1>2. ASSUME NEW u \in accepted, u \notin accepted' PROVE \E e \in recs : e.uid = u
  BY <1>2 DEF Unsent, Restart, Forget
<1>3. HeldSame' /\ OutcomeOfFirst'
  BY <1>1 DEF MarkInv, HeldSame, OutcomeOfFirst, First, Trimmed
<1>4. ASSUME ~reused, NEW r \in DOMAIN rows', rows[r].toid \in Accounts, ~Pending(r)
      PROVE  rows[r].uid \in accepted'
  <2>1. r \in DOMAIN rows
    BY DEF Trimmed
  <2>2. rows[r].uid \in accepted
    BY <1>4, <2>1 DEF MarkInv, MarkedMeansAccepted
  <2> QED
    BY <1>2, <1>4, <2>1, <2>2, HeldUnmarked
<1>5. MarkedMeansAccepted'
  BY <1>4 DEF MarkedMeansAccepted, Pending, Trimmed
<1> QED
  BY <1>3, <1>5 DEF MarkInv

LEMMA SipMark ==
  ASSUME TypeOK, OrderInv, MarkInv, NEW ok \in BOOLEAN, Sip(ok)
  PROVE  MarkInv'
<1>1. PICK e \in recs :
        /\ First(e)
        /\ accepted' = IF ok THEN accepted \cup {e.uid} ELSE accepted
  BY DEF Sip
<1>2. UNCHANGED <<rows, reused, recs>> /\ outcome' = ok
  BY DEF Sip, table
<1>3. HeldSame' /\ MarkedMeansAccepted'
  BY <1>1, <1>2 DEF MarkInv, HeldSame, MarkedMeansAccepted, Pending
<1>4. ASSUME NEW f \in recs, First(f), ok PROVE f.uid \in accepted'
  BY <1>1, <1>4, OneFirst
<1>5. OutcomeOfFirst'
  BY <1>2, <1>4 DEF OutcomeOfFirst, First
<1> QED
  BY <1>3, <1>5 DEF MarkInv

LEMMA FinishedMark ==
  ASSUME TypeOK, OrderInv, UidsApart, MarkInv, spc = "update",
         NEW e \in recs, Finished(e)
  PROVE  MarkInv'
<1>1. HeldSame' /\ OutcomeOfFirst'
  BY DEF Finished, MarkInv, HeldSame, OutcomeOfFirst
<1>2. ASSUME ~reused, NEW r \in DOMAIN rows, rows[r].toid \in Accounts,
             rows'[r].status = "ok"
      PROVE  rows[r].uid \in accepted'
  <2>1. CASE rows[r].status = "ok"
    <3>1. rows[r].uid \in accepted /\ rows[r].uid # e.uid
      BY <1>2, <2>1, HeldUnmarked DEF MarkInv, MarkedMeansAccepted, Pending
    <3> QED
      BY <3>1 DEF Finished
  <2>2. CASE rows[r].status # "ok"
    <3>1. r = e.rowid /\ outcome
      BY <1>2, <2>2 DEF Finished
    <3>2. rows[r].uid = e.uid
      BY <1>2, <3>1 DEF MarkInv, HeldSame
    <3>3. rows[r].uid \in accepted /\ rows' # rows
      BY <1>2, <2>2, <3>1, <3>2 DEF MarkInv, OutcomeOfFirst, Finished
    <3> QED
      BY <3>3 DEF Finished
  <2> QED
    BY <2>1, <2>2
<1>3. MarkedMeansAccepted'
  BY <1>2 DEF MarkedMeansAccepted, Pending, Finished
<1> QED
  BY <1>1, <1>3 DEF MarkInv

LEMMA NextMark ==
  TypeOK /\ OrderInv /\ HandInv /\ MarkInv /\ [Next]_vars => MarkInv'
<1> SUFFICES ASSUME TypeOK, OrderInv, UidsApart, MarkInv, [Next]_vars PROVE MarkInv'
  BY DEF HandInv
<1>1. CASE Sending
  <2>1. CASE Wake \/ SelectErr
    <3>1. UNCHANGED <<rows, reused, recs, outcome, accepted>> /\ spc' # "update"
      BY <2>1 DEF Wake, SelectErr, table, sender
    <3> QED
      BY <3>1 DEF MarkInv, HeldSame, OutcomeOfFirst, MarkedMeansAccepted, Pending
  <2>2. CASE Select
    <3>1. UNCHANGED <<rows, reused, accepted>> /\ spc' # "update"
      BY <2>2 DEF Select, table
    <3>2. \A e \in recs' : rows[e.rowid].uid = e.uid
      BY <2>2 DEF Select
    <3> QED
      BY <3>1, <3>2 DEF MarkInv, HeldSame, OutcomeOfFirst, MarkedMeansAccepted, Pending
  <2>3. CASE Update \/ UpdateErr
    BY <2>3, UpdateFinishes, FinishedMark DEF Update, UpdateErr
  <2> QED
    BY <1>1, <2>1, <2>2, <2>3, SipMark DEF Sending
<1> QED
  BY <1>1, Effects, AppendedMark, TrimmedMark

\* A row of an account that says 200 or 202 was accepted by OpenSIPS, unless
\* SQLite gave a rowid out again while send_msgs held it.
THEOREM MarkCorrect == Spec => []MarkedMeansAccepted
<1>1. TypeOK /\ OrderInv /\ HandInv /\ MarkInv /\ [Next]_vars => MarkInv'
  BY NextMark
<1>2. MarkInv => MarkedMeansAccepted
  BY DEF MarkInv
<1> QED
  BY <1>1, <1>2, HandCorrect, InitMark, PTL DEF Spec
=============================================================================
