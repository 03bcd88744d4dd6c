------------------------------ MODULE MsgQueue ------------------------------
(***************************************************************************)
(* The inbound message queue of scripts/mmsgate2.go: the table send_msgs,  *)
(* the goroutines that fill it (one per web hook POST of VoIP.ms, one per  *)
(* file upload, and the periodic reconcile), the goroutine send_msgs that  *)
(* drains it towards OpenSIPS, and cron's weekly delete.                   *)
(*                                                                         *)
(* Every SQL statement, API call, channel operation and sipexer call is a  *)
(* step of its own, because the goroutines interleave between them: the    *)
(* pool has one connection, so statements are atomic, and nothing groups   *)
(* them into a transaction.                                                *)
(***************************************************************************)
EXTENDS Integers, Sequences, FiniteSets

CONSTANTS
    Accounts,       \* rows of subacct, as positive integers in table order
    Dids,           \* the phone numbers rented at VoIP.ms
    CallerId,       \* CallerId[a]: the DID that account a uses as caller id
    Senders,        \* outside phone numbers
    Msgs,           \* message ids given by VoIP.ms
    From,           \* From[m]: the number that sent m
    To,             \* To[m]: the DIDs that m is addressed to, in order
    Parts,          \* Parts[m]: how many rows m needs (its text, each medium)
    Handlers,       \* HTTP goroutines
    Reco,           \* the reconcile goroutine
    NoMsg,          \* msgid '0' of an uploaded file
    ChanCap,        \* capacity of the channel c (10 in main)
    LongPass,       \* TRUE when one pass over the queue may take 10 minutes
    MaxRows, MaxPosts, MaxUploads, MaxFaults, MaxAdmin, MaxCrashes, MaxMonths

ASSUME AccountsAssumption == Accounts \subseteq Nat \ {0}
ASSUME MessageAssumption ==
    /\ CallerId \in [Accounts -> Dids]
    /\ From \in [Msgs -> Senders]
    /\ To \in [Msgs -> Seq(Dids)]
    /\ \A m \in Msgs : To[m] # <<>>
    /\ Parts \in [Msgs -> Nat]
    /\ NoMsg \notin Msgs
    /\ Reco \notin Handlers
ASSUME BoundAssumption ==
    /\ ChanCap \in Nat \ {0}
    /\ LongPass \in BOOLEAN
    /\ {MaxRows, MaxPosts, MaxUploads, MaxFaults,
        MaxAdmin, MaxCrashes, MaxMonths} \subseteq Nat

VARIABLES
    rows,       \* send_msgs: rowid -> row
    subacct,    \* a: "on" (receives messages), "off" (does not), "absent"
    blocked,    \* the numbers in table blocked
    chan,       \* bumps waiting in the channel c
    job,        \* what each producing goroutine is doing
    todo,       \* the messages that reconcile's pass still has to look at
    spc,        \* where send_msgs is
    recs,       \* the rows that send_msgs selected and has not finished
    outcome,    \* whether sipexer's exit code was 200 or 202
    voip,       \* state of each message at VoIP.ms
    answer,     \* what VoIP.ms was answered for each message
    \* history
    seq,        \* rows inserted so far; a row's uid is its number
    old,        \* rows with a uid up to this one are over 30 days old
    tried,      \* tried[a]: the uid last sent towards account a
    accepted,   \* uids that OpenSIPS accepted, ...
    hot,        \* ... and those tried within the last 10 minutes: both without
                \* tries whose result was lost before the table had it
    reused,     \* a rowid was given again while send_msgs still held it
    touched,    \* accounts and numbers that the administrator changed
    tainted,    \* messages that arrived from a number blocked ever since
    \* how much of each bound is used
    posts, uploads, faults, admin, crashes, months

table == <<rows, seq, reused>>
sender == <<spc, recs, outcome, tried, accepted, hot>>
outside == <<voip, answer, tainted>>
settings == <<subacct, blocked, touched>>
bounds == <<posts, uploads, faults, admin, crashes, months>>
vars == <<table, sender, outside, settings, bounds, chan, job, todo, old>>

-----------------------------------------------------------------------------
(* Values                                                                  *)

Nobody == 0                     \* toid 'none' or 'blocked' of a dummy row
Procs == Handlers \cup {Reco}
Uids == 1..MaxRows

Row == [uid : Uids, mid : Msgs \cup {NoMsg}, toid : Accounts \cup {Nobody},
        part : Nat, status : {"new", "fail", "ok"}, cool : BOOLEAN]

\* One goroutine's progress: DIDs not looked up yet, <<account, part>> pairs
\* of the current DID not inserted yet, and whether nothing was inserted.
Job == [pc : {"idle", "list", "block", "did", "insert", "bump"},
        mid : Msgs \cup {NoMsg}, dids : Seq(Dids),
        left : SUBSET (Accounts \X Nat), noinsert : BOOLEAN]

Idle == [pc |-> "idle", mid |-> NoMsg, dids |-> <<>>, left |-> {},
         noinsert |-> TRUE]

Rec == [rowid : Uids, uid : Uids, toid : Accounts]

-----------------------------------------------------------------------------
(* The table.  A definition named Bad... is a mistake that the code could  *)
(* have made in place of the definition below it.                          *)

Pending(r) == rows[r].status # "ok"            \* NOT IN ('200','202')

\* An INSERT without a rowid takes the one after the largest in use.
Fresh(r) == /\ r = 1 \/ r - 1 \in DOMAIN rows
            /\ \A q \in DOMAIN rows : q < r

Insert(m, a, k, st) ==
    /\ seq < MaxRows
    /\ seq' = seq + 1
    /\ \E r \in Uids :
        /\ Fresh(r)
        /\ rows' = [q \in DOMAIN rows \cup {r} |->
                       IF q = r
                       THEN [uid |-> seq + 1, mid |-> m, toid |-> a, part |-> k,
                             status |-> st, cool |-> FALSE]
                       ELSE rows[q]]
        /\ reused' = (reused \/ \E e \in recs : e.rowid = r)

Recorded(m) == \E r \in DOMAIN rows : rows[r].mid = m
HasRow(m, a, k) == \E r \in DOMAIN rows :
    rows[r].mid = m /\ rows[r].toid = a /\ rows[r].part = k

\* A statement or a call that fails; how often it does is bounded.
Fault == faults < MaxFaults /\ faults' = faults + 1

-----------------------------------------------------------------------------
Init ==
    /\ rows = [r \in {} |-> Idle]
    /\ subacct = [a \in Accounts |-> "on"]
    /\ blocked = {}
    /\ chan = 1                                \* main's first bump
    /\ job = [p \in Procs |-> Idle]
    /\ todo = {}
    /\ spc = "wait" /\ recs = {} /\ outcome = FALSE
    /\ voip = [m \in Msgs |-> "unsent"]
    /\ answer = [m \in Msgs |-> "none"]
    /\ seq = 0 /\ old = 0
    /\ tried = [a \in Accounts |-> 0]
    /\ accepted = {} /\ hot = {} /\ reused = FALSE
    /\ touched = {} /\ tainted = {}
    /\ posts = [m \in Msgs |-> 0]
    /\ uploads = 0 /\ faults = 0 /\ admin = 0 /\ crashes = 0 /\ months = 0

-----------------------------------------------------------------------------
(* VoIP.ms                                                                 *)

\* Somebody texts one of the DIDs.
Arrive(m) ==
    /\ voip[m] = "unsent"
    /\ voip' = [voip EXCEPT ![m] = "listed"]
    /\ tainted' = IF From[m] \in blocked THEN tainted \cup {m} ELSE tainted
    /\ UNCHANGED <<table, sender, settings, bounds, chan, job, todo, old, answer>>

\* VoIP.ms posts m to the web hook, again while it has no 200 for it.
Post(h, m) ==
    /\ job[h].pc = "idle"
    /\ voip[m] = "listed" /\ answer[m] = "none"
    /\ posts[m] < MaxPosts
    /\ posts' = [posts EXCEPT ![m] = @ + 1]
    /\ job' = [job EXCEPT ![h] = [Idle EXCEPT !.pc = "block", !.mid = m,
                                              !.dids = To[m]]]
    /\ UNCHANGED <<table, sender, outside, settings, chan, todo, old,
                   uploads, faults, admin, crashes, months>>

-----------------------------------------------------------------------------
(* Queueing a message: webhookHandler, and reconcile for one message       *)

\* The goroutine gives up: a handler returns, reconcile abandons its pass.
Abort(p) == /\ job' = [job EXCEPT ![p] = Idle]
            /\ todo' = IF p = Reco THEN {} ELSE todo

\* SELECT COUNT(*) FROM blocked WHERE ? LIKE number
BadIsBlocked(m) == FALSE
IsBlocked(m) == From[m] \in blocked

\* A blocked message skips the DID loop.
CheckBlocked(p) ==
    /\ job[p].pc = "block"
    /\ job' = [job EXCEPT ![p].pc = "did",
                          ![p].dids = IF IsBlocked(job[p].mid) THEN <<>> ELSE @]
    /\ UNCHANGED <<table, sender, outside, settings, bounds, chan, todo, old>>

\* The count fails: the handler returns without a status, which is a 200.
CheckBlockedErr(p) ==
    /\ job[p].pc = "block"
    /\ Fault
    /\ Abort(p)
    /\ answer' = IF p = Reco THEN answer
                 ELSE [answer EXCEPT ![job[p].mid] = "unrecorded"]
    /\ UNCHANGED <<table, sender, settings, chan, old, voip, tainted,
                   posts, uploads, admin, crashes, months>>

\* get_tosubaccts: the accounts that receive messages for a DID.
Recipients(d) == {a \in Accounts : CallerId[a] = d /\ subacct[a] = "on"}

LookupDid(p) ==
    /\ job[p].pc = "did" /\ job[p].dids # <<>>
    /\ LET left == Recipients(Head(job[p].dids)) \X (1..Parts[job[p].mid])
       IN job' = [job EXCEPT ![p].dids = Tail(@), ![p].left = left,
                             ![p].pc = IF left = {} THEN "did" ELSE "insert"]
    /\ UNCHANGED <<table, sender, outside, settings, bounds, chan, todo, old>>

LookupDidErr(p) ==
    /\ job[p].pc = "did" /\ job[p].dids # <<>>
    /\ Fault
    /\ Abort(p)
    /\ UNCHANGED <<table, sender, outside, settings, chan, old,
                   posts, uploads, admin, crashes, months>>

\* The loops go account by account, and part by part within an account.
IsNext(i, left) ==
    /\ i \in left
    /\ \A j \in left : i[1] < j[1] \/ (i[1] = j[1] /\ i[2] <= j[2])

InsertPart(p) ==
    /\ job[p].pc = "insert"
    /\ \E i \in job[p].left :
        /\ IsNext(i, job[p].left)
        /\ Insert(job[p].mid, i[1], i[2], "new")
        /\ job' = [job EXCEPT
                     ![p].left = @ \ {i}, ![p].noinsert = FALSE,
                     ![p].pc = IF job[p].left = {i} THEN "did" ELSE "insert"]
    /\ UNCHANGED <<sender, outside, settings, bounds, chan, todo, old>>

BadInsertPartErr(p) ==
    /\ job[p].pc = "insert"
    /\ Fault
    /\ job' = [job EXCEPT ![p].pc = "did", ![p].left = {}]
    /\ UNCHANGED <<table, sender, outside, settings, chan, todo, old,
                   posts, uploads, admin, crashes, months>>

\* url2xml or the INSERT fails: what was inserted before it stays.  An upload
\* ignores the error and goes on to the bump.
InsertPartErr(p) ==
    /\ job[p].pc = "insert"
    /\ Fault
    /\ IF job[p].mid = NoMsg
       THEN /\ job' = [job EXCEPT ![p].pc = "did", ![p].left = {}]
            /\ UNCHANGED todo
       ELSE Abort(p)
    /\ UNCHANGED <<table, sender, outside, settings, chan, old,
                   posts, uploads, admin, crashes, months>>

\* After the last DID: reconcile goes to its next message, a handler with
\* rows in the table goes on to bump the sender.
Queued(p) ==
    /\ job[p].pc = "did" /\ job[p].dids = <<>> /\ ~job[p].noinsert
    /\ job' = [job EXCEPT ![p] = IF p = Reco THEN [Idle EXCEPT !.pc = "list"]
                                 ELSE [@ EXCEPT !.pc = "bump"]]
    /\ UNCHANGED <<table, sender, outside, settings, bounds, chan, todo, old>>

\* Nothing was inserted: a dummy row with status 202 remembers the message.
\* The result of this INSERT is not looked at.
Dummy(p) ==
    /\ job[p].pc = "did" /\ job[p].dids = <<>> /\ job[p].noinsert
    /\ \/ /\ Insert(job[p].mid, Nobody, 0, "ok")
          /\ UNCHANGED faults
       \/ /\ Fault
          /\ UNCHANGED table
    /\ answer' = IF p = Reco THEN answer
                 ELSE [answer EXCEPT ![job[p].mid] =
                          IF seq' > seq THEN "done" ELSE "unrecorded"]
    /\ job' = [job EXCEPT ![p] = IF p = Reco THEN [Idle EXCEPT !.pc = "list"]
                                 ELSE Idle]
    /\ UNCHANGED <<sender, settings, chan, todo, old, voip, tainted,
                   posts, uploads, admin, crashes, months>>

BadHasRoom == TRUE
HasRoom == chan < ChanCap

\* c <- true waits for room in the channel; then VoIP.ms gets its 200.
Bump(h) ==
    /\ job[h].pc = "bump"
    /\ HasRoom
    /\ chan' = chan + 1
    /\ answer' = IF job[h].mid = NoMsg THEN answer
                 ELSE [answer EXCEPT ![job[h].mid] = "done"]
    /\ job' = [job EXCEPT ![h] = Idle]
    /\ UNCHANGED <<table, sender, settings, bounds, todo, old, voip, tainted>>

\* uploadHandler with a to= parameter, after the file is stored: it looks the
\* account up and queues the XML for it.
Upload(h, a) ==
    /\ job[h].pc = "idle"
    /\ uploads < MaxUploads
    /\ uploads' = uploads + 1
    /\ job' = [job EXCEPT ![h] =
                  [Idle EXCEPT !.noinsert = FALSE,
                     !.pc = IF subacct[a] = "absent" THEN "bump" ELSE "insert",
                     !.left = IF subacct[a] = "absent" THEN {} ELSE {<<a, 1>>}]]
    /\ UNCHANGED <<table, sender, outside, settings, chan, todo, old,
                   posts, faults, admin, crashes, months>>

-----------------------------------------------------------------------------
(* reconcile                                                               *)

\* getMMS lists the messages of the last RECODAYS days.  A failed call and an
\* empty list leave everything as it is until the next run.
RecoStart ==
    /\ job[Reco].pc = "idle"
    /\ \E m \in Msgs : voip[m] = "listed"
    /\ todo' = {m \in Msgs : voip[m] = "listed"}
    /\ job' = [job EXCEPT ![Reco].pc = "list"]
    /\ UNCHANGED <<table, sender, outside, settings, bounds, chan, old>>

\* SELECT COUNT(rowid) WHERE msgid: a message that has any row is skipped.
BadNeedsQueueing(m) == Recorded(m)
BadSeemsUnsent(m) == \A r \in DOMAIN rows : rows[r].mid = m => Pending(r)
NeedsQueueing(m) == ~Recorded(m)

RecoCheck(m) ==
    /\ job[Reco].pc = "list" /\ m \in todo
    /\ todo' = todo \ {m}
    /\ job' = IF NeedsQueueing(m)
              THEN [job EXCEPT ![Reco] = [Idle EXCEPT !.pc = "block", !.mid = m,
                                            !.dids = <<Head(To[m])>>]]
              ELSE job
    /\ UNCHANGED <<table, sender, outside, settings, bounds, chan, old>>

RecoCheckErr ==
    /\ job[Reco].pc = "list" /\ todo # {}
    /\ Fault
    /\ Abort(Reco)
    /\ UNCHANGED <<table, sender, outside, settings, chan, old,
                   posts, uploads, admin, crashes, months>>

RecoDone ==
    /\ job[Reco].pc = "list" /\ todo = {}
    /\ Abort(Reco)
    /\ UNCHANGED <<table, sender, outside, settings, bounds, chan, old>>

-----------------------------------------------------------------------------
(* send_msgs                                                               *)

BadWakeNoTimer ==
    /\ spc = "wait" /\ chan > 0
    /\ spc' = "select"
    /\ chan' = chan - 1
    /\ UNCHANGED <<table, outside, settings, bounds, job, todo, old,
                   recs, outcome, tried, accepted, hot>>

BadWakeNoReceive ==
    /\ spc = "wait"
    /\ spc' = "select"
    /\ UNCHANGED <<table, outside, settings, bounds, chan, job, todo, old,
                   recs, outcome, tried, accepted, hot>>

\* A bump is received, or none comes and the one minute timer fires.
Wake ==
    /\ spc = "wait"
    /\ spc' = "select"
    /\ chan' = IF chan > 0 THEN chan - 1 ELSE chan
    /\ UNCHANGED <<table, outside, settings, bounds, job, todo, old,
                   recs, outcome, tried, accepted, hot>>

BadOldest(r) == Pending(r)

\* min(rowid) GROUP BY toid over the rows that are still pending ...
Oldest(r) == /\ Pending(r)
             /\ \A q \in DOMAIN rows :
                   Pending(q) /\ rows[q].toid = rows[r].toid => r <= q

\* ... joined with subacct, and not tried within 10 minutes.
Due(r) == /\ Oldest(r)
          /\ rows[r].toid \in Accounts
          /\ subacct[rows[r].toid] # "absent"
          /\ ~rows[r].cool

Select ==
    /\ spc = "select"
    /\ recs' = {[rowid |-> r, uid |-> rows[r].uid, toid |-> rows[r].toid] :
                   r \in {q \in DOMAIN rows : Due(q)}}
    /\ spc' = IF recs' = {} THEN "wait" ELSE "sip"
    /\ UNCHANGED <<table, outside, settings, bounds, chan, job, todo, old,
                   outcome, tried, accepted, hot>>

\* The query fails: the inner loop runs it again.
SelectErr ==
    /\ spc = "select"
    /\ Fault
    /\ UNCHANGED <<table, sender, outside, settings, chan, job, todo, old,
                   posts, uploads, admin, crashes, months>>

\* ORDER BY rowid
First(e) == e \in recs /\ \A f \in recs : e.rowid <= f.rowid

\* sipexer sends the message and returns OpenSIPS's reply code.
Sip(ok) ==
    /\ spc = "sip"
    /\ \E e \in recs :
        /\ First(e)
        /\ tried' = [tried EXCEPT ![e.toid] = e.uid]
        /\ accepted' = IF ok THEN accepted \cup {e.uid} ELSE accepted
        /\ hot' = hot \cup {e.uid}
    /\ outcome' = ok
    /\ spc' = "update"
    /\ UNCHANGED <<table, outside, settings, bounds, chan, job, todo, old, recs>>

BadMarkAll(r) == [rows EXCEPT ![r].status = "ok"]
BadMarkTime(r) == [rows EXCEPT ![r].cool = TRUE]

\* UPDATE send_msgs SET sent_ts = now, msgstatus = <exit code> WHERE rowid
\* (nothing reads the sent_ts of a row that is "ok").
Mark(r) == [rows EXCEPT ![r].status = IF outcome THEN "ok" ELSE "fail",
                        ![r].cool = ~outcome]

NextRec(e) == /\ recs' = recs \ {e}
              /\ spc' = IF recs = {e} THEN "select" ELSE "sip"
              /\ outcome' = FALSE

Update ==
    /\ spc = "update"
    /\ \E e \in recs :
        /\ First(e)
        /\ rows' = IF e.rowid \in DOMAIN rows THEN Mark(e.rowid) ELSE rows
        /\ NextRec(e)
    /\ UNCHANGED <<outside, settings, bounds, chan, job, todo, old,
                   seq, reused, tried, accepted, hot>>

\* The result of a try is lost: to the program it is as if it had not been.
Forget(uids) == accepted' = accepted \ uids /\ hot' = hot \ uids

UpdateErr ==
    /\ spc = "update"
    /\ Fault
    /\ \E e \in recs : First(e) /\ NextRec(e) /\ Forget({e.uid})
    /\ UNCHANGED <<table, outside, settings, chan, job, todo, old,
                   tried, posts, uploads, admin, crashes, months>>

-----------------------------------------------------------------------------
(* Time, cron, the administrator, restarts                                 *)

Recent(u) == u \in hot \/ \E r \in DOMAIN rows : rows[r].uid = u /\ rows[r].cool

\* Ten minutes have passed since uid u was tried, or its row was marked so.
TenMinutes(u) ==
    /\ Recent(u)
    /\ LongPass \/ spc = "wait"
    /\ hot' = hot \ {u}
    /\ rows' = [r \in DOMAIN rows |->
                  IF rows[r].uid = u THEN [rows[r] EXCEPT !.cool = FALSE] ELSE rows[r]]
    /\ UNCHANGED <<outside, settings, bounds, chan, job, todo, old,
                   seq, reused, spc, recs, outcome, tried, accepted>>

\* A month passes in which nothing is under way: what VoIP.ms listed is out of
\* reconcile's look-back and every row is over 30 days old.
Month ==
    /\ months < MaxMonths
    /\ months' = months + 1
    /\ \A p \in Procs : job[p] = Idle
    /\ spc = "wait" /\ \A u \in Uids : ~Recent(u)
    /\ old' = seq
    /\ voip' = [m \in Msgs |-> IF voip[m] = "listed" THEN "expired" ELSE voip[m]]
    /\ UNCHANGED <<table, sender, settings, chan, job, todo, answer, tainted,
                   posts, uploads, faults, admin, crashes>>

\* cron, Sundays at 02:30, in a process of its own: DELETE the old rows,
\* delivered or not.
Purge ==
    /\ \E r \in DOMAIN rows : rows[r].uid <= old
    /\ rows' = [r \in {q \in DOMAIN rows : rows[q].uid > old} |-> rows[r]]
    /\ UNCHANGED <<sender, outside, settings, bounds, chan, job, todo, old,
                   seq, reused>>

\* The administrator blocks or unblocks a number, or changes an account
\* (Apply, or a refresh that adds or removes it).
Block(n) ==
    /\ admin < MaxAdmin
    /\ admin' = admin + 1
    /\ touched' = touched \cup {n}
    /\ \/ /\ n \notin blocked
          /\ blocked' = blocked \cup {n}
          /\ UNCHANGED tainted
       \/ /\ n \in blocked
          /\ blocked' = blocked \ {n}
          /\ tainted' = {m \in tainted : From[m] # n}
    /\ UNCHANGED <<table, sender, chan, job, todo, old, subacct, voip, answer,
                   posts, uploads, faults, crashes, months>>

SetAccount(a, st) ==
    /\ admin < MaxAdmin
    /\ admin' = admin + 1
    /\ subacct[a] # st
    /\ subacct' = [subacct EXCEPT ![a] = st]
    /\ touched' = touched \cup {a}
    /\ UNCHANGED <<table, sender, outside, chan, job, todo, old, blocked,
                   posts, uploads, faults, crashes, months>>

\* The process dies and init.sh starts it again: only the tables survive.
Restart ==
    /\ crashes < MaxCrashes
    /\ crashes' = crashes + 1
    /\ job' = [p \in Procs |-> Idle]
    /\ todo' = {}
    /\ chan' = 1
    /\ spc' = "wait" /\ recs' = {} /\ outcome' = FALSE
    /\ Forget({e.uid : e \in {f \in recs : spc = "update" /\ First(f)}})
    /\ UNCHANGED <<table, outside, settings, old, tried,
                   posts, uploads, faults, admin, months>>

-----------------------------------------------------------------------------
Producer(p) ==
    \/ CheckBlocked(p) \/ CheckBlockedErr(p)
    \/ LookupDid(p) \/ LookupDidErr(p)
    \/ InsertPart(p) \/ InsertPartErr(p)
    \/ Queued(p) \/ Dummy(p)

Reconcile == RecoStart \/ (\E m \in Msgs : RecoCheck(m)) \/ RecoCheckErr \/ RecoDone

Sending == Wake \/ Select \/ SelectErr \/ (\E ok \in BOOLEAN : Sip(ok))
           \/ Update \/ UpdateErr

Environment ==
    \/ \E m \in Msgs : Arrive(m)
    \/ \E h \in Handlers : (\E m \in Msgs : Post(h, m)) \/ (\E a \in Accounts : Upload(h, a))
    \/ \E u \in Uids : TenMinutes(u)
    \/ \E n \in Senders : Block(n)
    \/ \E a \in Accounts, st \in {"on", "off", "absent"} : SetAccount(a, st)
    \/ Month \/ Purge \/ Restart

Next == \/ \E p \in Procs : Producer(p)
        \/ \E h \in Handlers : Bump(h)
        \/ Reconcile
        \/ Sending
        \/ Environment

Spec == Init /\ [][Next]_vars

\* Every goroutine of the program is scheduled, a call that fails does not fail
\* for ever (MaxFaults), and time passes.  OpenSIPS owes an account nothing but
\* this: it does not refuse every one of infinitely many tries.
SipAccepted(a) == Sip(TRUE) /\ \E e \in recs : First(e) /\ e.toid = a

Fairness ==
    /\ \A p \in Procs : WF_vars(CheckBlocked(p) \/ LookupDid(p) \/ InsertPart(p)
                                \/ Queued(p) \/ Dummy(p))
    /\ \A h \in Handlers : SF_vars(Bump(h))
    /\ WF_vars(RecoStart \/ (\E m \in Msgs : RecoCheck(m)) \/ RecoDone)
    /\ WF_vars(Wake \/ Select \/ (\E ok \in BOOLEAN : Sip(ok)) \/ Update)
    /\ \A a \in Accounts : SF_vars(SipAccepted(a))
    /\ \A u \in Uids : SF_vars(TenMinutes(u))

FairSpec == Spec /\ Fairness

-----------------------------------------------------------------------------
(* Properties                                                              *)

TypeTable == /\ DOMAIN rows \subseteq Uids /\ rows \in [DOMAIN rows -> Row]
             /\ seq \in 0..MaxRows /\ old \in 0..MaxRows
             /\ reused \in BOOLEAN

TypeJobs == /\ job \in [Procs -> Job]
            /\ todo \subseteq Msgs
            /\ chan \in 0..ChanCap

TypeSender == /\ spc \in {"wait", "select", "sip", "update"}
              /\ recs \subseteq Rec
              /\ outcome \in BOOLEAN
              /\ tried \in [Accounts -> Uids \cup {0}]
              /\ accepted \subseteq Uids /\ hot \subseteq Uids

TypeOutside == /\ voip \in [Msgs -> {"unsent", "listed", "expired"}]
               /\ answer \in [Msgs -> {"none", "done", "unrecorded"}]
               /\ tainted \subseteq Msgs
               /\ subacct \in [Accounts -> {"on", "off", "absent"}]
               /\ blocked \subseteq Senders
               /\ touched \subseteq Accounts \cup Senders

TypeBounds == /\ posts \in [Msgs -> Nat]
              /\ uploads \in Nat /\ faults \in Nat /\ admin \in Nat
              /\ crashes \in Nat /\ months \in Nat

TypeOK == TypeTable /\ TypeJobs /\ TypeSender /\ TypeOutside /\ TypeBounds

\* The queue keeps the promise of Mailbox, whatever fails: per account the
\* oldest message is tried until it is accepted, and nothing overtakes it.
\* (Of send_msgs: min(rowid) per toid, and the snapshot it then works through
\* while the producers insert, cron deletes and the process restarts.)
MB == INSTANCE Mailbox WITH
        Ids <- Uids,
        waiting <- [a \in Accounts |->
                      {rows[r].uid : r \in {q \in DOMAIN rows :
                                              rows[q].toid = a /\ Pending(q)}}]
InOrder == MB!Spec

\* A row that says 200 or 202 was accepted by OpenSIPS: no message is written
\* off by somebody else's reply code.  The exception is a rowid that SQLite
\* gave out again while send_msgs held the deleted row that had it.
MarkedMeansAccepted ==
    ~reused => \A r \in DOMAIN rows :
                  rows[r].toid \in Accounts /\ ~Pending(r) => rows[r].uid \in accepted

\* A message from a number that has been blocked since before it arrived is
\* never queued for an account, whichever of web hook and reconcile finds it.
BlockedNeverQueued ==
    \A r \in DOMAIN rows : rows[r].mid \in tainted => rows[r].toid = Nobody

\* However often reconcile runs, ends at an error or dies between two INSERTs, it
\* queues each part of a message once per account.  (Of its count of the rows
\* before it queues a message.  A web hook at work on the same message may add
\* its own rows after that count; such messages are left out.)
SameItem(r, q) == /\ rows[r].mid = rows[q].mid /\ rows[r].toid = rows[q].toid
                  /\ rows[r].part = rows[q].part

ReconcileQueuesOnce ==
    \A r, q \in DOMAIN rows :
        rows[r].mid \in Msgs /\ SameItem(r, q) /\ r # q => posts[rows[r].mid] > 0

\* When VoIP.ms is told 200 after a run without errors, every part of the
\* message is in the table for every account of its DIDs (leaving out accounts
\* and numbers that the administrator was changing), so that the process may
\* die and nothing is lost.
FannedOut(m) ==
    From[m] \notin touched =>
        \A a \in Accounts \ touched : CallerId[a] \in {To[m][i] : i \in 1..Len(To[m])} =>
            \A k \in 1..Parts[m] : HasRow(m, a, k)

AckedIsDurable ==
    \A m \in Msgs : answer[m] = "done" /\ voip[m] = "listed" =>
        Recorded(m) /\ FannedOut(m)

\* A message that OpenSIPS accepted is not sent to it again, and two tries of one
\* are ten minutes apart, whatever fails, restarts or changes the table: only if
\* the result of the try was lost, with a failed UPDATE or with the process that
\* was about to write it, is that message tried anew.
RetriedInTurn ==
    [][spc = "sip" /\ spc' = "update" =>
          \A e \in recs : First(e) => e.uid \notin accepted \cup hot]_vars

\* Every message that reached VoIP.ms gets a row, by its web hook or, if that
\* failed, by a reconcile.
EventuallyRecorded == \A m \in Msgs : voip[m] = "listed" ~> Recorded(m)

\* Comment of reconcile: "Check old message at VoIP.ms against the DB.  if any
\* missing, resend."
MissingIsResent == \A m \in Msgs : voip[m] = "listed" ~> FannedOut(m)

\* Every queued message of an account that exists gets its turn, however many
\* others wait and whatever OpenSIPS replies to them.
EventuallyTried ==
    \A u \in Uids, a \in Accounts :
        (\E r \in DOMAIN rows : rows[r].uid = u /\ rows[r].toid = a /\ Pending(r))
            ~> tried[a] >= u \/ subacct[a] = "absent"

\* A web hook never hangs on the full channel.
WebhookAnswered == \A h \in Handlers : job[h].pc = "bump" ~> job[h].pc = "idle"
=============================================================================
