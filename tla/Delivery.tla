------------------------------ MODULE Delivery ------------------------------
(***************************************************************************)
(* How OpenSIPS (opensips.cfg) takes a MESSAGE for a sub account from the  *)
(* queue of mmsgate2 and hands it to the phone: relay to the registered    *)
(* contact, a push notification and a second relay, the offline store of   *)
(* module msilo, and the dump of that store when the phone registers.      *)
(*                                                                         *)
(* The script is the repository's; the modules it calls (tm, usrloc,       *)
(* msilo, event_routing), the phones and VoIP.ms's registrar are external. *)
(* A REGISTER waits for VoIP.ms between two steps, a MESSAGE for the phone *)
(* or for a timer, and all of them interleave.                             *)
(***************************************************************************)
EXTENDS Integers, FiniteSets

CONSTANTS
    Users,          \* sub accounts, one phone each
    Msgs,           \* rows of send_msgs, oldest first as integers
    For,            \* For[m]: the account that m is for
    Contacts,       \* addresses that phones register from
    None,
    DumpMax,        \* messages that one m_dump sends (10 in msilo_dump)
    MaxTries,       \* times that send_msgs may have to send a message
    MaxMoves, MaxFaults, MaxCrashes

ASSUME NamesAssumption ==
    /\ Msgs \subseteq Int /\ For \in [Msgs -> Users]
    /\ None \notin Contacts
ASSUME LimitsAssumption ==
    DumpMax \in Nat \ {0} /\ {MaxTries, MaxMoves, MaxFaults, MaxCrashes} \subseteq Nat

VARIABLES
    phone,      \* phone[u]: the contact where u's phone can be reached, or None
    location,   \* usrloc: the contact saved for u (attr/ct), or None
    register,   \* a REGISTER of u's phone that waits for VoIP.ms: its contact
    events,     \* accounts whose E_UL_CONTACT_* event msilo_dump has yet to handle
    tx,         \* the transaction of each copy of a message
    stored,     \* copies in msilo's table
    try,        \* times that send_msgs has sent m
    answer,     \* what it was told last
    \* history
    received,   \* times that m came up on the phone
    confirmed,  \* messages for which the phone's 200 reached OpenSIPS
    unsure,     \* messages of which a confirmation was lost on its way
    moves, faults, crashes

registrar == <<phone, location, register, events>>
queue == <<try, answer>>
history == <<received, confirmed, unsure>>
limits == <<moves, faults, crashes>>
vars == <<registrar, tx, stored, queue, history, limits>>

\* send_msgs sends a SIP message with a Call-ID of its own at each try.
Copies == Msgs \X (1..MaxTries)
User(c) == For[c[1]]

\* from: who waits for the reply (a Contact with msilo=yes is from the store);
\* nobody when sipexer or mmsgate2 has ended meanwhile;
\* ct: the contact that the copy is sent to, both times; seen: the phone has it,
\* and does not show the same Call-ID again
Tx == [pc : {"none", "route", "relay1", "failed1", "relay2", "failed2"},
       from : {"send_msgs", "msilo", "nobody"}, ct : Contacts \cup {None},
       seen : BOOLEAN]

New(from) == [pc |-> "route", from |-> from, ct |-> None, seen |-> FALSE]
NoTx == [New("send_msgs") EXCEPT !.pc = "none"]

Init ==
    /\ phone \in [Users -> Contacts \cup {None}]
    /\ location = [u \in Users |-> None]
    /\ register = [u \in Users |-> None]
    /\ events = {}
    /\ tx = [c \in Copies |-> NoTx]
    /\ stored = {}
    /\ try = [m \in Msgs |-> 0] /\ answer = [m \in Msgs |-> "none"]
    /\ received = [m \in Msgs |-> 0] /\ confirmed = {} /\ unsure = {}
    /\ moves = 0 /\ faults = 0 /\ crashes = 0

Fault == faults < MaxFaults /\ faults' = faults + 1

-----------------------------------------------------------------------------
(* Replies                                                                 *)

End(c) == tx' = [tx EXCEPT ![c] = NoTx]
Step(c, pc) == tx' = [tx EXCEPT ![c].pc = pc]

\* The final reply ends the transaction.  sipexer gives it to send_msgs as its
\* exit code; msilo deletes the copy it had sent after a 2xx, and otherwise
\* keeps it for the next dump.
Reply(c, ok) ==
    /\ End(c)
    /\ answer' = IF tx[c].from = "send_msgs"
                 THEN [answer EXCEPT ![c[1]] = IF ok THEN "ok" ELSE "failed"]
                 ELSE answer

BadMsgStore(c) ==
    /\ Reply(c, TRUE)
    /\ stored' = IF tx[c].from = "msilo" THEN stored \ {c} ELSE stored \cup {c}
    /\ UNCHANGED <<unsure, faults>>

BadStoreRefused(c) ==
    /\ Reply(c, FALSE)
    /\ stored' = IF tx[c].from = "msilo" THEN stored ELSE stored \cup {c}
    /\ UNCHANGED <<unsure, faults>>

\* route[msg_store]: 408 if the copy comes from the store, else 202 or 503.
\* The reply may not reach sipexer although the copy is stored.
MsgStore(c) ==
    \/ /\ tx[c].from = "msilo"
       /\ Reply(c, FALSE)
       /\ UNCHANGED <<stored, unsure, faults>>
    \/ /\ tx[c].from # "msilo"
       /\ \/ stored' = stored \cup {c} /\ Reply(c, TRUE) /\ UNCHANGED <<unsure, faults>>
          \/ Reply(c, FALSE) /\ Fault /\ UNCHANGED <<stored, unsure>>
          \/ /\ stored' = stored \cup {c} /\ unsure' = unsure \cup {c[1]}
             /\ Reply(c, FALSE) /\ Fault

-----------------------------------------------------------------------------
(* MESSAGE to a user                                                       *)

BadSend(m) ==
    /\ answer[m] \in {"none", "waiting", "failed"} /\ try[m] < MaxTries
    /\ \A n \in Msgs : For[n] = For[m] /\ n < m => answer[n] = "ok"
    /\ try' = [try EXCEPT ![m] = @ + 1]
    /\ answer' = [answer EXCEPT ![m] = "waiting"]
    /\ tx' = [tx EXCEPT ![<<m, try'[m]>>] = New("send_msgs")]
    /\ UNCHANGED <<registrar, stored, history, limits>>

\* mmsgate2 waits for one sipexer at a time.  It tries an account's oldest row
\* again until it is told 200 or 202.
Send(m) ==
    /\ \A n \in Msgs : answer[n] # "waiting"
    /\ \A n \in Msgs : For[n] = For[m] /\ n < m => answer[n] = "ok"
    /\ answer[m] \in {"none", "failed"} /\ try[m] < MaxTries
    /\ try' = [try EXCEPT ![m] = @ + 1]
    /\ answer' = [answer EXCEPT ![m] = "waiting"]
    /\ tx' = [tx EXCEPT ![<<m, try'[m]>>] = New("send_msgs")]
    /\ UNCHANGED <<registrar, stored, history, limits>>

\* sipexer stops waiting, or mmsgate2 ends, while OpenSIPS goes on with the copy:
\* the row is not marked, and a late reply is lost.
GiveUp(m) ==
    /\ answer[m] = "waiting"
    /\ Fault
    /\ answer' = [answer EXCEPT ![m] = "failed"]
    /\ tx' = [tx EXCEPT ![<<m, try[m]>>].from = "nobody"]
    /\ unsure' = unsure \cup {m}
    /\ UNCHANGED <<registrar, stored, try, received, confirmed, moves, crashes>>

BadRelay(c) ==
    /\ tx[c].pc = "route"
    /\ tx' = [tx EXCEPT ![c].pc = "relay1", ![c].ct = location[User(c)]]
    /\ UNCHANGED <<registrar, stored, queue, history, limits>>

\* is_registered: relay to the contact with a timer of 15 seconds, ...
Relay(c) ==
    /\ tx[c].pc = "route" /\ location[User(c)] # None
    /\ tx' = [tx EXCEPT ![c].pc = "relay1", ![c].ct = location[User(c)]]
    /\ UNCHANGED <<registrar, stored, queue, history, limits>>

\* ... or not registered, or t_relay fails at once: store it.
Unreachable(c) ==
    /\ tx[c].pc = "route"
    /\ MsgStore(c)
    /\ UNCHANGED <<registrar, try, received, confirmed, moves, crashes>>

\* The phone gets the copy, and its 200 comes back in time.
Shown(c) == received' = IF tx[c].seen THEN received
                        ELSE [received EXCEPT ![c[1]] = @ + 1]

Delivered(c) ==
    /\ tx[c].pc \in {"relay1", "relay2"} /\ phone[User(c)] = tx[c].ct
    /\ Shown(c)
    /\ confirmed' = confirmed \cup {c[1]}
    /\ Reply(c, TRUE)
    /\ stored' = stored \ {c}
    /\ UNCHANGED <<registrar, try, unsure, limits>>

\* The phone gets it, but its 200 is lost or too late; or OpenSIPS's reply to
\* sipexer is.
Failed(c) == IF tx[c].pc = "relay1" THEN "failed1" ELSE "failed2"

Unconfirmed(c) ==
    /\ tx[c].pc \in {"relay1", "relay2"} /\ phone[User(c)] = tx[c].ct
    /\ Fault
    /\ Shown(c)
    /\ unsure' = unsure \cup {c[1]}
    /\ \/ /\ tx' = [tx EXCEPT ![c].pc = Failed(c), ![c].seen = TRUE]
          /\ UNCHANGED <<answer, confirmed>>
       \/ /\ tx[c].from = "send_msgs"
          /\ confirmed' = confirmed \cup {c[1]}
          /\ Reply(c, FALSE)
    /\ UNCHANGED <<registrar, stored, try, moves, crashes>>

\* The timer fires, or the phone refuses.
Undelivered(c) ==
    /\ tx[c].pc \in {"relay1", "relay2"}
    /\ Step(c, Failed(c))
    /\ UNCHANGED <<registrar, stored, queue, history, limits>>

\* failure_route[fmsg_pn1]: PN_SEND wakes the phone up, and the copy is sent to
\* the same contact as before; if that fails at once it is stored.
Retry(c) ==
    /\ tx[c].pc = "failed1"
    /\ Step(c, "relay2")
    /\ UNCHANGED <<registrar, stored, queue, history, limits>>

\* failure_route[fmsg_pn2]
Store(c) ==
    /\ tx[c].pc \in {"failed1", "failed2"}
    /\ MsgStore(c)
    /\ UNCHANGED <<registrar, try, received, confirmed, moves, crashes>>

-----------------------------------------------------------------------------
(* REGISTER                                                                *)

\* The phone's REGISTER is relayed to VoIP.ms; for 30 seconds notify_on_event
\* waits for the contact event, and tm for the reply.
Register(u) ==
    /\ phone[u] # None /\ register[u] = None
    /\ register' = [register EXCEPT ![u] = phone[u]]
    /\ UNCHANGED <<phone, location, events, tx, stored, queue, history, limits>>

\* onreply_route[handle_reply_reg], 2xx: save raises the event.
Registered(u) ==
    /\ register[u] # None
    /\ location' = [location EXCEPT ![u] = register[u]]
    /\ events' = events \cup {u}
    /\ register' = [register EXCEPT ![u] = None]
    /\ UNCHANGED <<phone, tx, stored, queue, history, limits>>

NotRegistered(u) ==
    /\ register[u] # None
    /\ register' = [register EXCEPT ![u] = None]
    /\ UNCHANGED <<phone, location, events, tx, stored, queue, history, limits>>

\* m_dump sends the oldest copies that are not on their way already.
Idle(u) == {c \in stored : User(c) = u /\ tx[c].pc = "none"}
Older(c, d) == c[1] < d[1] \/ (c[1] = d[1] /\ c[2] < d[2])

BadDumped(u) == {c \in Idle(u) : \E d \in Idle(u) : Older(c, d)}

Dumped(u) == {c \in Idle(u) : Cardinality({d \in Idle(u) : Older(d, c)}) < DumpMax}

MsiloDump(u) ==
    /\ u \in events
    /\ events' = events \ {u}
    /\ tx' = [c \in Copies |->
                IF c \in Dumped(u) THEN New("msilo") ELSE tx[c]]
    /\ UNCHANGED <<phone, location, register, stored, queue, history, limits>>

-----------------------------------------------------------------------------
(* Phones, usrloc's timers, restarts                                       *)

\* The phone gets another address, or none.
Move(u, ct) ==
    /\ phone[u] # ct
    /\ IF ct = None THEN moves < MaxMoves /\ moves' = moves + 1 ELSE UNCHANGED moves
    /\ phone' = [phone EXCEPT ![u] = ct]
    /\ UNCHANGED <<location, register, events, tx, stored, queue, history,
                   faults, crashes>>

\* Contacts last for minutes; a dump that has begun does not take that long.
Expire(u) ==
    /\ location[u] # None
    /\ u \notin events
    /\ \A c \in Copies : User(c) = u => ~(tx[c].pc = "route" /\ tx[c].from = "msilo")
    /\ location' = [location EXCEPT ![u] = None]
    /\ UNCHANGED <<phone, register, events, tx, stored, queue, history, limits>>

\* OpenSIPS restarts: what usrloc has not written back yet and everything that
\* is under way is gone, and sipexer gets no reply.
Restart ==
    /\ crashes < MaxCrashes /\ crashes' = crashes + 1
    /\ location' \in {location, [u \in Users |-> None]}
    /\ register' = [u \in Users |-> None]
    /\ events' = {}
    /\ tx' = [c \in Copies |-> NoTx]
    /\ answer' = [m \in Msgs |-> IF answer[m] = "waiting" THEN "failed" ELSE answer[m]]
    /\ UNCHANGED <<phone, stored, try, history, moves, faults>>

Serve(c) == \/ Relay(c) \/ Unreachable(c) \/ Delivered(c) \/ Unconfirmed(c)
            \/ Undelivered(c) \/ Retry(c) \/ Store(c)

Next ==
    \/ \E m \in Msgs : Send(m) \/ GiveUp(m)
    \/ \E c \in Copies : Serve(c)
    \/ \E u \in Users : \/ Register(u) \/ Registered(u) \/ NotRegistered(u)
                        \/ MsiloDump(u) \/ Expire(u)
                        \/ \E ct \in Contacts \cup {None} : Move(u, ct)
    \/ Restart

Spec == Init /\ [][Next]_vars

\* OpenSIPS and mmsgate2 run on.  A phone that is away (MaxMoves times) comes
\* back and registers, again and again; VoIP.ms does not refuse it for ever; when
\* copies are relayed again and again to where the phone is, one arrives.
Fairness ==
    /\ \A c \in Copies : WF_vars(Serve(c))
    /\ SF_vars(\E c \in Copies : Relay(c)) /\ SF_vars(\E c \in Copies : Delivered(c))
    /\ \A u \in Users :
          /\ SF_vars(Register(u)) /\ SF_vars(Registered(u)) /\ WF_vars(MsiloDump(u))
          /\ WF_vars(phone[u] = None /\ \E ct \in Contacts : Move(u, ct))

FairSpec == Spec /\ Fairness

-----------------------------------------------------------------------------
(* Properties                                                              *)

TypeOK ==
    /\ phone \in [Users -> Contacts \cup {None}]
    /\ location \in [Users -> Contacts \cup {None}]
    /\ register \in [Users -> Contacts \cup {None}]
    /\ events \subseteq Users
    /\ tx \in [Copies -> Tx]
    /\ \A c \in Copies : tx[c].pc \notin {"none", "route"} => tx[c].ct # None
    /\ stored \subseteq Copies
    /\ try \in [Msgs -> 0..MaxTries]
    /\ answer \in [Msgs -> {"none", "waiting", "ok", "failed"}]
    /\ received \in [Msgs -> Nat]
    /\ confirmed \subseteq Msgs /\ unsure \subseteq Msgs
    /\ moves \in 0..MaxMoves /\ faults \in 0..MaxFaults /\ crashes \in 0..MaxCrashes

\* src/README.md: "SIP protocol requires positive hand-off of messages."  When
\* mmsgate2 was told 200 or 202, and marked its row, the phone has the message
\* or the store keeps it until a phone confirms it, over refusals, timeouts,
\* dumps that fail and restarts.
HandedOff ==
    \A m \in Msgs : answer[m] = "ok" =>
        m \in confirmed \/ \E c \in stored : c[1] = m

\* "Once in a while, the message gets to the client but the confirmation does
\* not get to MMSGate2": only when a confirmation is lost is a message shown
\* twice, however relays, dumps, new tries and restarts follow each other.
DoubleOnlyIfUnsure == \A m \in Msgs \ unsure : received[m] <= 1

\* Queue, store and phone together keep the promise of OutBox: a message moves
\* forward between them and is in one place at a time, with one exception, the
\* messages in doubt; those may be in several, but are let go of only by a place
\* that another has taken them over from.
At(m) == (IF answer[m] = "ok" THEN {} ELSE {"queue"})
         \cup (IF \E c \in stored : c[1] = m THEN {"store"} ELSE {})
         \cup (IF m \in confirmed THEN {"phone"} ELSE {})

OB == INSTANCE OutBox WITH Messages <- Msgs, shown <- received, doubt <- unsure,
                           at <- [m \in Msgs |-> At(m)]
PassedOn == OB!Spec

\* "MMSGate2 stores it and tries again later": however often the phone is away
\* when it is tried, and however many messages wait, each one arrives.
EventuallyReceived == \A m \in Msgs : answer[m] = "ok" ~> received[m] > 0
=============================================================================
