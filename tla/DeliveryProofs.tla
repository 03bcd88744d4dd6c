-------------------------- MODULE DeliveryProofs --------------------------
(***************************************************************************)
(* Theorems about Delivery, for all accounts, phones and messages, and for *)
(* every bound on tries, moves, faults and restarts.                       *)
(***************************************************************************)
EXTENDS Delivery, TLAPS

-----------------------------------------------------------------------------
(* Type correctness                                                        *)

LEMMA CopyFacts ==
  ASSUME NEW c \in Copies
  PROVE  /\ c[1] \in Msgs /\ c[2] \in 1..MaxTries /\ c = <<c[1], c[2]>>
         /\ User(c) \in Users
<1>1. c[1] \in Msgs /\ c[2] \in 1..MaxTries /\ c = <<c[1], c[2]>>
  BY DEF Copies
<1>2. For[c[1]] \in Users
  BY <1>1, NamesAssumption
<1> QED
  BY <1>1, <1>2 DEF User

LEMMA TxFacts ==
  /\ NoTx \in Tx /\ NoTx.pc = "none" /\ NoTx.seen = FALSE
  /\ \A from \in {"send_msgs", "msilo", "nobody"} :
       /\ New(from) \in Tx /\ New(from).pc = "route"
       /\ New(from).from = from /\ New(from).seen = FALSE
  BY DEF NoTx, New, Tx

TypeTx == /\ tx \in [Copies -> Tx]
          /\ \A c \in Copies : tx[c].pc \notin {"none", "route"} => tx[c].ct # None

TypeRest ==
    /\ phone \in [Users -> Contacts \cup {None}]
    /\ location \in [Users -> Contacts \cup {None}]
    /\ register \in [Users -> Contacts \cup {None}]
    /\ events \subseteq Users
    /\ stored \subseteq Copies
    /\ try \in [Msgs -> 0..MaxTries]
    /\ answer \in [Msgs -> {"none", "waiting", "ok", "failed"}]
    /\ received \in [Msgs -> Nat]
    /\ confirmed \subseteq Msgs /\ unsure \subseteq Msgs
    /\ moves \in 0..MaxMoves /\ faults \in 0..MaxFaults /\ crashes \in 0..MaxCrashes

LEMMA TypeParts == TypeOK => TypeTx /\ TypeRest
  BY DEF TypeOK, TypeTx, TypeRest

LEMMA TypePartsNext == TypeTx' /\ TypeRest' => TypeOK'
  BY DEF TypeOK, TypeTx, TypeRest

\* One transaction takes a step.
LEMMA TxStep ==
  ASSUME TypeTx, NEW c \in Copies, NEW t \in Tx,
         t.pc \notin {"none", "route"} => t.ct # None,
         tx' = [tx EXCEPT ![c] = t]
  PROVE  TypeTx'
  BY DEF TypeTx

LEMMA ReplyType ==
  ASSUME TypeOK, NEW c \in Copies, NEW ok \in BOOLEAN, Reply(c, ok)
  PROVE  TypeTx' /\ answer' \in [Msgs -> {"none", "waiting", "ok", "failed"}]
<1>1. TypeTx'
  BY TypeParts, TxFacts, TxStep DEF Reply, End
<1>2. answer' \in [Msgs -> {"none", "waiting", "ok", "failed"}]
  BY CopyFacts DEF Reply, TypeOK
<1> QED
  BY <1>1, <1>2

LEMMA FaultType == TypeOK /\ Fault => faults' \in 0..MaxFaults
  BY LimitsAssumption DEF Fault, TypeOK

LEMMA MsgStoreType ==
  ASSUME TypeOK, NEW c \in Copies, MsgStore(c),
         UNCHANGED <<registrar, try, received, confirmed, moves, crashes>>
  PROVE  TypeOK'
<1>1. /\ TypeTx' /\ answer' \in [Msgs -> {"none", "waiting", "ok", "failed"}]
  BY ReplyType DEF MsgStore
<1>2. stored' \subseteq Copies /\ unsure' \subseteq Msgs
  BY CopyFacts DEF MsgStore, TypeOK
<1>3. faults' \in 0..MaxFaults
  BY FaultType DEF MsgStore, TypeOK
<1>4. TypeRest'
  BY <1>1, <1>2, <1>3 DEF TypeOK, TypeRest, registrar
<1> QED
  BY <1>1, <1>4, TypePartsNext

LEMMA InitType == Init => TypeOK
  BY LimitsAssumption, TxFacts DEF Init, TypeOK

LEMMA SendType == ASSUME TypeOK, NEW m \in Msgs, Send(m) PROVE TypeOK'
<1>1. try[m] \in 0..MaxTries /\ try[m] + 1 \in 1..MaxTries /\ try'[m] = try[m] + 1
  BY LimitsAssumption DEF Send, TypeOK
<1>2. <<m, try'[m]>> \in Copies
  BY <1>1 DEF Copies
<1>3. TypeTx'
  BY <1>2, TxFacts, TxStep, TypeParts DEF Send
<1>4. TypeRest'
  BY <1>1 DEF Send, TypeOK, TypeRest, registrar, history, limits
<1> QED
  BY <1>3, <1>4, TypePartsNext

LEMMA GiveUpType == ASSUME TypeOK, NEW m \in Msgs, GiveUp(m) PROVE TypeOK'
<1> DEFINE c == <<m, try[m]>>
           t == [tx[c] EXCEPT !.from = "nobody"]
<1>1. TypeTx'
  <2>1. CASE c \in Copies
    <3>1. tx[c] \in Tx /\ (tx[c].pc \notin {"none", "route"} => tx[c].ct # None)
      BY <2>1 DEF TypeOK
    <3>2. /\ t \in Tx
          /\ t.pc \notin {"none", "route"} => t.ct # None
      BY <3>1 DEF Tx
    <3>3. tx' = [tx EXCEPT ![c] = t]
      BY <2>1, <3>1 DEF GiveUp, Tx, TypeOK
    <3> HIDE DEF c, t
    <3> QED
      BY <2>1, <3>2, <3>3, TxStep, TypeParts
  <2>2. CASE c \notin Copies
    <3>1. tx' = tx
      BY <2>2 DEF GiveUp, TypeOK
    <3> QED
      BY <3>1, TypeParts DEF TypeTx
  <2> QED
    BY <2>1, <2>2
<1>2. TypeRest'
  BY FaultType DEF GiveUp, TypeOK, TypeRest, registrar
<1> QED
  BY <1>1, <1>2, TypePartsNext

LEMMA ServeType == ASSUME TypeOK, NEW c \in Copies, Serve(c) PROVE TypeOK'
<1>1. tx[c] \in Tx /\ (tx[c].pc \notin {"none", "route"} => tx[c].ct # None)
  BY DEF TypeOK
<1>2. CASE Relay(c)
  <2> DEFINE t == [tx[c] EXCEPT !.pc = "relay1", !.ct = location[User(c)]]
  <2>1. t \in Tx /\ t.ct # None
    BY <1>1, <1>2, CopyFacts DEF Relay, TypeOK, Tx
  <2>2. tx' = [tx EXCEPT ![c] = t]
    BY <1>1, <1>2 DEF Relay, Tx, TypeOK
  <2>3. TypeTx'
    <3> HIDE DEF t
    <3> QED BY <2>1, <2>2, TxStep, TypeParts
  <2>4. TypeRest'
    BY <1>2 DEF Relay, TypeOK, TypeRest, registrar, queue, history, limits
  <2> QED
    BY <2>3, <2>4, TypePartsNext
<1>3. CASE Unreachable(c)
  BY <1>3, MsgStoreType DEF Unreachable
<1>4. Shown(c) => received' \in [Msgs -> Nat]
  BY CopyFacts DEF Shown, TypeOK
<1>5. CASE Delivered(c)
  <2>1. /\ TypeTx' /\ answer' \in [Msgs -> {"none", "waiting", "ok", "failed"}]
    BY <1>5, ReplyType DEF Delivered
  <2>2. TypeRest'
    BY <1>4, <1>5, <2>1, CopyFacts
       DEF Delivered, TypeOK, TypeRest, registrar, limits
  <2> QED
    BY <2>1, <2>2, TypePartsNext
<1>6. ASSUME NEW pc \in {"relay2", "failed1", "failed2"}, NEW s \in BOOLEAN,
             tx[c].pc \notin {"none", "route"},
             tx' = [tx EXCEPT ![c].pc = pc, ![c].seen = s]
      PROVE  TypeTx'
  <2> DEFINE t == [tx[c] EXCEPT !.pc = pc, !.seen = s]
  <2>1. t \in Tx /\ t.ct # None
    BY <1>1, <1>6 DEF Tx
  <2>2. tx' = [tx EXCEPT ![c] = t]
    BY <1>1, <1>6 DEF Tx, TypeOK
  <2> HIDE DEF t
  <2> QED
    BY <2>1, <2>2, TxStep, TypeParts
<1>7. ASSUME NEW pc \in {"relay2", "failed1", "failed2"},
             tx[c].pc \notin {"none", "route"}, Step(c, pc)
      PROVE  TypeTx'
  <2>1. tx' = [tx EXCEPT ![c].pc = pc, ![c].seen = tx[c].seen]
    BY <1>1, <1>7 DEF Step, Tx, TypeOK
  <2>2. tx[c].seen \in BOOLEAN
    BY <1>1 DEF Tx
  <2> QED
    BY <1>6, <1>7, <2>1, <2>2
<1>8. Failed(c) \in {"failed1", "failed2"}
  BY DEF Failed
<1>9. CASE Unconfirmed(c)
  <2>1. /\ TypeTx' /\ answer' \in [Msgs -> {"none", "waiting", "ok", "failed"}]
        /\ confirmed' \subseteq Msgs
    <3>1. CASE /\ tx' = [tx EXCEPT ![c].pc = Failed(c), ![c].seen = TRUE]
               /\ UNCHANGED <<answer, confirmed>>
      BY <1>6, <1>8, <1>9, <3>1 DEF Unconfirmed, TypeOK
    <3>2. CASE confirmed' = confirmed \cup {c[1]} /\ Reply(c, FALSE)
      BY <3>2, ReplyType, CopyFacts DEF TypeOK
    <3> QED
      BY <1>9, <3>1, <3>2 DEF Unconfirmed
  <2>2. TypeRest'
    BY <1>4, <1>9, <2>1, CopyFacts, FaultType
       DEF Unconfirmed, TypeOK, TypeRest, registrar
  <2> QED
    BY <2>1, <2>2, TypePartsNext
<1>10. CASE Undelivered(c) \/ Retry(c)
  <2>1. TypeTx'
    BY <1>7, <1>8, <1>10 DEF Undelivered, Retry
  <2>2. TypeRest'
    BY <1>10 DEF Undelivered, Retry, TypeOK, TypeRest, registrar, queue, history, limits
  <2> QED
    BY <2>1, <2>2, TypePartsNext
<1>11. CASE Store(c)
  BY <1>11, MsgStoreType DEF Store
<1> QED
  BY <1>2, <1>3, <1>5, <1>9, <1>10, <1>11 DEF Serve

LEMMA UserType ==
  ASSUME TypeOK, NEW u \in Users,
         \/ Register(u) \/ Registered(u) \/ NotRegistered(u)
         \/ MsiloDump(u) \/ Expire(u)
         \/ \E ct \in Contacts \cup {None} : Move(u, ct)
  PROVE  TypeOK'
<1>1. CASE Register(u)
  BY <1>1 DEF Register, TypeOK, queue, history, limits
<1>2. CASE Registered(u)
  BY <1>2 DEF Registered, TypeOK, queue, history, limits
<1>3. CASE NotRegistered(u)
  BY <1>3 DEF NotRegistered, TypeOK, queue, history, limits
<1>4. CASE MsiloDump(u)
  <2>1. TypeTx'
    BY <1>4, TxFacts DEF MsiloDump, TypeTx, TypeOK
  <2>2. TypeRest'
    BY <1>4 DEF MsiloDump, TypeOK, TypeRest, queue, history, limits
  <2> QED
    BY <2>1, <2>2, TypePartsNext
<1>5. CASE Expire(u)
  BY <1>5 DEF Expire, TypeOK, queue, history, limits
<1>6. ASSUME NEW ct \in Contacts \cup {None}, Move(u, ct) PROVE TypeOK'
  <2>1. moves' \in 0..MaxMoves
    BY <1>6, LimitsAssumption DEF Move, TypeOK
  <2>2. phone' \in [Users -> Contacts \cup {None}]
    BY <1>6 DEF Move, TypeOK
  <2> QED
    BY <1>6, <2>1, <2>2 DEF Move, TypeOK, queue, history
<1> QED
  BY <1>1, <1>2, <1>3, <1>4, <1>5, <1>6

LEMMA RestartType == TypeOK /\ Restart => TypeOK'
<1> SUFFICES ASSUME TypeOK, Restart PROVE TypeOK'
  OBVIOUS
<1>1. TypeTx'
  BY TxFacts DEF Restart, TypeTx
<1>2. location' \in [Users -> Contacts \cup {None}]
  BY DEF Restart, TypeOK
<1>3. crashes' \in 0..MaxCrashes
  BY LimitsAssumption DEF Restart, TypeOK
<1>4. TypeRest'
  BY <1>2, <1>3 DEF Restart, TypeOK, TypeRest, history
<1> QED
  BY <1>1, <1>4, TypePartsNext

LEMMA NextType == TypeOK /\ [Next]_vars => TypeOK'
<1>1. ASSUME TypeOK, UNCHANGED vars PROVE TypeOK'
  BY <1>1 DEF TypeOK, vars, registrar, queue, history, limits
<1> QED
  BY <1>1, SendType, GiveUpType, ServeType, UserType, RestartType DEF Next

\* Every transaction, stored copy and counter keeps its type, and a copy that
\* is relayed has a contact to go to, also after that contact has expired.
THEOREM TypeCorrect == Spec => []TypeOK
  BY InitType, NextType, PTL DEF Spec

-----------------------------------------------------------------------------
(* Positive hand-off                                                       *)

\* What an action can do to a message whose answer is, or becomes, "ok".
LEMMA MsgStoreHandsOff ==
  ASSUME TypeOK, HandedOff, NEW c \in Copies, MsgStore(c), UNCHANGED confirmed
  PROVE  HandedOff'
<1> USE DEF HandedOff
<1>1. c[1] \in Msgs /\ stored \subseteq stored'
  BY CopyFacts DEF MsgStore
<1>2. ASSUME NEW m \in Msgs, answer'[m] = "ok", answer[m] # "ok" PROVE c \in stored' /\ c[1] = m
  BY <1>1, <1>2 DEF MsgStore, Reply, TypeOK
<1> QED
  BY <1>1, <1>2

LEMMA ServeHandsOff ==
  ASSUME TypeOK, HandedOff, NEW c \in Copies, Serve(c)
  PROVE  HandedOff'
<1>1. CASE Unreachable(c) \/ Store(c)
  BY <1>1, MsgStoreHandsOff DEF Unreachable, Store
<1>2. CASE Delivered(c)
  <2>1. c[1] \in Msgs /\ stored' = stored \ {c} /\ confirmed' = confirmed \cup {c[1]}
    BY <1>2, CopyFacts DEF Delivered
  <2>2. \A m \in Msgs \ {c[1]} : answer'[m] = answer[m]
    BY <1>2, <2>1 DEF Delivered, Reply, TypeOK
  <2> QED
    BY <2>1, <2>2 DEF HandedOff
<1>3. CASE Unconfirmed(c)
  <2>1. c[1] \in Msgs /\ stored' = stored /\ confirmed \subseteq confirmed'
    BY <1>3, CopyFacts DEF Unconfirmed
  <2>2. \A m \in Msgs : answer'[m] = "ok" => answer[m] = "ok"
    BY <1>3, <2>1 DEF Unconfirmed, Reply, TypeOK
  <2> QED
    BY <2>1, <2>2 DEF HandedOff
<1>4. CASE Relay(c) \/ Undelivered(c) \/ Retry(c)
  BY <1>4 DEF Relay, Undelivered, Retry, HandedOff, queue, history
<1> QED
  BY <1>1, <1>2, <1>3, <1>4 DEF Serve

LEMMA NextHandsOff == TypeOK /\ HandedOff /\ [Next]_vars => HandedOff'
<1> SUFFICES ASSUME TypeOK, HandedOff, [Next]_vars PROVE HandedOff'
  OBVIOUS
<1>1. ASSUME NEW m \in Msgs, Send(m) \/ GiveUp(m) PROVE HandedOff'
  BY <1>1 DEF Send, GiveUp, HandedOff, TypeOK, history
<1>2. ASSUME NEW c \in Copies, Serve(c) PROVE HandedOff'
  BY <1>2, ServeHandsOff
<1>3. CASE Restart
  BY <1>3 DEF Restart, HandedOff, TypeOK, history
<1>4. CASE UNCHANGED <<stored, queue, history>>
  BY <1>4 DEF HandedOff, queue, history
<1>5. ASSUME NEW u \in Users,
             \/ Register(u) \/ Registered(u) \/ NotRegistered(u)
             \/ MsiloDump(u) \/ Expire(u)
             \/ \E ct \in Contacts \cup {None} : Move(u, ct)
      PROVE  UNCHANGED <<stored, queue, history>>
  BY <1>5 DEF Register, Registered, NotRegistered, MsiloDump, Expire, Move
<1> QED
  BY <1>1, <1>2, <1>3, <1>4, <1>5 DEF Next, vars

\* A row that mmsgate2 marked, because it was told 200 or 202, is confirmed by
\* the phone or kept in the store, over any number of relays, dumps that fail,
\* new tries and restarts: HandedOff is inductive over the types.
THEOREM HandOffCorrect == Spec => []HandedOff
<1>1. Init => HandedOff
  BY DEF Init, HandedOff
<1> QED
  BY <1>1, NextHandsOff, TypeCorrect, PTL DEF Spec

-----------------------------------------------------------------------------
(* Messages shown twice                                                    *)

\* Where the copies are: none beyond the last try; one that send_msgs waits
\* for is the last; one that msilo sends is in the store still; one that nobody
\* waits for has lost its confirmation, and so has one that is on its way though
\* the phone has it.
CopyInv ==
    \A c \in Copies :
        /\ c[2] > try[c[1]] => tx[c].pc = "none" /\ c \notin stored
        /\ tx[c].pc # "none" /\ tx[c].from = "send_msgs" =>
             c[2] = try[c[1]] /\ answer[c[1]] = "waiting"
        /\ tx[c].pc # "none" /\ tx[c].from = "msilo" => c \in stored
        /\ tx[c].pc # "none" /\ tx[c].from = "nobody" => c[1] \in unsure
        /\ tx[c].seen => c[1] \in unsure

\* A message of which no confirmation was lost is nowhere before its last try
\* has been answered, and then either in one copy in the store or on the phone.
OnceInv ==
    \A m \in Msgs \ unsure :
        /\ received[m] <= 1
        /\ answer[m] # "ok" => received[m] = 0
        /\ \A c \in stored : c[1] = m => answer[m] = "ok" /\ received[m] = 0
        /\ \A c, d \in stored : c[1] = m /\ d[1] = m => c = d

LEMMA InitOnce == Init => CopyInv /\ OnceInv
<1> SUFFICES ASSUME Init PROVE CopyInv /\ OnceInv
  OBVIOUS
<1>1. CopyInv
  BY CopyFacts, TxFacts DEF Init, CopyInv
<1>2. OnceInv
  BY DEF Init, OnceInv
<1> QED
  BY <1>1, <1>2

LEMMA SendOnce ==
  ASSUME TypeOK, CopyInv, OnceInv, NEW m \in Msgs, Send(m)
  PROVE  CopyInv' /\ OnceInv'
<1>1. try[m] \in 0..MaxTries /\ try[m] + 1 \in 1..MaxTries /\ try'[m] = try[m] + 1
  BY LimitsAssumption DEF Send, TypeOK
<1> DEFINE new == <<m, try'[m]>>
<1>2. new \in Copies /\ new[1] = m /\ new[2] = try[m] + 1
  BY <1>1 DEF Copies
<1>3. \A c \in Copies : c # new =>
        tx'[c] = tx[c] /\ (c[1] = m => c[2] # try[m] + 1)
  BY <1>1, CopyFacts DEF Send, TypeOK
<1>4. tx'[new] = New("send_msgs")
  BY <1>2 DEF Send, TypeOK
<1>5. \A k \in Msgs : k # m => try'[k] = try[k] /\ answer'[k] = answer[k]
  BY DEF Send, TypeOK
<1>6. answer'[m] = "waiting" /\ answer[m] # "waiting" /\ answer[m] # "ok"
  BY DEF Send, TypeOK
<1>7. UNCHANGED <<stored, received, unsure>>
  BY DEF Send, history
<1>8. CopyInv'
  <2> SUFFICES ASSUME NEW c \in Copies
               PROVE  /\ c[2] > try'[c[1]] => tx'[c].pc = "none" /\ c \notin stored
                      /\ tx'[c].pc # "none" /\ tx'[c].from = "send_msgs" =>
                           c[2] = try'[c[1]] /\ answer'[c[1]] = "waiting"
                      /\ tx'[c].pc # "none" /\ tx'[c].from = "msilo" => c \in stored
                      /\ tx'[c].pc # "none" /\ tx'[c].from = "nobody" => c[1] \in unsure
                      /\ tx'[c].seen => c[1] \in unsure
    BY <1>7 DEF CopyInv
  <2>1. c[1] \in Msgs /\ c[2] \in 1..MaxTries /\ try[c[1]] \in 0..MaxTries
    BY CopyFacts DEF TypeOK
  <2>2. CASE c = new
    BY <1>1, <1>2, <1>4, <1>6, <2>1, <2>2, TxFacts DEF CopyInv
  <2>3. CASE c # new
    <3> HIDE DEF new
    <3>1. CASE c[1] = m
      BY <1>1, <1>3, <1>6, <2>1, <2>3, <3>1, LimitsAssumption DEF CopyInv
    <3>2. CASE c[1] # m
      BY <1>3, <1>5, <2>1, <2>3, <3>2 DEF CopyInv
    <3> QED
      BY <3>1, <3>2
  <2> QED
    BY <2>2, <2>3
<1>9. OnceInv'
  BY <1>5, <1>6, <1>7 DEF OnceInv
<1> QED
  BY <1>8, <1>9

LEMMA GiveUpOnce ==
  ASSUME TypeOK, CopyInv, OnceInv, NEW m \in Msgs, GiveUp(m)
  PROVE  CopyInv' /\ OnceInv'
<1> DEFINE last == <<m, try[m]>>
<1>1. /\ unsure' = unsure \cup {m} /\ UNCHANGED <<stored, try, received>>
      /\ \A k \in Msgs \ {m} : answer'[k] = answer[k]
  BY DEF GiveUp, TypeOK
<1>2. ASSUME NEW c \in Copies
      PROVE  /\ tx'[c].pc = tx[c].pc /\ tx'[c].seen = tx[c].seen
             /\ c = last => tx'[c].from = "nobody"
             /\ c # last => tx'[c].from = tx[c].from
  BY DEF GiveUp, TypeOK, Tx
<1>3. CopyInv'
  <2> SUFFICES ASSUME NEW c \in Copies
               PROVE  /\ c[2] > try[c[1]] => tx'[c].pc = "none" /\ c \notin stored
                      /\ tx'[c].pc # "none" /\ tx'[c].from = "send_msgs" =>
                           c[2] = try[c[1]] /\ answer'[c[1]] = "waiting"
                      /\ tx'[c].pc # "none" /\ tx'[c].from = "msilo" => c \in stored
                      /\ tx'[c].pc # "none" /\ tx'[c].from = "nobody" => c[1] \in unsure'
                      /\ tx'[c].seen => c[1] \in unsure'
    BY <1>1 DEF CopyInv
  <2>1. c[1] \in Msgs /\ (c = last <=> c[1] = m /\ c[2] = try[m])
    BY CopyFacts
  <2>2. CASE c[1] = m
    BY <1>1, <1>2, <2>1, <2>2 DEF CopyInv
  <2>3. CASE c[1] # m
    BY <1>1, <1>2, <2>1, <2>3 DEF CopyInv
  <2> QED
    BY <2>2, <2>3
<1> QED
  BY <1>1, <1>3 DEF OnceInv

\* The copy c ends, and its message is answered if send_msgs waits for it.
LEMMA ReplyOnce ==
  ASSUME TypeOK, CopyInv, NEW c \in Copies, NEW ok \in BOOLEAN, Reply(c, ok),
         tx[c].pc # "none"
  PROVE  /\ \A d \in Copies \ {c} : tx'[d] = tx[d]
         /\ tx'[c].pc = "none" /\ tx'[c].seen = FALSE
         /\ \A m \in Msgs \ {c[1]} : answer'[m] = answer[m]
         /\ tx[c].from # "send_msgs" => answer' = answer
         /\ tx[c].from = "send_msgs" => answer'[c[1]] = IF ok THEN "ok" ELSE "failed"
         /\ tx[c].from \in {"send_msgs", "msilo", "nobody"}
         /\ tx[c].from = "send_msgs" =>
              \A d \in Copies \ {c} : d[1] = c[1] =>
                 ~(tx[d].pc # "none" /\ tx[d].from = "send_msgs")
<1>1. c[1] \in Msgs /\ tx[c] \in Tx
  BY CopyFacts DEF TypeOK
<1>2. /\ \A d \in Copies \ {c} : tx'[d] = tx[d]
      /\ tx'[c].pc = "none" /\ tx'[c].seen = FALSE
  BY TxFacts DEF Reply, End, TypeOK
<1>3. tx[c].from \in {"send_msgs", "msilo", "nobody"}
  BY <1>1 DEF Tx
<1>4. /\ \A m \in Msgs \ {c[1]} : answer'[m] = answer[m]
      /\ tx[c].from # "send_msgs" => answer' = answer
      /\ tx[c].from = "send_msgs" => answer'[c[1]] = IF ok THEN "ok" ELSE "failed"
  BY <1>1 DEF Reply, TypeOK
<1>5. ASSUME NEW d \in Copies, d[1] = c[1], tx[c].from = "send_msgs",
             tx[d].pc # "none", tx[d].from = "send_msgs"
      PROVE  d = c
  <2>1. d[2] = try[d[1]] /\ c[2] = try[c[1]]
    BY <1>5 DEF CopyInv
  <2> QED
    BY <1>5, <2>1, CopyFacts
<1> QED
  BY <1>2, <1>3, <1>4, <1>5

\* CopyInv survives the end of a copy that msilo does not send any more, or
\* that the store keeps.
LEMMA ReplyCopyInv ==
  ASSUME TypeOK, CopyInv, NEW c \in Copies, NEW ok \in BOOLEAN, Reply(c, ok),
         tx[c].pc # "none", try' = try, unsure \subseteq unsure',
         stored' \in {stored, stored \ {c}, stored \cup {c}}
  PROVE  CopyInv'
<1> SUFFICES ASSUME NEW d \in Copies
             PROVE  /\ d[2] > try[d[1]] => tx'[d].pc = "none" /\ d \notin stored'
                    /\ tx'[d].pc # "none" /\ tx'[d].from = "send_msgs" =>
                         d[2] = try[d[1]] /\ answer'[d[1]] = "waiting"
                    /\ tx'[d].pc # "none" /\ tx'[d].from = "msilo" => d \in stored'
                    /\ tx'[d].pc # "none" /\ tx'[d].from = "nobody" => d[1] \in unsure'
                    /\ tx'[d].seen => d[1] \in unsure'
  BY DEF CopyInv
<1>1. d[1] \in Msgs /\ d[2] \in Int /\ try[d[1]] \in Int
  BY CopyFacts DEF TypeOK
<1>2. CASE d = c
  <2>1. tx'[d].pc = "none" /\ tx'[d].seen = FALSE
    BY <1>2, ReplyOnce
  <2>2. ~(d[2] > try[d[1]])
    BY <1>2 DEF CopyInv
  <2> QED
    BY <2>1, <2>2
<1>3. CASE d # c
  <2>1. tx'[d] = tx[d] /\ (d \in stored' <=> d \in stored)
    BY <1>3, ReplyOnce
  <2>2. tx[d].pc # "none" /\ tx[d].from = "send_msgs" => answer'[d[1]] = answer[d[1]]
    <3>1. CASE d[1] = c[1]
      BY <1>3, <3>1, ReplyOnce
    <3>2. CASE d[1] # c[1]
      BY <1>1, <3>2, ReplyOnce
    <3> QED
      BY <3>1, <3>2
  <2> QED
    BY <2>1, <2>2 DEF CopyInv
<1> QED
  BY <1>2, <1>3

LEMMA MsgStoreOnce ==
  ASSUME TypeOK, CopyInv, OnceInv, NEW c \in Copies, tx[c].pc # "none",
         MsgStore(c), UNCHANGED <<try, received>>
  PROVE  CopyInv' /\ OnceInv'
<1>1. PICK ok \in BOOLEAN : Reply(c, ok)
  BY DEF MsgStore
<1>2. /\ c[1] \in Msgs /\ unsure \subseteq unsure'
      /\ stored' \in {stored, stored \ {c}, stored \cup {c}}
  BY CopyFacts DEF MsgStore
<1>3. CopyInv'
  BY <1>1, <1>2, ReplyCopyInv
<1>4. CASE tx[c].from = "msilo"
  <2>1. UNCHANGED <<answer, stored, unsure, received>>
    BY <1>1, <1>4, ReplyOnce DEF MsgStore
  <2> QED
    BY <1>3, <2>1 DEF OnceInv
<1>5. CASE tx[c].from = "send_msgs"
  <2>1. answer[c[1]] = "waiting"
    BY <1>5 DEF CopyInv
  <2>2. \A m \in Msgs \ {c[1]} : answer'[m] = answer[m]
    BY <1>1, ReplyOnce
  <2>3. CASE stored' = stored \cup {c} /\ Reply(c, TRUE) /\ unsure' = unsure
    <3>1. answer'[c[1]] = "ok"
      BY <1>5, <2>3, ReplyOnce
    <3> QED
      BY <1>2, <1>3, <2>1, <2>2, <2>3, <3>1 DEF OnceInv
  <2>4. CASE stored' = stored /\ unsure' = unsure /\ Reply(c, FALSE)
    BY <1>2, <1>3, <1>5, <2>1, <2>2, <2>4, ReplyOnce DEF OnceInv
  <2>5. CASE unsure' = unsure \cup {c[1]} /\ stored' = stored \cup {c}
    BY <1>2, <1>3, <2>2, <2>5 DEF OnceInv
  <2> QED
    BY <1>5, <2>3, <2>4, <2>5 DEF MsgStore
<1>6. CASE tx[c].from = "nobody"
  <2>1. c[1] \in unsure /\ UNCHANGED answer
    BY <1>1, <1>6, ReplyOnce DEF CopyInv
  <2>2. stored' \in {stored, stored \cup {c}}
    BY <1>6 DEF MsgStore
  <2> QED
    BY <1>2, <1>3, <2>1, <2>2 DEF OnceInv
<1> QED
  BY <1>1, <1>4, <1>5, <1>6, ReplyOnce

LEMMA ServeOnce ==
  ASSUME TypeOK, CopyInv, OnceInv, NEW c \in Copies, Serve(c)
  PROVE  CopyInv' /\ OnceInv'
<1>1. c[1] \in Msgs /\ tx[c] \in Tx /\ received[c[1]] \in Nat
  BY CopyFacts DEF TypeOK
<1>2. CASE Unreachable(c) \/ Store(c)
  BY <1>2, MsgStoreOnce DEF Unreachable, Store
<1>3. Shown(c) => \A m \in Msgs \ {c[1]} : received'[m] = received[m]
  BY <1>1 DEF Shown, TypeOK
<1>4. CASE Delivered(c)
  <2>1. /\ tx[c].pc # "none" /\ Reply(c, TRUE) /\ stored' = stored \ {c}
        /\ UNCHANGED <<try, unsure>>
    BY <1>4 DEF Delivered
  <2>2. CopyInv'
    BY <2>1, ReplyCopyInv
  <2>3. ASSUME c[1] \notin unsure
        PROVE  /\ received[c[1]] = 0 /\ received'[c[1]] = 1
               /\ answer'[c[1]] = "ok"
               /\ \A d \in stored' : d[1] # c[1]
    <3>1. tx[c].seen = FALSE
      BY <1>1, <2>3 DEF CopyInv, Tx
    <3>2. received[c[1]] = 0 /\ answer'[c[1]] = "ok" /\ \A d \in stored' : d[1] # c[1]
      <4>1. CASE tx[c].from = "send_msgs"
        <5>1. answer[c[1]] = "waiting" /\ answer'[c[1]] = "ok"
          BY <2>1, <4>1, ReplyOnce DEF CopyInv
        <5> QED
          BY <1>1, <2>1, <2>3, <5>1 DEF OnceInv
      <4>2. CASE tx[c].from = "msilo"
        <5>1. c \in stored /\ answer' = answer
          BY <2>1, <4>2, ReplyOnce DEF CopyInv
        <5> QED
          BY <1>1, <2>1, <2>3, <5>1 DEF OnceInv
      <4>3. tx[c].from # "nobody"
        BY <2>1, <2>3 DEF CopyInv
      <4> QED
        BY <2>1, <4>1, <4>2, <4>3, ReplyOnce
    <3>3. received'[c[1]] = 1
      BY <1>1, <1>4, <3>1, <3>2 DEF Delivered, Shown, TypeOK
    <3> QED
      BY <3>2, <3>3
  <2>4. \A m \in Msgs \ {c[1]} : received'[m] = received[m] /\ answer'[m] = answer[m]
    BY <1>3, <1>4, <2>1, ReplyOnce DEF Delivered
  <2>5. OnceInv'
    BY <2>1, <2>3, <2>4 DEF OnceInv
  <2> QED
    BY <2>2, <2>5
<1>5. CASE Unconfirmed(c)
  <2>1. /\ tx[c].pc # "none" /\ unsure' = unsure \cup {c[1]}
        /\ UNCHANGED <<try, stored>>
    BY <1>5 DEF Unconfirmed
  <2>2. CASE /\ tx' = [tx EXCEPT ![c].pc = Failed(c), ![c].seen = TRUE]
             /\ UNCHANGED answer
    <3>1. \A d \in Copies : d # c => tx'[d] = tx[d]
      BY <2>2 DEF TypeOK
    <3>2. tx'[c].from = tx[c].from
      BY <1>1, <2>2 DEF TypeOK, Tx
    <3>3. CopyInv'
      BY <2>1, <2>2, <3>1, <3>2 DEF CopyInv
    <3>4. OnceInv'
      BY <1>3, <1>5, <2>1, <2>2 DEF OnceInv, Unconfirmed
    <3> QED
      BY <3>3, <3>4
  <2>3. CASE Reply(c, FALSE)
    <3>1. CopyInv'
      BY <2>1, <2>3, ReplyCopyInv
    <3>2. \A m \in Msgs \ {c[1]} : answer'[m] = answer[m]
      BY <2>1, <2>3, ReplyOnce
    <3>3. OnceInv'
      BY <1>3, <1>5, <2>1, <3>2 DEF OnceInv, Unconfirmed
    <3> QED
      BY <3>1, <3>3
  <2> QED
    BY <1>5, <2>2, <2>3 DEF Unconfirmed
<1>6. CASE Relay(c) \/ Undelivered(c) \/ Retry(c)
  <2>1. /\ UNCHANGED <<try, answer, stored, received, unsure>> /\ tx[c].pc # "none"
    BY <1>6 DEF Relay, Undelivered, Retry, queue, history
  <2>2. \A d \in Copies : d # c => tx'[d] = tx[d]
    BY <1>6 DEF Relay, Undelivered, Retry, Step, TypeOK
  <2>3. tx'[c].from = tx[c].from /\ tx'[c].seen = tx[c].seen
    BY <1>1, <1>6 DEF Relay, Undelivered, Retry, Step, TypeOK, Tx
  <2>4. CopyInv'
    BY <2>1, <2>2, <2>3 DEF CopyInv
  <2> QED
    BY <2>1, <2>4 DEF OnceInv
<1> QED
  BY <1>2, <1>4, <1>5, <1>6 DEF Serve

LEMMA NextOnce == TypeOK /\ CopyInv /\ OnceInv /\ [Next]_vars => CopyInv' /\ OnceInv'
<1> SUFFICES ASSUME TypeOK, CopyInv, OnceInv, [Next]_vars PROVE CopyInv' /\ OnceInv'
  OBVIOUS
<1>1. CASE Restart
  <2>1. /\ tx' = [c \in Copies |-> NoTx] /\ UNCHANGED <<stored, try, received, unsure>>
        /\ \A m \in Msgs : answer'[m] = "ok" <=> answer[m] = "ok"
    BY <1>1 DEF Restart, history, TypeOK
  <2>2. CopyInv'
    BY <2>1, TxFacts DEF CopyInv
  <2>3. OnceInv'
    BY <2>1 DEF OnceInv
  <2> QED
    BY <2>2, <2>3
<1>2. ASSUME NEW u \in Users, MsiloDump(u) PROVE CopyInv' /\ OnceInv'
  <2>1. UNCHANGED <<stored, queue, history>>
    BY <1>2 DEF MsiloDump
  <2>2. \A c \in Copies : tx'[c] = tx[c] \/ (c \in stored /\ tx'[c] = New("msilo"))
    BY <1>2 DEF MsiloDump, Dumped, Idle
  <2>3. CopyInv'
    BY <2>1, <2>2, TxFacts DEF CopyInv, queue, history
  <2> QED
    BY <2>1, <2>3 DEF OnceInv, queue, history
<1>3. CASE UNCHANGED <<tx, stored, queue, history>>
  BY <1>3 DEF CopyInv, OnceInv, queue, history
<1>4. ASSUME NEW u \in Users,
             \/ Register(u) \/ Registered(u) \/ NotRegistered(u) \/ Expire(u)
             \/ \E ct \in Contacts \cup {None} : Move(u, ct)
      PROVE  UNCHANGED <<tx, stored, queue, history>>
  BY <1>4 DEF Register, Registered, NotRegistered, Expire, Move
<1> QED
  BY <1>1, <1>2, <1>3, <1>4, SendOnce, GiveUpOnce, ServeOnce DEF Next, vars

\* A message comes up twice on the phone only if a confirmation of it was lost,
\* whatever the order of its relays, dumps, tries and OpenSIPS's restarts.
THEOREM ShownOnce == Spec => []DoubleOnlyIfUnsure
<1>1. OnceInv => DoubleOnlyIfUnsure
  BY DEF OnceInv, DoubleOnlyIfUnsure
<1> QED
  BY <1>1, InitOnce, NextOnce, TypeCorrect, PTL DEF Spec

-----------------------------------------------------------------------------
(* Delivery implements OutBox                                              *)

\* What the phone has was shown; what was shown is confirmed or in doubt.
SeenInv ==
    /\ \A c \in Copies : tx[c].seen => received[c[1]] > 0
    /\ \A m \in confirmed : received[m] > 0
    /\ \A m \in Msgs \ unsure : received[m] > 0 => m \in confirmed

LEMMA InitSeen == Init => SeenInv
  BY TxFacts DEF Init, SeenInv

LEMMA ShownFacts ==
  ASSUME TypeOK, NEW c \in Copies, Shown(c)
  PROVE  /\ \A m \in Msgs \ {c[1]} : received'[m] = received[m]
         /\ \A m \in Msgs : received'[m] \in Nat /\ received'[m] >= received[m]
         /\ tx[c].seen => received' = received
         /\ ~tx[c].seen => received'[c[1]] = received[c[1]] + 1
  BY CopyFacts DEF Shown, TypeOK

\* Transactions may end or begin anew; nothing else changes but doubts.
LEMMA SeenStill ==
  ASSUME TypeOK, SeenInv, UNCHANGED <<received, confirmed>>, unsure \subseteq unsure',
         \A c \in Copies : tx'[c].seen => tx[c].seen
  PROVE  SeenInv'
  BY DEF SeenInv

LEMMA ServeSeen ==
  ASSUME TypeOK, CopyInv, SeenInv, NEW c \in Copies, Serve(c)
  PROVE  SeenInv'
<1>1. c[1] \in Msgs /\ tx[c] \in Tx
  BY CopyFacts DEF TypeOK
<1>2. \A ok \in BOOLEAN : Reply(c, ok) => \A d \in Copies : tx'[d].seen => tx[d].seen
  BY TxFacts DEF Reply, End, TypeOK
<1>3. CASE Unreachable(c) \/ Store(c)
  <2>1. unsure \subseteq unsure' /\ \E ok \in BOOLEAN : Reply(c, ok)
    BY <1>3 DEF Unreachable, Store, MsgStore
  <2>2. UNCHANGED <<received, confirmed>>
    BY <1>3 DEF Unreachable, Store
  <2> QED
    BY <1>2, <2>1, <2>2, SeenStill
<1>4. CASE Relay(c) \/ Undelivered(c) \/ Retry(c)
  <2>1. \A d \in Copies : tx'[d].seen = tx[d].seen
    BY <1>4 DEF Relay, Undelivered, Retry, Step, TypeOK, Tx
  <2>2. UNCHANGED <<received, confirmed, unsure>>
    BY <1>4 DEF Relay, Undelivered, Retry, history
  <2> QED
    BY <2>1, <2>2, SeenStill
<1>5. CASE Delivered(c)
  <2>1. /\ Shown(c) /\ Reply(c, TRUE) /\ confirmed' = confirmed \cup {c[1]}
        /\ UNCHANGED unsure
    BY <1>5 DEF Delivered
  <2>2. received'[c[1]] > 0
    BY <1>1, <2>1, ShownFacts DEF SeenInv, TypeOK
  <2>3. \A m \in Msgs : received[m] > 0 => received'[m] > 0
    BY <2>1, ShownFacts DEF TypeOK
  <2>4. \A m \in confirmed : m \in Msgs
    BY DEF TypeOK
  <2>5. \A d \in Copies : d[1] \in Msgs /\ (tx'[d].seen => tx[d].seen)
    BY <1>2, <2>1, CopyFacts
  <2> QED
    BY <2>1, <2>2, <2>3, <2>4, <2>5, ShownFacts DEF SeenInv
<1>6. CASE Unconfirmed(c)
  <2>1. /\ Shown(c) /\ unsure' = unsure \cup {c[1]}
        /\ confirmed' \in {confirmed, confirmed \cup {c[1]}}
    BY <1>6 DEF Unconfirmed
  <2>2. received'[c[1]] > 0
    BY <1>1, <2>1, ShownFacts DEF SeenInv, TypeOK
  <2>3. \A m \in Msgs : received[m] > 0 => received'[m] > 0
    BY <2>1, ShownFacts DEF TypeOK
  <2>4. \A m \in confirmed : m \in Msgs
    BY DEF TypeOK
  <2>5. \A d \in Copies : (d # c /\ tx'[d].seen) => tx[d].seen
    BY <1>2, <1>6 DEF Unconfirmed, TypeOK
  <2>6. \A d \in Copies : d[1] \in Msgs
    BY CopyFacts
  <2> QED
    BY <2>1, <2>2, <2>3, <2>4, <2>5, <2>6, ShownFacts DEF SeenInv
<1> QED
  BY <1>3, <1>4, <1>5, <1>6 DEF Serve

LEMMA NextSeen == TypeOK /\ CopyInv /\ SeenInv /\ [Next]_vars => SeenInv'
<1> SUFFICES ASSUME TypeOK, CopyInv, SeenInv, [Next]_vars PROVE SeenInv'
  OBVIOUS
<1>1. ASSUME NEW m \in Msgs, Send(m) \/ GiveUp(m) PROVE SeenInv'
  <2>1. UNCHANGED <<received, confirmed>> /\ unsure \subseteq unsure'
    BY <1>1 DEF Send, GiveUp, history
  <2>2. CASE Send(m)
    BY <2>1, <2>2, SeenStill, TxFacts DEF Send, TypeOK
  <2>3. CASE GiveUp(m)
    BY <2>1, <2>3, SeenStill DEF GiveUp, TypeOK, Tx
  <2> QED
    BY <1>1, <2>2, <2>3
<1>2. ASSUME NEW u \in Users, MsiloDump(u) PROVE SeenInv'
  BY <1>2, SeenStill, TxFacts DEF MsiloDump, history
<1>3. CASE Restart
  BY <1>3, SeenStill, TxFacts DEF Restart, history
<1>4. CASE UNCHANGED <<tx, history>>
  BY <1>4, SeenStill DEF history
<1>5. ASSUME NEW u \in Users,
             \/ Register(u) \/ Registered(u) \/ NotRegistered(u) \/ Expire(u)
             \/ \E ct \in Contacts \cup {None} : Move(u, ct)
      PROVE  UNCHANGED <<tx, history>>
  BY <1>5 DEF Register, Registered, NotRegistered, Expire, Move
<1> QED
  BY <1>1, <1>2, <1>3, <1>4, <1>5, ServeSeen DEF Next, vars

\* Everything that is known of the places.
PlaceInv == HandedOff /\ CopyInv /\ OnceInv /\ SeenInv

LEMMA InitPlace == Init => PlaceInv
  BY InitOnce, InitSeen DEF PlaceInv, Init, HandedOff

LEMMA NextPlace == TypeOK /\ PlaceInv /\ [Next]_vars => PlaceInv'
  BY NextHandsOff, NextOnce, NextSeen DEF PlaceInv

\* A message not in doubt is in one place.
LEMMA OnePlace ==
  ASSUME TypeOK, PlaceInv, NEW m \in Msgs \ unsure
  PROVE  /\ At(m) \in {{"queue"}, {"store"}, {"phone"}}
         /\ received[m] = IF At(m) = {"phone"} THEN 1 ELSE 0
<1>1. received[m] \in Nat /\ received[m] <= 1 /\ (received[m] > 0 <=> m \in confirmed)
  BY DEF TypeOK, PlaceInv, OnceInv, SeenInv
<1>2. CASE answer[m] # "ok"
  <2>1. m \notin confirmed /\ ~\E c \in stored : c[1] = m
    BY <1>1, <1>2 DEF PlaceInv, OnceInv
  <2>2. At(m) = {"queue"}
    BY <1>2, <2>1 DEF At
  <2> QED
    BY <1>1, <2>1, <2>2
<1>3. CASE answer[m] = "ok" /\ \E c \in stored : c[1] = m
  <2>1. m \notin confirmed
    BY <1>1, <1>3 DEF PlaceInv, OnceInv
  <2>2. At(m) = {"store"}
    BY <1>3, <2>1 DEF At
  <2> QED
    BY <1>1, <2>1, <2>2
<1>4. CASE answer[m] = "ok" /\ ~\E c \in stored : c[1] = m
  <2>1. m \in confirmed
    BY <1>4 DEF PlaceInv, HandedOff
  <2>2. At(m) = {"phone"}
    BY <1>4, <2>1 DEF At
  <2> QED
    BY <1>1, <2>1, <2>2
<1> QED
  BY <1>2, <1>3, <1>4

\* Messages other than m stay where they are.
OthersStay(m) ==
    \A k \in Msgs \ {m} :
        /\ answer'[k] = answer[k]
        /\ (\E c \in stored' : c[1] = k) <=> (\E c \in stored : c[1] = k)
        /\ k \in confirmed' <=> k \in confirmed

LEMMA MoveAt ==
  ASSUME NEW m \in Msgs, NEW places, OthersStay(m), At(m)' = places
  PROVE  [k \in Msgs |-> At(k)]' = [[k \in Msgs |-> At(k)] EXCEPT ![m] = places]
<1>1. ASSUME NEW k \in Msgs \ {m} PROVE At(k)' = At(k)
  BY DEF OthersStay, At
<1> QED
  BY <1>1

LEMMA Stays ==
  ASSUME UNCHANGED <<stored, confirmed, received, unsure>>,
         \A m \in Msgs : answer'[m] = "ok" <=> answer[m] = "ok"
  PROVE  UNCHANGED OB!vars
<1>1. ASSUME NEW m \in Msgs PROVE At(m)' = At(m)
  BY DEF At
<1> QED
  BY <1>1 DEF OB!vars

\* A step that leaves m in doubt.
LEMMA InDoubt ==
  ASSUME TypeOK, PlaceInv, PlaceInv', NEW m \in Msgs, OthersStay(m),
         unsure' = unsure \cup {m},
         \/ UNCHANGED received
         \/ /\ received' = [received EXCEPT ![m] = @ + 1]
            /\ received[m] = 0 \/ m \in unsure,
         answer[m] = "ok" => answer'[m] = "ok",
         confirmed \subseteq confirmed',
         \A c \in stored : c[1] = m => c \in stored' \/ m \in confirmed'
  PROVE  OB!Uncertain(m)
<1> DEFINE places == At(m)'
<1>1. places \in SUBSET OB!Places
  BY DEF At, OB!Places
<1>2. places # {}
  BY DEF PlaceInv, HandedOff, At
<1>3. "queue" \in places => "queue" \in At(m)
  BY DEF At
<1>4. "phone" \in At(m) => "phone" \in places
  BY DEF At
<1>5. "store" \in At(m) => places \cap {"store", "phone"} # {}
  BY DEF At
<1>6. "phone" \in places => received'[m] > 0
  BY DEF At, PlaceInv, SeenInv
<1>7. [k \in Msgs |-> At(k)]' = [[k \in Msgs |-> At(k)] EXCEPT ![m] = places]
  BY MoveAt
<1>8. [k \in Msgs |-> At(k)][m] = At(m)
  OBVIOUS
<1> HIDE DEF places
<1> QED
  BY <1>1, <1>2, <1>3, <1>4, <1>5, <1>6, <1>7, <1>8 DEF OB!Uncertain, OB!Show

LEMMA MsgStorePasses ==
  ASSUME TypeOK, PlaceInv, PlaceInv', TypeOK', NEW c \in Copies, tx[c].pc # "none",
         MsgStore(c), UNCHANGED <<received, confirmed>>
  PROVE  [OB!Next]_OB!vars
<1>1. PICK ok \in BOOLEAN : Reply(c, ok)
  BY DEF MsgStore
<1>2. c[1] \in Msgs /\ CopyInv
  BY CopyFacts DEF PlaceInv
<1>3. \A m \in Msgs \ {c[1]} : answer'[m] = answer[m]
  BY <1>1, <1>2, ReplyOnce
<1>4. OthersStay(c[1])
  BY <1>3 DEF OthersStay, MsgStore
<1>5. answer[c[1]] = "ok" => answer'[c[1]] = "ok"
  BY <1>1, <1>2, ReplyOnce DEF CopyInv
<1>6. CASE c[1] \in unsure'
  <2>1. stored \subseteq stored'
    BY DEF MsgStore
  <2>2. CASE unsure' = unsure \cup {c[1]}
    BY <1>2, <1>4, <1>5, <2>1, <2>2, InDoubt DEF OB!Next
  <2>3. unsure' = unsure \cup {c[1]}
    BY <1>6 DEF MsgStore
  <2> QED
    BY <2>2, <2>3
<1>7. CASE c[1] \notin unsure'
  <2>1. unsure' = unsure /\ c[1] \notin unsure
    BY <1>7 DEF MsgStore
  <2>2. CASE tx[c].from = "msilo"
    <3>1. stored' = stored /\ answer' = answer
      BY <1>1, <1>2, <2>2, ReplyOnce DEF MsgStore
    <3> QED
      BY <2>1, <3>1, Stays
  <2>3. CASE tx[c].from = "send_msgs"
    <3>1. answer[c[1]] = "waiting"
      BY <1>2, <2>3 DEF CopyInv
    <3>2. CASE stored' = stored \cup {c} /\ Reply(c, TRUE)
      <4>1. answer'[c[1]] = "ok"
        BY <1>2, <2>3, <3>2, ReplyOnce
      <4>2. At(c[1]) = {"queue"}
        BY <1>2, <2>1, <3>1, OnePlace DEF At
      <4>3. At(c[1])' = {"store"}
        <5>1. c[1] \notin confirmed
          BY <4>2 DEF At
        <5> QED
          BY <3>2, <4>1, <5>1 DEF At
      <4>4. [k \in Msgs |-> At(k)]' = [[k \in Msgs |-> At(k)] EXCEPT ![c[1]] = {"store"}]
        BY <1>2, <1>4, <4>3, MoveAt
      <4>5. OB!Keep(c[1])
        BY <1>2, <2>1, <4>2, <4>4 DEF OB!Keep
      <4> QED
        BY <1>2, <4>5 DEF OB!Next
    <3>3. CASE stored' = stored /\ Reply(c, FALSE)
      <4>1. \A m \in Msgs : answer'[m] = "ok" <=> answer[m] = "ok"
        BY <1>2, <1>3, <2>3, <3>1, <3>3, ReplyOnce
      <4> QED
        BY <2>1, <3>3, <4>1, Stays
    <3> QED
      BY <1>2, <1>7, <2>3, <3>2, <3>3 DEF MsgStore
  <2>4. tx[c].from # "nobody"
    BY <1>2, <2>1 DEF CopyInv
  <2> QED
    BY <1>1, <1>2, <2>2, <2>3, <2>4, ReplyOnce
<1> QED
  BY <1>6, <1>7

\* A message that is on its way and not in doubt has not come up yet, and it is
\* in the queue or in the store.
LEMMA OnItsWay ==
  ASSUME TypeOK, PlaceInv, NEW c \in Copies, tx[c].pc # "none", c[1] \notin unsure
  PROVE  /\ received[c[1]] = 0 /\ tx[c].seen = FALSE
         /\ tx[c].from = "send_msgs" => At(c[1]) = {"queue"}
         /\ tx[c].from = "msilo" => At(c[1]) = {"store"}
         /\ tx[c].from \in {"send_msgs", "msilo"}
<1>1. c[1] \in Msgs /\ tx[c] \in Tx
  BY CopyFacts DEF TypeOK
<1>2. tx[c].seen = FALSE /\ tx[c].from \in {"send_msgs", "msilo"}
  BY <1>1 DEF PlaceInv, CopyInv, Tx
<1>3. tx[c].from = "send_msgs" => "queue" \in At(c[1])
  BY DEF PlaceInv, CopyInv, At
<1>4. tx[c].from = "msilo" => "store" \in At(c[1])
  BY DEF PlaceInv, CopyInv, At
<1> QED
  BY <1>1, <1>2, <1>3, <1>4, OnePlace

LEMMA ServePasses ==
  ASSUME TypeOK, PlaceInv, PlaceInv', TypeOK', NEW c \in Copies, Serve(c)
  PROVE  [OB!Next]_OB!vars
<1>1. c[1] \in Msgs /\ CopyInv
  BY CopyFacts DEF PlaceInv
<1>2. CASE Unreachable(c) \/ Store(c)
  BY <1>2, MsgStorePasses DEF Unreachable, Store
<1>3. CASE Relay(c) \/ Undelivered(c) \/ Retry(c)
  BY <1>3, Stays DEF Relay, Undelivered, Retry, queue, history
<1>4. CASE Delivered(c)
  <2>1. /\ tx[c].pc # "none" /\ Shown(c) /\ Reply(c, TRUE) /\ stored' = stored \ {c}
        /\ confirmed' = confirmed \cup {c[1]} /\ UNCHANGED unsure
    BY <1>4 DEF Delivered
  <2>2. \A m \in Msgs \ {c[1]} : answer'[m] = answer[m]
    BY <1>1, <2>1, ReplyOnce
  <2>3. OthersStay(c[1])
    BY <2>1, <2>2 DEF OthersStay
  <2>4. CASE c[1] \in unsure
    <3>1. answer[c[1]] = "ok" => answer'[c[1]] = "ok"
      BY <1>1, <2>1, ReplyOnce DEF CopyInv
    <3>2. \/ UNCHANGED received
          \/ received' = [received EXCEPT ![c[1]] = @ + 1]
      BY <2>1 DEF Shown
    <3>3. unsure' = unsure \cup {c[1]}
      BY <2>1, <2>4
    <3>4. OB!Uncertain(c[1])
      BY <1>1, <2>1, <2>3, <2>4, <3>1, <3>2, <3>3, InDoubt
    <3> QED
      BY <1>1, <3>4 DEF OB!Next
  <2>5. CASE c[1] \notin unsure
    <3>1. /\ received[c[1]] = 0 /\ At(c[1]) \in {{"queue"}, {"store"}}
          /\ received' = [received EXCEPT ![c[1]] = @ + 1]
      BY <2>1, <2>5, OnItsWay DEF Shown
    <3>2. received'[c[1]] = 1
      BY <1>1, <3>1 DEF TypeOK
    <3>3. At(c[1])' = {"phone"}
      <4>1. answer'[c[1]] = "ok" /\ ~\E d \in stored' : d[1] = c[1]
        BY <1>1, <2>1, <2>5, <3>2 DEF PlaceInv, OnceInv
      <4> QED
        BY <2>1, <4>1 DEF At
    <3>4. [k \in Msgs |-> At(k)]' = [[k \in Msgs |-> At(k)] EXCEPT ![c[1]] = {"phone"}]
      BY <1>1, <2>3, <3>3, MoveAt
    <3>5. OB!HandOver(c[1])
      BY <1>1, <2>1, <3>1, <3>4 DEF OB!HandOver, OB!Show
    <3> QED
      BY <1>1, <3>5 DEF OB!Next
  <2> QED
    BY <2>4, <2>5
<1>5. CASE Unconfirmed(c)
  <2>1. /\ tx[c].pc # "none" /\ Shown(c) /\ unsure' = unsure \cup {c[1]}
        /\ confirmed' \in {confirmed, confirmed \cup {c[1]}} /\ UNCHANGED stored
    BY <1>5 DEF Unconfirmed
  <2>2. UNCHANGED answer \/ (tx[c].from = "send_msgs" /\ Reply(c, FALSE))
    BY <1>5 DEF Unconfirmed
  <2>3. \A m \in Msgs \ {c[1]} : answer'[m] = answer[m]
    BY <1>1, <2>1, <2>2, ReplyOnce
  <2>4. OthersStay(c[1])
    BY <2>1, <2>3 DEF OthersStay
  <2>5. answer[c[1]] = "ok" => answer'[c[1]] = "ok"
    BY <2>1, <2>2, <1>1 DEF CopyInv
  <2>6. \/ UNCHANGED received
        \/ /\ received' = [received EXCEPT ![c[1]] = @ + 1]
           /\ received[c[1]] = 0 \/ c[1] \in unsure
    BY <2>1, OnItsWay DEF Shown
  <2>7. OB!Uncertain(c[1])
    BY <1>1, <2>1, <2>4, <2>5, <2>6, InDoubt
  <2> QED
    BY <1>1, <2>7 DEF OB!Next
<1> QED
  BY <1>2, <1>3, <1>4, <1>5 DEF Serve

LEMMA NextPasses ==
  ASSUME TypeOK, PlaceInv, PlaceInv', TypeOK', [Next]_vars
  PROVE  [OB!Next]_OB!vars
<1>1. ASSUME NEW m \in Msgs, Send(m) PROVE [OB!Next]_OB!vars
  <2>1. \A k \in Msgs : answer'[k] = "ok" <=> answer[k] = "ok"
    BY <1>1 DEF Send, TypeOK
  <2> QED
    BY <1>1, <2>1, Stays DEF Send, history
<1>2. ASSUME NEW m \in Msgs, GiveUp(m) PROVE [OB!Next]_OB!vars
  <2>1. OthersStay(m) /\ (answer[m] = "ok" => answer'[m] = "ok")
    BY <1>2 DEF GiveUp, OthersStay, TypeOK
  <2>2. OB!Uncertain(m)
    BY <1>2, <2>1, InDoubt DEF GiveUp
  <2> QED
    BY <2>2 DEF OB!Next
<1>3. CASE Restart
  <2>1. \A k \in Msgs : answer'[k] = "ok" <=> answer[k] = "ok"
    BY <1>3 DEF Restart
  <2> QED
    BY <1>3, <2>1, Stays DEF Restart, history
<1>4. CASE UNCHANGED <<stored, queue, history>>
  BY <1>4, Stays DEF queue, history
<1>5. ASSUME NEW u \in Users,
             \/ Register(u) \/ Registered(u) \/ NotRegistered(u)
             \/ MsiloDump(u) \/ Expire(u)
             \/ \E ct \in Contacts \cup {None} : Move(u, ct)
      PROVE  UNCHANGED <<stored, queue, history>>
  BY <1>5 DEF Register, Registered, NotRegistered, MsiloDump, Expire, Move
<1> QED
  BY <1>1, <1>2, <1>3, <1>4, <1>5, ServePasses DEF Next, vars

LEMMA PlaceCorrect == Spec => [](TypeOK /\ PlaceInv)
  BY InitType, NextType, InitPlace, NextPlace, PTL DEF Spec

\* Queue, store and phone implement OutBox: every step of a relay, a dump, a new
\* try or a restart moves one message forward, or leaves it in doubt, or moves
\* nothing.
THEOREM OutBoxCorrect == Spec => PassedOn
<1>1. Init => OB!Init
  <2> SUFFICES ASSUME Init PROVE OB!Init
    OBVIOUS
  <2>1. \A m \in Msgs : At(m) = {"queue"}
    BY DEF Init, At
  <2> QED
    BY <2>1 DEF Init, OB!Init
<1> QED
  BY <1>1, NextPasses, PlaceCorrect, PTL DEF Spec, PassedOn, OB!Spec

\* Hence no message is ever nowhere, and one that is not in doubt is in one place
\* and has come up once if that is the phone, and not at all before.
THEOREM ExactlyOnceCorrect == Spec => [](OB!NeverLost /\ OB!ExactlyOnce)
<1>1. TypeOK /\ PlaceInv => OB!NeverLost
  BY DEF PlaceInv, HandedOff, OB!NeverLost, At
<1>2. TypeOK /\ PlaceInv => OB!ExactlyOnce
  BY OnePlace DEF OB!ExactlyOnce
<1> QED
  BY <1>1, <1>2, PlaceCorrect, PTL
=============================================================================
