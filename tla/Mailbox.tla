------------------------------ MODULE Mailbox ------------------------------
(***************************************************************************)
(* What the message queue of MMSGate2 promises each sub account: messages  *)
(* are tried one at a time and oldest first.  A message is tried any       *)
(* number of times (at least once is all that SIP can offer), but while it *)
(* waits nothing newer is tried for the same account, and once something   *)
(* newer was tried it is never tried again.  The weekly retention may drop *)
(* messages, waiting or not; it never reorders them.                       *)
(***************************************************************************)
EXTENDS Integers

CONSTANTS Accounts,   \* the sub accounts
          Ids         \* queued messages: positive integers, as they arrive

VARIABLES waiting,    \* waiting[a]: the messages queued for account a
          tried       \* tried[a]: the message last offered to account a, 0 if none

vars == <<waiting, tried>>

Init == /\ waiting = [a \in Accounts |-> {}]
        /\ tried = [a \in Accounts |-> 0]

\* A message arrives for a: it is newer than all that a was offered or waits for.
Put(a, u) == /\ u > tried[a]
             /\ \A v \in waiting[a] : v < u
             /\ waiting' = [waiting EXCEPT ![a] = @ \cup {u}]
             /\ UNCHANGED tried

\* The oldest message is offered to a.  It need not be waiting any more: the
\* retention may have dropped it after it was picked.
Try(a, u) == /\ u >= tried[a]
             /\ \A v \in waiting[a] : u <= v
             /\ tried' = [tried EXCEPT ![a] = u]
             /\ UNCHANGED waiting

\* Messages leave: one that was accepted, or those that the retention drops.
Leave == /\ waiting' \in [Accounts -> SUBSET Ids]
         /\ \A a \in Accounts : waiting'[a] \subseteq waiting[a]
         /\ UNCHANGED tried

Next == \/ \E a \in Accounts, u \in Ids : Put(a, u) \/ Try(a, u)
        \/ Leave

Spec == Init /\ [][Next]_vars
=============================================================================
