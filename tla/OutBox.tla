------------------------------- MODULE OutBox -------------------------------
(***************************************************************************)
(* What MMSGate2 and OpenSIPS together promise for a message on its way to *)
(* a phone: a positive hand-off.  The queue of mmsgate2, the store of      *)
(* OpenSIPS and the phone are the places where a message can be.  It moves *)
(* forward, from one place to the next, and comes up on the phone once.    *)
(* Only when a confirmation was lost is the message in doubt: then it may  *)
(* be in several places, and come up again, but it is never nowhere.       *)
(***************************************************************************)
EXTENDS Integers

CONSTANT Messages

VARIABLES at,       \* at[m]: the places that have m
          shown,    \* shown[m]: times that m came up on the phone
          doubt     \* messages of which a confirmation was lost

vars == <<at, shown, doubt>>

Places == {"queue", "store", "phone"}

Init == /\ at = [m \in Messages |-> {"queue"}]
        /\ shown = [m \in Messages |-> 0]
        /\ doubt = {}

\* The message comes up on the phone.
Show(m) == shown' = [shown EXCEPT ![m] = @ + 1]

\* OpenSIPS stores what the phone did not confirm, and the queue lets go of it.
Keep(m) ==
    /\ at[m] = {"queue"}
    /\ at' = [at EXCEPT ![m] = {"store"}]
    /\ UNCHANGED <<shown, doubt>>

\* The phone confirms the message, and whoever had it lets go of it.
HandOver(m) ==
    /\ at[m] \in {{"queue"}, {"store"}} /\ shown[m] = 0
    /\ at' = [at EXCEPT ![m] = {"phone"}]
    /\ Show(m)
    /\ UNCHANGED doubt

\* A message in doubt: each place may get it again, but the phone does not give
\* it back, and nobody lets go of it without another that has it.
Uncertain(m) ==
    /\ doubt' = doubt \cup {m}
    /\ \/ UNCHANGED shown
       \/ (shown[m] = 0 \/ m \in doubt) /\ Show(m)
    /\ \E places \in (SUBSET Places) \ {{}} :
          /\ "queue" \in places => "queue" \in at[m]
          /\ "phone" \in at[m] => "phone" \in places
          /\ "store" \in at[m] => places \cap {"store", "phone"} # {}
          /\ "phone" \in places => shown'[m] > 0
          /\ at' = [at EXCEPT ![m] = places]

Next == \E m \in Messages : Keep(m) \/ HandOver(m) \/ Uncertain(m)

Spec == Init /\ [][Next]_vars

-----------------------------------------------------------------------------
(* What follows from it                                                    *)

\* No message is ever nowhere.
NeverLost == \A m \in Messages : at[m] # {}

\* Without doubt it is in one place, and on the phone when it came up.
ExactlyOnce ==
    \A m \in Messages \ doubt :
        /\ at[m] \in {{"queue"}, {"store"}, {"phone"}}
        /\ shown[m] = IF at[m] = {"phone"} THEN 1 ELSE 0
=============================================================================
