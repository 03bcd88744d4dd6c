------------------------------ MODULE Outgoing ------------------------------
(***************************************************************************)
(* What OpenSIPS (opensips.cfg) does with a text that a phone sends: to an *)
(* outside number it calls the REST API of VoIP.ms and waits                *)
(* (route[smsmmssend]); to an extension it sends a new MESSAGE to itself,  *)
(* from where module Delivery takes it.                                    *)
(*                                                                         *)
(* The script keeps its values in $var(), which belong to the worker       *)
(* process and outlive the request: whatever a request does not set itself *)
(* it gets from whichever request, call or push notification that worker   *)
(* served before.  VoIP.ms, the phones, usrloc and SQLite are external.    *)
(***************************************************************************)
EXTENDS Integers, FiniteSets

CONSTANTS
    Workers,        \* TCP/TLS worker processes
    Accounts,       \* sub accounts
    Did,            \* Did[a]: the caller ID of a
    Ext, Loc, Pop,  \* its extension, the location that is unique in, its server
    Texts,          \* texts that users send
    From, To,       \* To[t]: an address, or Outside
    Outside, None,
    MaxSends,       \* MaxSends[t]: times that a phone sends t
    MaxUpsets       \* failures, changes of the sub accounts and restarts

Requests == UNION {{<<t, n>> : n \in 1..MaxSends[t]} : t \in Texts}
Sender(r) == From[r[1]]
Internal(r) == To[r[1]] # Outside

\* ext has the form 10..., uriext the form <main account>#<location>#<ext>
Short(a) == <<"ext", Ext[a]>>
Uri(a) == <<"uri", Loc[a], Ext[a]>>
Addresses == {Short(a) : a \in Accounts} \cup {Uri(a) : a \in Accounts}
Dids == {Did[a] : a \in Accounts}

ASSUME NamesAssumption ==
    /\ From \in [Texts -> Accounts]
    /\ Outside \notin Addresses /\ To \in [Texts -> Addresses \cup {Outside}]
    /\ None \notin Dids /\ None \notin Accounts /\ None \notin Requests
ASSUME ExtensionsAssumption ==
    \A a, b \in Accounts : Loc[a] = Loc[b] /\ Ext[a] = Ext[b] => a = b
ASSUME LimitsAssumption == MaxSends \in [Texts -> Nat] /\ MaxUpsets \in Nat

VARIABLES
    worker,     \* what each worker does, and its $var()s
    tries,      \* times that a text was sent
    sip,        \* what became of each MESSAGE at OpenSIPS
    gaveup,     \* MESSAGEs that the phone waits for no more
    row,        \* table subacct: a new row has no domain until the refresh ends
    relay,      \* the new MESSAGE made of one to an extension
    accepted,   \* the DID with which VoIP.ms sent it out, or None
    \* history
    failed,     \* requests whose rest_get failed
    missed,     \* requests whose query for the DID failed or found no row
    soured,     \* requests answered by a worker that had a failing lookup
    upsets

phones == <<tries, gaveup>>
history == <<failed, missed, soured, upsets>>
vars == <<worker, phones, sip, row, relay, accepted, history>>

\* rc: $var(rc) is negative; rcode: $var(rcode) is 200; body: $var(body) says success
Worker == [pc : {"idle", "rest_get", "resume"}, req : Requests \cup {None},
           rc : BOOLEAN, rcode : BOOLEAN, body : BOOLEAN, did : Dids \cup {None}]
Started == [pc |-> "idle", req |-> None,
            rc |-> FALSE, rcode |-> FALSE, body |-> FALSE, did |-> None]

Relay == [st : {"none", "flying", "handed", "gone"}, to : Accounts \cup {None},
          shown : Addresses \cup {None}]
NoRelay == [st |-> "none", to |-> None, shown |-> None]

Init ==
    /\ worker = [w \in Workers |-> Started]
    /\ tries = [t \in Texts |-> 0] /\ gaveup = {}
    /\ sip = [r \in Requests |-> "none"]
    /\ row = [a \in Accounts |-> "full"]
    /\ relay = [r \in Requests |-> NoRelay]
    /\ accepted = [r \in Requests |-> None]
    /\ failed = {} /\ missed = {} /\ soured = {} /\ upsets = 0

Upset == upsets < MaxUpsets /\ upsets' = upsets + 1

-----------------------------------------------------------------------------
(* Phones                                                                  *)

\* The user sends a text, and again after a refusal or when no answer came.
Send(t) ==
    /\ tries[t] < MaxSends[t]
    /\ tries[t] > 0 => \/ <<t, tries[t]>> \in gaveup
                       \/ sip[<<t, tries[t]>>] = "refused"
    /\ tries' = [tries EXCEPT ![t] = @ + 1]
    /\ sip' = [sip EXCEPT ![<<t, tries'[t]>>] = "sent"]
    /\ UNCHANGED <<worker, gaveup, row, relay, accepted, history>>

\* No final answer within the phone's time: workers that wait for VoIP.ms keep
\* others waiting, and a sender who is not registered gets none.
Timeout(r) ==
    /\ sip[r] \in {"sent", "taken", "ignored", "dropped"}
    /\ r \notin gaveup /\ r[2] < MaxSends[r[1]]
    /\ gaveup' = gaveup \cup {r}
    /\ UNCHANGED <<worker, tries, sip, row, relay, accepted, history>>

-----------------------------------------------------------------------------
(* MESSAGE from a user: what every worker does first                       *)

Reply(r, code) == sip' = [sip EXCEPT ![r] = code]

Ready(w, r) == worker[w].pc = "idle" /\ sip[r] = "sent"

\* is_registered is false: the contact has expired.  No reply.
Ignore(w, r) ==
    /\ Ready(w, r)
    /\ Reply(r, "ignored")
    /\ UNCHANGED <<worker, phones, row, relay, accepted, history>>

-----------------------------------------------------------------------------
(* To an outside number: route[smsmmssend]                                 *)

BadCallerId(w, r, did) ==
    /\ did = IF worker[w].did = None THEN Did[Sender(r)] ELSE worker[w].did
    /\ UNCHANGED <<missed, upsets>>

\* sql_query_one, its result not looked at: without a row, or on an error, the
\* DID of the worker's last text may stay.
CallerId(w, r, did) ==
    \/ /\ row[Sender(r)] # "gone" /\ did = Did[Sender(r)]
       /\ UNCHANGED <<missed, upsets>>
    \/ /\ row[Sender(r)] = "gone" /\ did \in {worker[w].did, None}
       /\ missed' = missed \cup {r} /\ UNCHANGED upsets
    \/ /\ did = worker[w].did /\ missed' = missed \cup {r}
       /\ Upset

SmsMmsSend(w, r) ==
    /\ Ready(w, r) /\ ~Internal(r)
    /\ \E did \in Dids \cup {None} :
          /\ CallerId(w, r, did)
          /\ worker' = [worker EXCEPT ![w] =
                            [@ EXCEPT !.pc = "rest_get", !.req = r, !.did = did]]
    /\ Reply(r, "taken")
    /\ UNCHANGED <<phones, row, relay, accepted, failed, soured>>

\* VoIP.ms sends a text for a DID of the customer's, or not.
Verdict(w, yes) ==
    IF yes THEN /\ worker[w].did # None
                /\ accepted' = [accepted EXCEPT ![worker[w].req] = worker[w].did]
           ELSE UNCHANGED accepted

BadGotLost(w, rcode, body) ==
    worker' = [worker EXCEPT ![w].pc = "resume", ![w].rcode = rcode, ![w].body = body,
                             ![w].req = None]

BadGot(w, rcode, body) ==
    worker' = [worker EXCEPT ![w].pc = "resume", ![w].body = body,
                             ![w].rcode = worker[w].rcode]

\* rest_get sets both, ...
Got(w, rcode, body) ==
    worker' = [worker EXCEPT ![w] =
                  [@ EXCEPT !.pc = "resume", !.rcode = rcode, !.body = body]]

Response(w) ==
    /\ worker[w].pc = "rest_get"
    /\ \E yes \in BOOLEAN : Verdict(w, yes) /\ Got(w, TRUE, yes)
    /\ UNCHANGED <<phones, sip, row, relay, history>>

HttpError(w) ==
    /\ worker[w].pc = "rest_get"
    /\ Got(w, FALSE, FALSE)
    /\ UNCHANGED <<phones, sip, row, relay, accepted, history>>

\* ... but when it fails there is no new body, and $var(rcode) is the old one, 0,
\* or 200 if the connection broke after the first line.  VoIP.ms may have sent it.
GetFails(w) ==
    /\ worker[w].pc = "rest_get"
    /\ Upset
    /\ \E yes \in BOOLEAN : Verdict(w, yes)
    /\ \E rcode \in BOOLEAN : Got(w, rcode, worker[w].body)
    /\ failed' = failed \cup {worker[w].req}
    /\ UNCHANGED <<phones, sip, row, relay, missed, soured>>

BadAnswerStatus(w) ==
    LET v == worker[w] IN
    /\ v.pc = "resume"
    /\ Reply(v.req, IF ~v.rc /\ v.rcode THEN "ok" ELSE "refused")
    /\ soured' = IF v.rc THEN soured \cup {v.req} ELSE soured
    /\ worker' = [worker EXCEPT ![w].pc = "idle", ![w].req = None]
    /\ UNCHANGED <<phones, row, relay, accepted, failed, missed, upsets>>

BadAnswer(w) ==
    LET v == worker[w] IN
    /\ v.pc = "resume"
    /\ \/ v.rc /\ Reply(v.req, "refused")
       \/ ~v.rc /\ ~v.rcode /\ UNCHANGED sip
       \/ ~v.rc /\ v.rcode /\ Reply(v.req, IF v.body THEN "ok" ELSE "refused")
    /\ soured' = IF v.rc THEN soured \cup {v.req} ELSE soured
    /\ worker' = [worker EXCEPT ![w].pc = "idle", ![w].req = None]
    /\ UNCHANGED <<phones, row, relay, accepted, failed, missed, upsets>>

\* 500 if $var(rc) < 0, which this path does not set; 403 unless 200; then the
\* status in the body: 200 or 500.
Answer(w) ==
    LET v == worker[w] IN
    /\ v.pc = "resume"
    /\ Reply(v.req, IF ~v.rc /\ v.rcode /\ v.body THEN "ok" ELSE "refused")
    /\ soured' = IF v.rc THEN soured \cup {v.req} ELSE soured
    /\ worker' = [worker EXCEPT ![w].pc = "idle", ![w].req = None]
    /\ UNCHANGED <<phones, row, relay, accepted, failed, missed, upsets>>

-----------------------------------------------------------------------------
(* To an extension                                                         *)

\* The query for the recipient: ext only within the sender's location.
Found(a, address) ==
    {b \in Accounts : /\ row[b] # "gone"
                      /\ \/ address = Short(b) /\ Loc[b] = Loc[a]
                         \/ address = Uri(b)}

BadShown(a, b) == IF Pop[a] # Pop[b] THEN Uri(a) ELSE Short(a)

\* The From of the new request.
Shown(a, b) == IF Loc[a] # Loc[b] \/ Pop[a] # Pop[b] THEN Uri(a) ELSE Short(a)

BadAsk(w, r) ==
    /\ Ready(w, r) /\ Internal(r)
    /\ row[Sender(r)] # "gone"
    /\ \E b \in Accounts :
          relay' = [relay EXCEPT ![r] =
              IF b \in Found(Sender(r), To[r[1]])
              THEN [st |-> "flying", to |-> b, shown |-> Shown(Sender(r), b)] ELSE NoRelay]
    /\ Reply(r, "ok")
    /\ UNCHANGED <<worker, phones, row, accepted, history>>

\* Both rows found: t_new_request (its result not looked at), and 200 at once.
Ask(w, r) ==
    /\ Ready(w, r) /\ Internal(r)
    /\ row[Sender(r)] # "gone"
    /\ \E b \in Found(Sender(r), To[r[1]]) :
          \E st \in {"flying", "gone"} :
             /\ IF st = "gone" THEN Upset ELSE UNCHANGED upsets
             /\ relay' = [relay EXCEPT ![r] =
                             [st |-> st, to |-> b, shown |-> Shown(Sender(r), b)]]
    /\ Reply(r, "ok")
    /\ UNCHANGED <<worker, phones, row, accepted, failed, missed, soured>>

\* 404: no row, or a query failed.
NotFound(w, r) ==
    /\ Ready(w, r) /\ Internal(r)
    /\ IF row[Sender(r)] = "gone" \/ Found(Sender(r), To[r[1]]) = {}
       THEN UNCHANGED upsets ELSE Upset
    /\ Reply(r, "refused")
    /\ UNCHANGED <<worker, phones, row, relay, accepted, failed, missed, soured>>

\* The UDP worker gets the new MESSAGE: Delivery goes on if it is for an account
\* with a domain of VoIP.ms; otherwise the script ends, and nobody is told.
Arrive(r) ==
    /\ relay[r].st = "flying"
    /\ relay' = [relay EXCEPT ![r].st =
                    IF row[relay[r].to] = "full" THEN "handed" ELSE "gone"]
    /\ UNCHANGED <<worker, phones, sip, row, accepted, history>>

-----------------------------------------------------------------------------
(* What else the workers do with the same $var()s, and what goes on around *)

\* An INVITE to a registered contact that is no sub account: the result of its
\* lookup stays in $var(rc), also when it is -1 or -2.
Invite(w) ==
    /\ worker[w].pc = "idle"
    /\ \E rc \in BOOLEAN : worker' = [worker EXCEPT ![w].rc = rc]
    /\ UNCHANGED <<phones, sip, row, relay, accepted, history>>

\* PN_SEND builds its JSON in $var(body).
PnSend(w) ==
    /\ worker[w].pc = "idle"
    /\ worker' = [worker EXCEPT ![w].body = FALSE]
    /\ UNCHANGED <<phones, sip, row, relay, accepted, history>>

\* pop_subacctdb deletes the row, inserts one, and sets its domain.
Refresh(a) ==
    /\ row' = [row EXCEPT ![a] = CASE @ = "full" -> "gone"
                                   [] @ = "gone" -> "new"
                                   [] @ = "new" -> "full"]
    /\ IF row[a] = "new" THEN UNCHANGED upsets ELSE Upset
    /\ UNCHANGED <<worker, phones, sip, relay, accepted, failed, missed, soured>>

\* The workers and what is on its way to the UDP worker are gone.
Restart ==
    /\ Upset
    /\ worker' = [w \in Workers |-> Started]
    /\ sip' = [r \in Requests |-> IF sip[r] \in {"sent", "taken"} THEN "dropped" ELSE sip[r]]
    /\ relay' = [r \in Requests |->
                    IF relay[r].st = "flying" THEN [relay[r] EXCEPT !.st = "gone"] ELSE relay[r]]
    /\ UNCHANGED <<phones, row, accepted, failed, missed, soured>>

Take(w, r) == Ignore(w, r) \/ SmsMmsSend(w, r) \/ Ask(w, r) \/ NotFound(w, r)
Work(w) == \/ \E r \in Requests : Take(w, r)
           \/ Response(w) \/ HttpError(w) \/ GetFails(w) \/ Answer(w)

Next ==
    \/ \E t \in Texts : Send(t)
    \/ \E r \in Requests : Timeout(r) \/ Arrive(r)
    \/ \E w \in Workers : Work(w) \/ Invite(w) \/ PnSend(w)
    \/ \E a \in Accounts : Refresh(a)
    \/ Restart

Spec == Init /\ [][Next]_vars

-----------------------------------------------------------------------------
(* Properties                                                              *)

TypeOK ==
    /\ worker \in [Workers -> Worker]
    /\ \A w \in Workers : worker[w].pc # "idle" => worker[w].req # None
    /\ tries \in [Texts -> Nat] /\ \A t \in Texts : tries[t] <= MaxSends[t]
    /\ gaveup \subseteq Requests
    /\ sip \in [Requests -> {"none", "sent", "taken", "ignored", "ok", "refused", "dropped"}]
    /\ row \in [Accounts -> {"full", "gone", "new"}]
    /\ relay \in [Requests -> Relay]
    /\ \A r \in Requests : relay[r].st # "none" => relay[r].to # None
    /\ accepted \in [Requests -> Dids \cup {None}]
    /\ failed \subseteq Requests /\ missed \subseteq Requests /\ soured \subseteq Requests
    /\ upsets \in 0..MaxUpsets

\* A user told that the text is sent can rely on it, whatever the worker did
\* before: only a rest_get that failed lets an old answer be taken for a new one.
OkMeansAccepted ==
    \A r \in Requests :
        sip[r] = "ok" /\ ~Internal(r) => accepted[r] # None \/ r \in failed

\* And a user told that it is not, who sends it again, sends no second one, unless
\* rest_get failed or the worker had a lookup without contacts before.
RefusedMeansNot ==
    \A r \in Requests :
        sip[r] = "refused" => accepted[r] = None \/ r \in failed \cup soured

\* Workers serve senders in turn, and a text goes out under the number of
\* another only if its own query failed or found no row.
OwnNumber ==
    \A r \in Requests : accepted[r] \in {None, Did[Sender(r)]} \/ r \in missed

\* The recipient can answer: the address that an internal text seems to come
\* from leads back to the sender and to nobody else, although sub accounts in two
\* locations may have one extension, and they may be at different servers.
ReplyReaches ==
    \A r \in Requests : relay[r].to # None =>
        Found(relay[r].to, relay[r].shown) \subseteq {Sender(r)}
        /\ (row[Sender(r)] # "gone" => Sender(r) \in Found(relay[r].to, relay[r].shown))

\* No MESSAGE is forgotten: what a worker has taken it alone works on, until its
\* sender is answered.
OneWorkerEach ==
    /\ \A r \in Requests : sip[r] = "taken" <=> \E w \in Workers : worker[w].req = r
    /\ \A v, w \in Workers : worker[v].req = worker[w].req /\ v # w => worker[v].pc = "idle"

\* The 200 to an internal text is given before anything is done with it, and
\* nobody sees what then fails: without failures, changes of the sub accounts and
\* restarts Delivery gets it all the same.
InternalKept ==
    \A r \in Requests :
        sip[r] = "ok" /\ Internal(r) /\ upsets = 0 => relay[r].st \in {"flying", "handed"}
=============================================================================
