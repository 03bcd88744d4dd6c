-------------------------- MODULE OutgoingProofs --------------------------
(***************************************************************************)
(* Theorems about Outgoing, for any number of workers, sub accounts, texts *)
(* and tries, and for every bound on failures, changes and restarts.       *)
(***************************************************************************)
EXTENDS Outgoing, TLAPS

-----------------------------------------------------------------------------
(* Requests and addresses                                                  *)

LEMMA RequestFacts ==
  ASSUME NEW r \in Requests
  PROVE  /\ r[1] \in Texts /\ r[2] \in Nat /\ r = <<r[1], r[2]>>
         /\ Sender(r) \in Accounts /\ Did[Sender(r)] \in Dids
<1>1. PICK t \in Texts : \E n \in 1..MaxSends[t] : r = <<t, n>>
  BY DEF Requests
<1>2. PICK n \in Nat : r = <<t, n>>
  BY <1>1, LimitsAssumption
<1> QED
  BY <1>2, NamesAssumption DEF Sender, Dids

LEMMA RequestIntro ==
  ASSUME NEW t \in Texts, NEW n \in 1..MaxSends[t]
  PROVE  <<t, n>> \in Requests
  BY DEF Requests

\* The address shown leads back: ext names one account of a location, uriext one
\* of all.
LEMMA ShownFound ==
  ASSUME NEW a \in Accounts, NEW b \in Accounts
  PROVE  /\ Shown(a, b) \in Addresses
         /\ Found(b, Shown(a, b)) \subseteq {a}
         /\ row[a] # "gone" => a \in Found(b, Shown(a, b))
<1>1. \A c, d \in Accounts : Uri(c) # Short(d)
  BY DEF Uri, Short
<1>2. \A c \in Accounts : Uri(a) = Uri(c) => a = c
  BY ExtensionsAssumption DEF Uri
<1>3. \A c \in Accounts : Short(a) = Short(c) => Ext[a] = Ext[c]
  BY DEF Short
<1>4. CASE Shown(a, b) = Uri(a)
  BY <1>1, <1>2, <1>4 DEF Found, Addresses
<1>5. CASE Shown(a, b) = Short(a) /\ Loc[a] = Loc[b]
  BY <1>1, <1>3, <1>5, ExtensionsAssumption DEF Found, Addresses
<1>6. Shown(a, b) = Uri(a) \/ (Shown(a, b) = Short(a) /\ Loc[a] = Loc[b])
  BY DEF Shown
<1> QED
  BY <1>4, <1>5, <1>6

-----------------------------------------------------------------------------
(* Type correctness                                                        *)

TypeWorker == /\ worker \in [Workers -> Worker]
              /\ \A w \in Workers : worker[w].pc # "idle" => worker[w].req # None

TypeRest ==
    /\ tries \in [Texts -> Nat] /\ \A t \in Texts : tries[t] <= MaxSends[t]
    /\ gaveup \subseteq Requests
    /\ sip \in [Requests -> {"none", "sent", "taken", "ignored", "ok", "refused", "dropped"}]
    /\ row \in [Accounts -> {"full", "gone", "new"}]
    /\ relay \in [Requests -> Relay]
    /\ \A r \in Requests : relay[r].st # "none" => relay[r].to # None
    /\ accepted \in [Requests -> Dids \cup {None}]
    /\ failed \subseteq Requests /\ missed \subseteq Requests /\ soured \subseteq Requests
    /\ upsets \in 0..MaxUpsets

LEMMA TypeParts == TypeOK <=> TypeWorker /\ TypeRest
  BY DEF TypeOK, TypeWorker, TypeRest

LEMMA TypePartsNext == TypeOK' <=> TypeWorker' /\ TypeRest'
  BY DEF TypeOK, TypeWorker, TypeRest

LEMMA WorkerStep ==
  ASSUME TypeWorker, NEW w \in Workers, NEW v \in Worker,
         v.pc # "idle" => v.req # None,
         worker' = [worker EXCEPT ![w] = v]
  PROVE  TypeWorker'
  BY DEF TypeWorker

LEMMA WorkerFacts ==
  ASSUME TypeOK, NEW w \in Workers
  PROVE  /\ worker[w] \in Worker
         /\ worker[w].pc \in {"idle", "rest_get", "resume"}
         /\ worker[w].req \in Requests \cup {None}
         /\ worker[w].pc # "idle" => worker[w].req \in Requests
         /\ worker[w].rc \in BOOLEAN /\ worker[w].rcode \in BOOLEAN
         /\ worker[w].body \in BOOLEAN
         /\ worker[w].did \in Dids \cup {None}
  BY DEF TypeOK, Worker

LEMMA UpsetFacts ==
  ASSUME TypeOK, Upset
  PROVE  upsets' \in 0..MaxUpsets /\ upsets' > 0
  BY LimitsAssumption DEF Upset, TypeOK

LEMMA StartedFacts == /\ Started \in Worker /\ Started.pc = "idle" /\ Started.req = None
                      /\ NoRelay \in Relay /\ NoRelay.st = "none" /\ NoRelay.to = None
  BY DEF Started, Worker, NoRelay, Relay

LEMMA InitType == Init => TypeOK
<1> SUFFICES ASSUME Init PROVE TypeOK
  OBVIOUS
<1>1. TypeWorker
  BY StartedFacts DEF Init, TypeWorker
<1>2. TypeRest
  BY StartedFacts, LimitsAssumption DEF Init, TypeRest
<1> QED
  BY <1>1, <1>2, TypeParts

LEMMA SendType == ASSUME TypeOK, NEW t \in Texts, Send(t) PROVE TypeOK'
<1>1. tries[t] \in Nat /\ MaxSends[t] \in Nat /\ tries'[t] = tries[t] + 1
  BY LimitsAssumption DEF Send, TypeOK
<1>2. /\ tries' \in [Texts -> Nat] /\ \A u \in Texts : tries'[u] <= MaxSends[u]
  BY <1>1 DEF Send, TypeOK
<1>3. sip' \in [Requests -> {"none", "sent", "taken", "ignored", "ok", "refused", "dropped"}]
  BY DEF Send, TypeOK
<1> QED
  BY <1>2, <1>3 DEF Send, TypeOK, history

LEMMA TimeoutType == ASSUME TypeOK, NEW r \in Requests, Timeout(r) PROVE TypeOK'
  BY DEF Timeout, TypeOK, history

LEMMA IgnoreType ==
  ASSUME TypeOK, NEW w \in Workers, NEW r \in Requests, Ignore(w, r) PROVE TypeOK'
  BY DEF Ignore, Reply, TypeOK, phones, history

LEMMA CallerIdType ==
  ASSUME TypeOK, NEW w \in Workers, NEW r \in Requests, NEW did, CallerId(w, r, did)
  PROVE  /\ did \in Dids \cup {None}
         /\ missed \subseteq missed' /\ missed' \subseteq Requests
         /\ did \in {None, Did[Sender(r)]} \/ r \in missed'
         /\ upsets' \in 0..MaxUpsets /\ (upsets' = upsets \/ upsets' > 0)
<1>1. Did[Sender(r)] \in Dids /\ worker[w].did \in Dids \cup {None}
  BY RequestFacts, WorkerFacts
<1>2. upsets \in 0..MaxUpsets /\ missed \subseteq Requests
  BY DEF TypeOK
<1> QED
  BY <1>1, <1>2, UpsetFacts DEF CallerId

LEMMA SmsMmsSendType ==
  ASSUME TypeOK, NEW w \in Workers, NEW r \in Requests, SmsMmsSend(w, r) PROVE TypeOK'
<1>1. PICK did \in Dids \cup {None} :
        /\ CallerId(w, r, did)
        /\ worker' = [worker EXCEPT ![w] =
                          [@ EXCEPT !.pc = "rest_get", !.req = r, !.did = did]]
  BY DEF SmsMmsSend
<1> DEFINE v == [worker[w] EXCEPT !.pc = "rest_get", !.req = r, !.did = did]
<1>2. v \in Worker /\ v.req # None
  BY WorkerFacts, RequestFacts, NamesAssumption DEF Worker
<1>3. TypeWorker'
  BY <1>1, <1>2, WorkerStep, TypeParts
<1>4. missed' \subseteq Requests /\ upsets' \in 0..MaxUpsets
  BY <1>1, CallerIdType
<1>5. TypeRest'
  BY <1>4 DEF SmsMmsSend, Reply, TypeOK, TypeRest, phones
<1> QED
  BY <1>3, <1>5, TypePartsNext

LEMMA GotType ==
  ASSUME TypeOK, NEW w \in Workers, worker[w].pc = "rest_get",
         NEW rcode \in BOOLEAN, NEW body \in BOOLEAN, Got(w, rcode, body)
  PROVE  TypeWorker'
<1> DEFINE v == [worker[w] EXCEPT !.pc = "resume", !.rcode = rcode, !.body = body]
<1>1. v \in Worker /\ v.req # None
  BY WorkerFacts, NamesAssumption DEF Worker
<1> QED
  BY <1>1, WorkerStep, TypeParts DEF Got

LEMMA VerdictType ==
  ASSUME TypeOK, NEW w \in Workers, worker[w].pc = "rest_get", NEW yes, Verdict(w, yes)
  PROVE  accepted' \in [Requests -> Dids \cup {None}]
  BY WorkerFacts DEF Verdict, TypeOK

LEMMA ResponseType ==
  ASSUME TypeOK, NEW w \in Workers, Response(w) PROVE TypeOK'
<1>1. TypeWorker'
  BY GotType DEF Response
<1>2. accepted' \in [Requests -> Dids \cup {None}]
  BY VerdictType DEF Response
<1>3. TypeRest'
  BY <1>2 DEF Response, TypeOK, TypeRest, phones, history
<1> QED
  BY <1>1, <1>3, TypePartsNext

LEMMA HttpErrorType ==
  ASSUME TypeOK, NEW w \in Workers, HttpError(w) PROVE TypeOK'
<1>1. TypeWorker'
  BY GotType DEF HttpError
<1>2. TypeRest'
  BY DEF HttpError, TypeOK, TypeRest, phones, history
<1> QED
  BY <1>1, <1>2, TypePartsNext

LEMMA GetFailsType ==
  ASSUME TypeOK, NEW w \in Workers, GetFails(w) PROVE TypeOK'
<1>1. TypeWorker'
  BY GotType, WorkerFacts DEF GetFails
<1>2. accepted' \in [Requests -> Dids \cup {None}]
  BY VerdictType DEF GetFails
<1>3. failed' \subseteq Requests /\ upsets' \in 0..MaxUpsets
  BY WorkerFacts, UpsetFacts DEF GetFails, TypeOK
<1>4. TypeRest'
  BY <1>2, <1>3 DEF GetFails, TypeOK, TypeRest, phones
<1> QED
  BY <1>1, <1>4, TypePartsNext

LEMMA AnswerType ==
  ASSUME TypeOK, NEW w \in Workers, Answer(w) PROVE TypeOK'
<1> DEFINE v == [worker[w] EXCEPT !.pc = "idle", !.req = None]
<1>1. v \in Worker /\ v.pc = "idle"
  BY WorkerFacts DEF Worker
<1>2. TypeWorker'
  BY <1>1, WorkerStep, TypeParts DEF Answer
<1>3. worker[w].req \in Requests
  BY WorkerFacts DEF Answer
<1>4. TypeRest'
  BY <1>3 DEF Answer, Reply, TypeOK, TypeRest, phones
<1> QED
  BY <1>2, <1>4, TypePartsNext

LEMMA AskType ==
  ASSUME TypeOK, NEW w \in Workers, NEW r \in Requests, Ask(w, r) PROVE TypeOK'
<1>1. PICK b \in Found(Sender(r), To[r[1]]), st \in {"flying", "gone"} :
        /\ IF st = "gone" THEN Upset ELSE UNCHANGED upsets
        /\ relay' = [relay EXCEPT ![r] =
                        [st |-> st, to |-> b, shown |-> Shown(Sender(r), b)]]
  BY DEF Ask
<1>2. b \in Accounts /\ b # None
  BY NamesAssumption DEF Found
<1>3. [st |-> st, to |-> b, shown |-> Shown(Sender(r), b)] \in Relay
  BY <1>2, RequestFacts, ShownFound DEF Relay
<1>4. /\ relay' \in [Requests -> Relay]
      /\ \A q \in Requests : relay'[q].st # "none" => relay'[q].to # None
  BY <1>1, <1>2, <1>3 DEF TypeOK
<1>5. upsets' \in 0..MaxUpsets
  BY <1>1, UpsetFacts DEF TypeOK
<1> QED
  BY <1>4, <1>5 DEF Ask, Reply, TypeOK, phones

LEMMA NotFoundType ==
  ASSUME TypeOK, NEW w \in Workers, NEW r \in Requests, NotFound(w, r) PROVE TypeOK'
<1>1. upsets' \in 0..MaxUpsets
  BY UpsetFacts DEF NotFound, TypeOK
<1> QED
  BY <1>1 DEF NotFound, Reply, TypeOK, phones

LEMMA ArriveType ==
  ASSUME TypeOK, NEW r \in Requests, Arrive(r) PROVE TypeOK'
<1> DEFINE st == IF row[relay[r].to] = "full" THEN "handed" ELSE "gone"
<1>1. relay[r] \in Relay /\ relay[r].to # None
  BY DEF Arrive, TypeOK
<1>2. [relay[r] EXCEPT !.st = st] \in Relay
  BY <1>1 DEF Relay
<1>3. relay' = [relay EXCEPT ![r] = [relay[r] EXCEPT !.st = st]]
  BY DEF Arrive, TypeOK
<1>4. /\ relay' \in [Requests -> Relay]
      /\ \A q \in Requests : relay'[q].st # "none" => relay'[q].to # None
  BY <1>1, <1>2, <1>3 DEF TypeOK, Relay
<1> QED
  BY <1>4 DEF Arrive, TypeOK, phones, history

LEMMA InviteType ==
  ASSUME TypeOK, NEW w \in Workers, Invite(w) PROVE TypeOK'
<1>1. PICK rc \in BOOLEAN : worker' = [worker EXCEPT ![w].rc = rc]
  BY DEF Invite
<1> DEFINE v == [worker[w] EXCEPT !.rc = rc]
<1>2. v \in Worker /\ v.pc = "idle"
  BY WorkerFacts DEF Worker, Invite
<1>3. TypeWorker'
  BY <1>1, <1>2, WorkerStep, TypeParts
<1> QED
  BY <1>3, TypeParts, TypePartsNext DEF Invite, TypeRest, phones, history

LEMMA PnSendType ==
  ASSUME TypeOK, NEW w \in Workers, PnSend(w) PROVE TypeOK'
<1> DEFINE v == [worker[w] EXCEPT !.body = FALSE]
<1>1. v \in Worker /\ v.pc = "idle"
  BY WorkerFacts DEF Worker, PnSend
<1>2. TypeWorker'
  BY <1>1, WorkerStep, TypeParts DEF PnSend
<1> QED
  BY <1>2, TypeParts, TypePartsNext DEF PnSend, TypeRest, phones, history

LEMMA RefreshType ==
  ASSUME TypeOK, NEW a \in Accounts, Refresh(a) PROVE TypeOK'
<1>1. row[a] \in {"full", "gone", "new"}
  BY DEF TypeOK
<1>2. row' \in [Accounts -> {"full", "gone", "new"}]
  BY <1>1 DEF Refresh, TypeOK
<1>3. upsets' \in 0..MaxUpsets
  BY UpsetFacts DEF Refresh, TypeOK
<1> QED
  BY <1>2, <1>3 DEF Refresh, TypeOK, phones

LEMMA RestartType == TypeOK /\ Restart => TypeOK'
<1> SUFFICES ASSUME TypeOK, Restart PROVE TypeOK'
  OBVIOUS
<1>1. TypeWorker'
  BY StartedFacts DEF Restart, TypeWorker
<1>2. \A r \in Requests :
         /\ [relay[r] EXCEPT !.st = "gone"] \in Relay
         /\ [relay[r] EXCEPT !.st = "gone"].to = relay[r].to
  BY DEF TypeOK, Relay
<1>3. /\ relay' \in [Requests -> Relay]
      /\ \A q \in Requests : relay'[q].st # "none" => relay'[q].to # None
  BY <1>2 DEF Restart, TypeOK
<1>4. TypeRest'
  BY <1>3, UpsetFacts DEF Restart, TypeOK, TypeRest, phones
<1> QED
  BY <1>1, <1>4, TypePartsNext

LEMMA NextType == TypeOK /\ [Next]_vars => TypeOK'
<1> SUFFICES ASSUME TypeOK, [Next]_vars PROVE TypeOK'
  OBVIOUS
<1>1. CASE \E t \in Texts : Send(t)
  BY <1>1, SendType
<1>2. CASE \E r \in Requests : Timeout(r) \/ Arrive(r)
  BY <1>2, TimeoutType, ArriveType
<1>3. CASE \E w \in Workers, r \in Requests : Take(w, r)
  BY <1>3, IgnoreType, SmsMmsSendType, AskType, NotFoundType DEF Take
<1>4. CASE \E w \in Workers : Response(w) \/ HttpError(w) \/ GetFails(w) \/ Answer(w)
  BY <1>4, ResponseType, HttpErrorType, GetFailsType, AnswerType
<1>5. CASE \E w \in Workers : Invite(w) \/ PnSend(w)
  BY <1>5, InviteType, PnSendType
<1>6. CASE \E a \in Accounts : Refresh(a)
  BY <1>6, RefreshType
<1>7. CASE Restart
  BY <1>7, RestartType
<1>8. CASE UNCHANGED vars
  BY <1>8 DEF vars, phones, history, TypeOK
<1> QED
  BY <1>1, <1>2, <1>3, <1>4, <1>5, <1>6, <1>7, <1>8 DEF Next, Work

\* Every worker, request and counter keeps its type; a worker that is busy has a
\* request, and a new MESSAGE a recipient.
THEOREM TypeCorrect == Spec => []TypeOK
<1>1. Init => TypeOK
  BY InitType
<1>2. TypeOK /\ [Next]_vars => TypeOK'
  BY NextType
<1> QED
  BY <1>1, <1>2, PTL DEF Spec

-----------------------------------------------------------------------------
(* The inductive invariant                                                 *)

\* A busy worker has the only hold on a text to the outside that VoIP.ms has not
\* been asked about yet, or whose outcome the worker's variables tell.
WorkerInv(w) ==
    LET v == worker[w] IN
    /\ v.pc = "idle" <=> v.req = None
    /\ v.pc # "idle" => sip[v.req] = "taken" /\ ~Internal(v.req)
    /\ v.pc = "rest_get" =>
          /\ accepted[v.req] = None
          /\ v.did \in {None, Did[Sender(v.req)]} \/ v.req \in missed
    /\ v.pc = "resume" =>
          (v.rcode /\ v.body <=> accepted[v.req] # None) \/ v.req \in failed

Alone == \A v, w \in Workers :
            v # w /\ worker[v].req = worker[w].req => worker[v].req = None

Held(r) == \E w \in Workers : worker[w].req = r

\* What was not answered yet, or is internal, VoIP.ms has not sent; what a phone
\* was told is what became of the text.
SipInv(r) ==
    /\ r[2] > tries[r[1]] => sip[r] = "none"
    /\ sip[r] \in {"none", "sent"} \/ Internal(r) => accepted[r] = None
    /\ sip[r] = "ok" /\ ~Internal(r) => accepted[r] # None \/ r \in failed
    /\ sip[r] = "refused" => accepted[r] = None \/ r \in failed \cup soured
    /\ accepted[r] \in {None, Did[Sender(r)]} \/ r \in missed

RelayInv(r) ==
    /\ relay[r].to # None => relay[r].shown = Shown(Sender(r), relay[r].to)
    /\ sip[r] = "ok" /\ Internal(r) /\ upsets = 0 => relay[r].st \in {"flying", "handed"}

NoChange == upsets = 0 => \A a \in Accounts : row[a] = "full"

IInv ==
    /\ TypeOK
    /\ Alone
    /\ \A w \in Workers : WorkerInv(w)
    /\ \A r \in Requests : /\ sip[r] = "taken" => Held(r)
                           /\ SipInv(r) /\ RelayInv(r)
    /\ NoChange

LEMMA Consequences ==
  IInv => /\ OkMeansAccepted /\ RefusedMeansNot /\ OwnNumber /\ ReplyReaches
          /\ OneWorkerEach /\ InternalKept
<1> SUFFICES ASSUME IInv
             PROVE  /\ OkMeansAccepted /\ RefusedMeansNot /\ OwnNumber /\ ReplyReaches
                    /\ OneWorkerEach /\ InternalKept
  OBVIOUS
<1>1. OkMeansAccepted /\ RefusedMeansNot /\ OwnNumber
  BY DEF IInv, SipInv, OkMeansAccepted, RefusedMeansNot, OwnNumber
<1>2. ReplyReaches
  <2> SUFFICES ASSUME NEW r \in Requests, relay[r].to # None
               PROVE  /\ Found(relay[r].to, relay[r].shown) \subseteq {Sender(r)}
                      /\ row[Sender(r)] # "gone" =>
                           Sender(r) \in Found(relay[r].to, relay[r].shown)
    BY DEF ReplyReaches
  <2>1. relay[r].to \in Accounts /\ relay[r].shown = Shown(Sender(r), relay[r].to)
    BY DEF IInv, RelayInv, TypeOK, Relay
  <2> QED
    BY <2>1, RequestFacts, ShownFound
<1>3. OneWorkerEach
  <2>1. ASSUME NEW r \in Requests
        PROVE  sip[r] = "taken" <=> \E w \in Workers : worker[w].req = r
    <3>1. \A w \in Workers : worker[w].req = r => sip[r] = "taken"
      BY NamesAssumption DEF IInv, WorkerInv
    <3> QED
      BY <3>1 DEF IInv, Held
  <2>2. \A v, w \in Workers :
           worker[v].req = worker[w].req /\ v # w => worker[v].pc = "idle"
    BY DEF IInv, Alone, WorkerInv
  <2> QED
    BY <2>1, <2>2 DEF OneWorkerEach
<1>4. InternalKept
  BY DEF IInv, RelayInv, InternalKept
<1> QED
  BY <1>1, <1>2, <1>3, <1>4

LEMMA InitInv == Init => IInv
<1> SUFFICES ASSUME Init PROVE IInv
  OBVIOUS
<1>1. TypeOK
  BY InitType
<1>2. Alone /\ \A w \in Workers : WorkerInv(w)
  BY StartedFacts DEF Init, Alone, WorkerInv
<1>3. \A r \in Requests : (sip[r] = "taken" => Held(r)) /\ SipInv(r) /\ RelayInv(r)
  BY StartedFacts DEF Init, SipInv, RelayInv
<1>4. NoChange
  BY DEF Init, NoChange
<1> QED
  BY <1>1, <1>2, <1>3, <1>4 DEF IInv

-----------------------------------------------------------------------------
(* Each action keeps it                                                    *)

\* What an action does to the parts of the invariant, in the order of IInv.
LEMMA Assemble ==
  ASSUME IInv, TypeOK', Alone', \A w \in Workers : WorkerInv(w)',
         \A r \in Requests : (sip'[r] = "taken" => Held(r)') /\ SipInv(r)' /\ RelayInv(r)',
         NoChange'
  PROVE  IInv'
  BY DEF IInv

LEMMA SendInv == ASSUME IInv, NEW t \in Texts, Send(t) PROVE IInv'
<1> DEFINE r == <<t, tries'[t]>>
<1>1. TypeOK /\ TypeOK'
  BY SendType DEF IInv
<1>2. /\ tries[t] \in Nat /\ tries'[t] = tries[t] + 1 /\ tries[t] < MaxSends[t]
      /\ MaxSends[t] \in Nat
      /\ \A u \in Texts : tries'[u] \in Nat /\ tries[u] \in Nat /\ tries'[u] >= tries[u]
  BY <1>1, LimitsAssumption DEF Send, TypeOK
<1>3. r \in Requests /\ r[1] = t /\ r[2] = tries[t] + 1
  BY <1>2, RequestIntro
<1>4. sip[r] = "none" /\ sip' = [sip EXCEPT ![r] = "sent"]
  BY <1>2, <1>3 DEF IInv, SipInv, Send
<1>5. /\ UNCHANGED <<worker, row, relay, accepted, failed, missed, soured, upsets>>
      /\ \A q \in Requests : q # r => sip'[q] = sip[q]
      /\ sip'[r] = "sent"
  BY <1>1, <1>3, <1>4 DEF Send, history, TypeOK
<1>6. \A w \in Workers : WorkerInv(w)'
  BY <1>1, <1>4, <1>5, WorkerFacts DEF IInv, WorkerInv
<1>7. ASSUME NEW q \in Requests
      PROVE  (sip'[q] = "taken" => Held(q)') /\ SipInv(q)' /\ RelayInv(q)'
  <2>1. q[1] \in Texts /\ q[2] \in Nat /\ (q = r \/ q[1] # t \/ q[2] # tries'[t])
    BY RequestFacts
  <2>2. q # r /\ q[2] > tries'[q[1]] => q[2] > tries[q[1]]
    BY <1>2, <2>1
  <2>3. r[2] <= tries'[t]
    BY <1>2, <1>3
  <2>4. SipInv(q)'
    BY <1>2, <1>3, <1>4, <1>5, <2>2, <2>3 DEF IInv, SipInv
  <2>5. (sip'[q] = "taken" => Held(q)') /\ RelayInv(q)'
    BY <1>5 DEF IInv, Held, RelayInv
  <2> QED
    BY <2>4, <2>5
<1>8. Alone' /\ NoChange'
  BY <1>5 DEF IInv, Alone, NoChange
<1> QED
  BY <1>1, <1>6, <1>7, <1>8, Assemble

LEMMA TimeoutInv == ASSUME IInv, NEW r \in Requests, Timeout(r) PROVE IInv'
<1>1. TypeOK'
  BY TimeoutType DEF IInv
<1>2. UNCHANGED <<worker, tries, sip, row, relay, accepted, failed, missed, soured, upsets>>
  BY DEF Timeout, history
<1>3. \A w \in Workers : WorkerInv(w)'
  BY <1>2 DEF IInv, WorkerInv
<1>4. \A q \in Requests : (sip'[q] = "taken" => Held(q)') /\ SipInv(q)' /\ RelayInv(q)'
  BY <1>2 DEF IInv, Held, SipInv, RelayInv
<1>5. Alone' /\ NoChange'
  BY <1>2 DEF IInv, Alone, NoChange
<1> QED
  BY <1>1, <1>3, <1>4, <1>5, Assemble

\* A request that no worker holds gets an answer.
LEMMA AnswerAtOnce ==
  ASSUME IInv, NEW r \in Requests, sip[r] = "sent",
         NEW code \in {"ignored", "refused", "ok"}, Reply(r, code),
         code = "ok" => Internal(r),
         UNCHANGED <<worker, tries, row, accepted, failed, missed, soured>>,
         upsets' = upsets \/ upsets' > 0
  PROVE  /\ Alone' /\ NoChange' /\ \A w \in Workers : WorkerInv(w)'
         /\ \A q \in Requests : (sip'[q] = "taken" => Held(q)') /\ SipInv(q)'
<1>1. /\ \A q \in Requests : q # r => sip'[q] = sip[q]
      /\ sip'[r] = code
  BY DEF Reply, IInv, TypeOK
<1>2. upsets' = 0 => upsets = 0
  OBVIOUS
<1>3. Alone' /\ NoChange'
  BY <1>2 DEF IInv, Alone, NoChange
<1>4. \A w \in Workers : WorkerInv(w)'
  BY <1>1, WorkerFacts DEF IInv, WorkerInv
<1>5. \A q \in Requests : (sip'[q] = "taken" => Held(q)') /\ SipInv(q)'
  BY <1>1 DEF IInv, Held, SipInv
<1> QED
  BY <1>3, <1>4, <1>5

LEMMA IgnoreInv ==
  ASSUME IInv, NEW w \in Workers, NEW r \in Requests, Ignore(w, r) PROVE IInv'
<1>1. TypeOK /\ TypeOK'
  BY IgnoreType DEF IInv
<1>2. /\ sip[r] = "sent" /\ Reply(r, "ignored")
      /\ UNCHANGED <<worker, tries, row, relay, accepted, failed, missed, soured, upsets>>
  BY DEF Ignore, Ready, phones, history
<1>3. /\ Alone' /\ NoChange' /\ \A v \in Workers : WorkerInv(v)'
      /\ \A q \in Requests : (sip'[q] = "taken" => Held(q)') /\ SipInv(q)'
  BY <1>2, AnswerAtOnce
<1>4. \A q \in Requests : RelayInv(q)'
  BY <1>1, <1>2 DEF IInv, RelayInv, Reply, TypeOK
<1> QED
  BY <1>1, <1>3, <1>4, Assemble

LEMMA NotFoundInv ==
  ASSUME IInv, NEW w \in Workers, NEW r \in Requests, NotFound(w, r) PROVE IInv'
<1>1. TypeOK /\ TypeOK'
  BY NotFoundType DEF IInv
<1>2. /\ sip[r] = "sent" /\ Reply(r, "refused")
      /\ UNCHANGED <<worker, tries, row, relay, accepted, failed, missed, soured>>
  BY DEF NotFound, Ready, phones
<1>3. upsets' = upsets \/ upsets' > 0
  BY <1>1, UpsetFacts DEF NotFound
<1>4. /\ Alone' /\ NoChange' /\ \A v \in Workers : WorkerInv(v)'
      /\ \A q \in Requests : (sip'[q] = "taken" => Held(q)') /\ SipInv(q)'
  BY <1>2, <1>3, AnswerAtOnce
<1>5. upsets' = 0 => upsets = 0
  BY <1>3
<1>6. \A q \in Requests : RelayInv(q)'
  BY <1>1, <1>2, <1>5 DEF IInv, RelayInv, Reply, TypeOK
<1> QED
  BY <1>1, <1>4, <1>6, Assemble

LEMMA AskInv ==
  ASSUME IInv, NEW w \in Workers, NEW r \in Requests, Ask(w, r) PROVE IInv'
<1>1. TypeOK /\ TypeOK'
  BY AskType DEF IInv
<1>2. /\ sip[r] = "sent" /\ Reply(r, "ok") /\ Internal(r)
      /\ UNCHANGED <<worker, tries, row, accepted, failed, missed, soured>>
  BY DEF Ask, Ready, phones
<1>3. PICK b \in Found(Sender(r), To[r[1]]), st \in {"flying", "gone"} :
        /\ IF st = "gone" THEN Upset ELSE UNCHANGED upsets
        /\ relay' = [relay EXCEPT ![r] =
                        [st |-> st, to |-> b, shown |-> Shown(Sender(r), b)]]
  BY DEF Ask
<1>4. /\ upsets' = upsets \/ upsets' > 0
      /\ st = "gone" => upsets' > 0
  BY <1>1, <1>3, UpsetFacts
<1>5. /\ Alone' /\ NoChange' /\ \A v \in Workers : WorkerInv(v)'
      /\ \A q \in Requests : (sip'[q] = "taken" => Held(q)') /\ SipInv(q)'
  BY <1>2, <1>4, AnswerAtOnce
<1>6. /\ relay'[r] = [st |-> st, to |-> b, shown |-> Shown(Sender(r), b)]
      /\ \A q \in Requests : q # r => relay'[q] = relay[q] /\ sip'[q] = sip[q]
  BY <1>1, <1>2, <1>3 DEF TypeOK, Reply
<1>7. RelayInv(r)'
  BY <1>4, <1>6 DEF RelayInv
<1>8. \A q \in Requests : q # r => RelayInv(q)'
  BY <1>4, <1>6 DEF IInv, RelayInv
<1> QED
  BY <1>1, <1>5, <1>7, <1>8, Assemble

LEMMA SmsMmsSendInv ==
  ASSUME IInv, NEW w \in Workers, NEW r \in Requests, SmsMmsSend(w, r) PROVE IInv'
<1>1. TypeOK /\ TypeOK'
  BY SmsMmsSendType DEF IInv
<1>2. PICK did \in Dids \cup {None} :
        /\ CallerId(w, r, did)
        /\ worker' = [worker EXCEPT ![w] =
                          [@ EXCEPT !.pc = "rest_get", !.req = r, !.did = did]]
  BY DEF SmsMmsSend
<1>3. /\ missed \subseteq missed'
      /\ did \in {None, Did[Sender(r)]} \/ r \in missed'
      /\ upsets' = 0 => upsets = 0
  BY <1>1, <1>2, CallerIdType
<1>4. /\ sip[r] = "sent" /\ ~Internal(r) /\ worker[w].pc = "idle" /\ worker[w].req = None
      /\ sip' = [sip EXCEPT ![r] = "taken"]
      /\ UNCHANGED <<tries, row, relay, accepted, failed, soured>>
  BY DEF SmsMmsSend, Ready, Reply, phones, IInv, WorkerInv
<1>5. /\ worker'[w].pc = "rest_get" /\ worker'[w].req = r /\ worker'[w].did = did
      /\ \A v \in Workers : v # w => worker'[v] = worker[v]
  BY <1>1, <1>2, WorkerFacts DEF TypeOK, Worker
<1>6. /\ sip'[r] = "taken" /\ accepted[r] = None /\ r # None
      /\ \A q \in Requests : q # r => sip'[q] = sip[q]
  BY <1>1, <1>4, NamesAssumption DEF TypeOK, IInv, SipInv
<1>7. \A v \in Workers : worker[v].req # r
  BY <1>4, <1>6 DEF IInv, WorkerInv
<1>8. WorkerInv(w)'
  BY <1>3, <1>4, <1>5, <1>6 DEF WorkerInv
<1>9. ASSUME NEW v \in Workers, v # w PROVE WorkerInv(v)'
  BY <1>1, <1>3, <1>4, <1>5, <1>6, <1>7, <1>9, WorkerFacts DEF IInv, WorkerInv
<1>10. Alone'
  BY <1>5, <1>7 DEF IInv, Alone
<1>11. ASSUME NEW q \in Requests
       PROVE  (sip'[q] = "taken" => Held(q)') /\ SipInv(q)' /\ RelayInv(q)'
  <2>1. sip'[q] = "taken" => Held(q)'
    BY <1>4, <1>5, <1>6, NamesAssumption DEF IInv, Held
  <2>2. SipInv(q)'
    BY <1>3, <1>4, <1>6 DEF IInv, SipInv
  <2>3. RelayInv(q)'
    BY <1>3, <1>4, <1>6 DEF IInv, RelayInv
  <2> QED
    BY <2>1, <2>2, <2>3
<1>12. NoChange'
  BY <1>3, <1>4 DEF IInv, NoChange
<1> QED
  BY <1>1, <1>8, <1>9, <1>10, <1>11, <1>12, Assemble

\* The end of rest_get, in whatever way.
LEMMA GotInv ==
  ASSUME IInv, TypeOK', NEW w \in Workers, worker[w].pc = "rest_get",
         NEW yes \in BOOLEAN, Verdict(w, yes),
         NEW rcode \in BOOLEAN, NEW body \in BOOLEAN, Got(w, rcode, body),
         failed \subseteq failed',
         (rcode /\ body <=> yes) \/ worker[w].req \in failed',
         UNCHANGED <<phones, sip, row, relay, missed, soured>>,
         upsets' = upsets \/ upsets' > 0
  PROVE  IInv'
<1> DEFINE r == worker[w].req
<1>1. TypeOK /\ r \in Requests /\ r # None
  BY WorkerFacts, NamesAssumption DEF IInv
<1>2. /\ worker'[w].pc = "resume" /\ worker'[w].req = r
      /\ worker'[w].rcode = rcode /\ worker'[w].body = body
      /\ \A v \in Workers : v # w => worker'[v] = worker[v]
  BY <1>1, WorkerFacts DEF Got, TypeOK, Worker
<1>3. /\ sip[r] = "taken" /\ ~Internal(r) /\ accepted[r] = None
      /\ worker[w].did \in {None, Did[Sender(r)]} \/ r \in missed
  BY DEF IInv, WorkerInv
<1>4. /\ accepted'[r] # None <=> yes
      /\ accepted'[r] \in {None, Did[Sender(r)]} \/ r \in missed
      /\ \A q \in Requests : q # r => accepted'[q] = accepted[q]
  BY <1>1, <1>3 DEF Verdict, TypeOK
<1>5. \A v \in Workers : v # w => worker[v].req # r
  BY <1>1 DEF IInv, Alone
<1>6. upsets' = 0 => upsets = 0
  OBVIOUS
<1>7. WorkerInv(w)'
  BY <1>1, <1>2, <1>3, <1>4 DEF WorkerInv
<1>8. ASSUME NEW v \in Workers, v # w PROVE WorkerInv(v)'
  BY <1>1, <1>2, <1>4, <1>5, <1>8, WorkerFacts DEF IInv, WorkerInv
<1>9. Alone' /\ NoChange'
  BY <1>2, <1>6 DEF IInv, Alone, NoChange
<1>10. ASSUME NEW q \in Requests
       PROVE  (sip'[q] = "taken" => Held(q)') /\ SipInv(q)' /\ RelayInv(q)'
  <2>1. sip'[q] = "taken" => Held(q)'
    BY <1>2 DEF IInv, Held
  <2>2. SipInv(q)'
    BY <1>1, <1>3, <1>4 DEF IInv, SipInv, phones
  <2>3. RelayInv(q)'
    BY <1>6 DEF IInv, RelayInv
  <2> QED
    BY <2>1, <2>2, <2>3
<1> QED
  BY <1>7, <1>8, <1>9, <1>10, Assemble

LEMMA ResponseInv == ASSUME IInv, NEW w \in Workers, Response(w) PROVE IInv'
<1>1. TypeOK'
  BY ResponseType DEF IInv
<1>2. PICK yes \in BOOLEAN : Verdict(w, yes) /\ Got(w, TRUE, yes)
  BY DEF Response
<1>3. /\ worker[w].pc = "rest_get"
      /\ UNCHANGED <<phones, sip, row, relay, missed, soured, failed, upsets>>
  BY DEF Response, history
<1> QED
  BY <1>1, <1>2, <1>3, GotInv

LEMMA HttpErrorInv == ASSUME IInv, NEW w \in Workers, HttpError(w) PROVE IInv'
<1>1. TypeOK'
  BY HttpErrorType DEF IInv
<1>2. Verdict(w, FALSE) /\ Got(w, FALSE, FALSE)
  BY DEF HttpError, Verdict
<1>3. /\ worker[w].pc = "rest_get"
      /\ UNCHANGED <<phones, sip, row, relay, missed, soured, failed, upsets>>
  BY DEF HttpError, history
<1> QED
  BY <1>1, <1>2, <1>3, GotInv

LEMMA GetFailsInv == ASSUME IInv, NEW w \in Workers, GetFails(w) PROVE IInv'
<1>1. TypeOK /\ TypeOK'
  BY GetFailsType DEF IInv
<1>2. PICK yes \in BOOLEAN : Verdict(w, yes)
  BY DEF GetFails
<1>3. PICK rcode \in BOOLEAN : Got(w, rcode, worker[w].body)
  BY DEF GetFails
<1>4. /\ worker[w].pc = "rest_get" /\ upsets' > 0
      /\ UNCHANGED <<phones, sip, row, relay, missed, soured>>
      /\ failed \subseteq failed' /\ worker[w].req \in failed'
  BY <1>1, UpsetFacts DEF GetFails
<1>5. worker[w].body \in BOOLEAN
  BY <1>1, WorkerFacts
<1> QED
  BY <1>1, <1>2, <1>3, <1>4, <1>5, GotInv

LEMMA AnswerInv == ASSUME IInv, NEW w \in Workers, Answer(w) PROVE IInv'
<1> DEFINE r == worker[w].req
           ok == ~worker[w].rc /\ worker[w].rcode /\ worker[w].body
<1>1. TypeOK /\ TypeOK' /\ r \in Requests /\ r # None
  BY AnswerType, WorkerFacts, NamesAssumption DEF IInv, Answer
<1>2. /\ worker[w].pc = "resume" /\ sip[r] = "taken" /\ ~Internal(r)
      /\ (worker[w].rcode /\ worker[w].body <=> accepted[r] # None) \/ r \in failed
  BY DEF Answer, IInv, WorkerInv
<1>3. /\ worker'[w].pc = "idle" /\ worker'[w].req = None
      /\ \A v \in Workers : v # w => worker'[v] = worker[v]
  BY <1>1, WorkerFacts DEF Answer, TypeOK, Worker
<1>4. /\ sip'[r] = IF ok THEN "ok" ELSE "refused"
      /\ \A q \in Requests : q # r => sip'[q] = sip[q]
      /\ soured \subseteq soured' /\ (worker[w].rc => r \in soured')
      /\ UNCHANGED <<tries, row, relay, accepted, failed, missed, upsets>>
  BY <1>1 DEF Answer, Reply, TypeOK, phones
<1>5. \A v \in Workers : v # w => worker[v].req # r
  BY <1>1 DEF IInv, Alone
<1>6. WorkerInv(w)'
  BY <1>3 DEF WorkerInv
<1>7. ASSUME NEW v \in Workers, v # w PROVE WorkerInv(v)'
  BY <1>1, <1>3, <1>4, <1>5, <1>7, WorkerFacts DEF IInv, WorkerInv
<1>8. Alone' /\ NoChange'
  BY <1>3, <1>4 DEF IInv, Alone, NoChange
<1>9. ASSUME NEW q \in Requests
      PROVE  (sip'[q] = "taken" => Held(q)') /\ SipInv(q)' /\ RelayInv(q)'
  <2>1. sip'[q] = "taken" => Held(q)'
    BY <1>3, <1>4 DEF IInv, Held
  <2>2. CASE q = r
    <3>1. ok => accepted[r] # None \/ r \in failed
      BY <1>2
    <3>2. ~ok => accepted[r] = None \/ r \in failed \/ r \in soured'
      BY <1>2, <1>4
    <3> QED
      BY <1>1, <1>2, <1>4, <2>1, <2>2, <3>1, <3>2 DEF IInv, SipInv, RelayInv
  <2>3. CASE q # r
    BY <1>4, <2>1, <2>3 DEF IInv, SipInv, RelayInv
  <2> QED
    BY <2>2, <2>3
<1> QED
  BY <1>1, <1>6, <1>7, <1>8, <1>9, Assemble

LEMMA ArriveInv == ASSUME IInv, NEW r \in Requests, Arrive(r) PROVE IInv'
<1> DEFINE st == IF row[relay[r].to] = "full" THEN "handed" ELSE "gone"
<1>1. TypeOK /\ TypeOK' /\ relay[r] \in Relay /\ relay[r].to \in Accounts
  BY ArriveType DEF IInv, TypeOK, Relay, Arrive
<1>2. /\ relay'[r].to = relay[r].to /\ relay'[r].shown = relay[r].shown
      /\ relay'[r].st = st
      /\ \A q \in Requests : q # r => relay'[q] = relay[q]
  BY <1>1 DEF Arrive, TypeOK, Relay
<1>3. UNCHANGED <<worker, tries, sip, row, accepted, failed, missed, soured, upsets>>
  BY DEF Arrive, phones, history
<1>4. upsets = 0 => st = "handed"
  BY <1>1 DEF IInv, NoChange
<1>5. \A w \in Workers : WorkerInv(w)'
  BY <1>3 DEF IInv, WorkerInv
<1>6. \A q \in Requests : (sip'[q] = "taken" => Held(q)') /\ SipInv(q)'
  BY <1>3 DEF IInv, Held, SipInv
<1>7. \A q \in Requests : RelayInv(q)'
  BY <1>2, <1>3, <1>4 DEF IInv, RelayInv
<1>8. Alone' /\ NoChange'
  BY <1>3 DEF IInv, Alone, NoChange
<1> QED
  BY <1>1, <1>5, <1>6, <1>7, <1>8, Assemble

\* An idle worker serves something else: only its variables change.
LEMMA OtherInv ==
  ASSUME IInv, NEW w \in Workers, worker[w].pc = "idle",
         Invite(w) \/ PnSend(w)
  PROVE  IInv'
<1>1. TypeOK /\ TypeOK'
  BY InviteType, PnSendType DEF IInv
<1>2. /\ \A v \in Workers : v # w => worker'[v] = worker[v]
      /\ worker'[w].pc = "idle" /\ worker'[w].req = worker[w].req
  BY <1>1, WorkerFacts DEF Invite, PnSend, TypeOK, Worker
<1>3. UNCHANGED <<tries, sip, row, relay, accepted, failed, missed, soured, upsets>>
  BY DEF Invite, PnSend, phones, history
<1>4. \A v \in Workers : WorkerInv(v)'
  BY <1>2, <1>3 DEF IInv, WorkerInv
<1>5. \A q \in Requests : (sip'[q] = "taken" => Held(q)') /\ SipInv(q)' /\ RelayInv(q)'
  BY <1>2, <1>3 DEF IInv, Held, SipInv, RelayInv
<1>6. Alone' /\ NoChange'
  BY <1>2, <1>3 DEF IInv, Alone, NoChange
<1> QED
  BY <1>1, <1>4, <1>5, <1>6, Assemble

LEMMA RefreshInv == ASSUME IInv, NEW a \in Accounts, Refresh(a) PROVE IInv'
<1>1. TypeOK /\ TypeOK'
  BY RefreshType DEF IInv
<1>2. UNCHANGED <<worker, tries, sip, relay, accepted, failed, missed, soured>>
  BY DEF Refresh, phones
<1>3. row[a] = "full" \/ row[a] = "gone" => upsets' > 0
  BY <1>1, UpsetFacts DEF Refresh
<1>4. upsets' = 0 => upsets = 0
  BY <1>1, UpsetFacts DEF Refresh
<1>5. NoChange'
  BY <1>1, <1>3, <1>4 DEF IInv, NoChange, Refresh, TypeOK
<1>6. \A w \in Workers : WorkerInv(w)'
  BY <1>2 DEF IInv, WorkerInv
<1>7. \A q \in Requests : (sip'[q] = "taken" => Held(q)') /\ SipInv(q)' /\ RelayInv(q)'
  BY <1>2, <1>4 DEF IInv, Held, SipInv, RelayInv
<1>8. Alone'
  BY <1>2 DEF IInv, Alone
<1> QED
  BY <1>1, <1>5, <1>6, <1>7, <1>8, Assemble

LEMMA RestartInv == IInv /\ Restart => IInv'
<1> SUFFICES ASSUME IInv, Restart PROVE IInv'
  OBVIOUS
<1>1. TypeOK /\ TypeOK' /\ upsets' > 0
  BY RestartType, UpsetFacts DEF IInv, Restart
<1>2. \A w \in Workers : worker'[w].pc = "idle" /\ worker'[w].req = None
  BY StartedFacts DEF Restart
<1>3. /\ \A q \in Requests : sip'[q] = IF sip[q] \in {"sent", "taken"} THEN "dropped" ELSE sip[q]
      /\ UNCHANGED <<tries, row, accepted, failed, missed, soured>>
  BY DEF Restart, phones
<1>4. \A q \in Requests : relay'[q].to = relay[q].to /\ relay'[q].shown = relay[q].shown
  BY <1>1 DEF Restart, TypeOK, Relay
<1>5. Alone' /\ NoChange' /\ \A w \in Workers : WorkerInv(w)'
  BY <1>1, <1>2 DEF Alone, NoChange, WorkerInv
<1>6. \A q \in Requests : (sip'[q] = "taken" => Held(q)') /\ SipInv(q)'
  BY <1>3 DEF IInv, SipInv
<1>7. \A q \in Requests : RelayInv(q)'
  BY <1>1, <1>4 DEF IInv, RelayInv
<1> QED
  BY <1>1, <1>5, <1>6, <1>7, Assemble

LEMMA NextInv == IInv /\ [Next]_vars => IInv'
<1> SUFFICES ASSUME IInv, [Next]_vars PROVE IInv'
  OBVIOUS
<1>1. CASE \E t \in Texts : Send(t)
  BY <1>1, SendInv
<1>2. CASE \E r \in Requests : Timeout(r) \/ Arrive(r)
  BY <1>2, TimeoutInv, ArriveInv
<1>3. CASE \E w \in Workers, r \in Requests : Take(w, r)
  BY <1>3, IgnoreInv, SmsMmsSendInv, AskInv, NotFoundInv DEF Take
<1>4. CASE \E w \in Workers : Response(w) \/ HttpError(w) \/ GetFails(w) \/ Answer(w)
  BY <1>4, ResponseInv, HttpErrorInv, GetFailsInv, AnswerInv
<1>5. CASE \E w \in Workers : Invite(w) \/ PnSend(w)
  BY <1>5, OtherInv DEF Invite, PnSend
<1>6. CASE \E a \in Accounts : Refresh(a)
  BY <1>6, RefreshInv
<1>7. CASE Restart
  BY <1>7, RestartInv
<1>8. CASE UNCHANGED vars
  <2>1. UNCHANGED <<worker, tries, sip, gaveup, row, relay, accepted, failed, missed,
                    soured, upsets>>
    BY <1>8 DEF vars, phones, history
  <2> QED
    BY <2>1 DEF IInv, TypeOK, Alone, WorkerInv, Held, SipInv, RelayInv, NoChange
<1> QED
  BY <1>1, <1>2, <1>3, <1>4, <1>5, <1>6, <1>7, <1>8 DEF Next, Work

LEMMA InvCorrect == Spec => []IInv
<1>1. Init => IInv
  BY InitInv
<1>2. IInv /\ [Next]_vars => IInv'
  BY NextInv
<1> QED
  BY <1>1, <1>2, PTL DEF Spec

-----------------------------------------------------------------------------
(* The theorems                                                            *)

\* A user told that a text is sent can rely on it, whatever the same worker did
\* before, unless rest_get failed.
THEOREM AcceptedCorrect == Spec => []OkMeansAccepted
<1>1. IInv => OkMeansAccepted
  BY Consequences
<1> QED
  BY <1>1, InvCorrect, PTL

\* A user told that a text is not sent need not fear to send it twice, unless
\* rest_get failed or the worker had a call whose lookup failed.
THEOREM RefusedCorrect == Spec => []RefusedMeansNot
<1>1. IInv => RefusedMeansNot
  BY Consequences
<1> QED
  BY <1>1, InvCorrect, PTL

\* A text goes out under the sender's own number unless the query for it failed
\* or found no row.
THEOREM NumberCorrect == Spec => []OwnNumber
<1>1. IInv => OwnNumber
  BY Consequences
<1> QED
  BY <1>1, InvCorrect, PTL

\* The address that an internal text seems to come from leads back to its sender
\* and to nobody else, however extensions, locations and servers are given out.
THEOREM ReplyCorrect == Spec => []ReplyReaches
<1>1. IInv => ReplyReaches
  BY Consequences
<1> QED
  BY <1>1, InvCorrect, PTL

\* One worker has each MESSAGE that was taken, until it is answered.
THEOREM ServedCorrect == Spec => []OneWorkerEach
<1>1. IInv => OneWorkerEach
  BY Consequences
<1> QED
  BY <1>1, InvCorrect, PTL

\* Without failures, changes and restarts an internal text answered 200 is not
\* lost on the socket of the worker that made its request.
THEOREM InternalCorrect == Spec => []InternalKept
<1>1. IInv => InternalKept
  BY Consequences
<1> QED
  BY <1>1, InvCorrect, PTL
=============================================================================
