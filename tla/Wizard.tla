------------------------------- MODULE Wizard -------------------------------
(***************************************************************************)
(* The configuration wizard of the administration pages (mmsgate2.go:      *)
(* wizard, rsltfeed, adminHandler's routing): thirteen pages, two of which *)
(* start a script in the background and let later requests fetch its       *)
(* output over an unbuffered channel kept in a global variable.            *)
(*                                                                         *)
(* A request runs in a goroutine of its own.  nginx gives a request up     *)
(* after a minute, the goroutine goes on: hence more handlers than tabs    *)
(* may work on one page.  Texts, proxies, keys and names are left out; of  *)
(* the settings, whether they are there.                                   *)
(***************************************************************************)
EXTENDS Naturals, FiniteSets

CONSTANTS Tabs,         \* browser windows
          Handlers,     \* goroutines of requests
          Nobody,       \* the tab of a request that was given up
          MaxTests,     \* channels in use at one time
          MaxOut        \* pieces that a script prints before it ends

ASSUME TabsAssumption == Nobody \notin Tabs
ASSUME BoundsAssumption == MaxTests \in Nat /\ MaxOut \in Nat

Kinds == {"fw", "crt"}
Tests == 1 .. MaxTests
Pages == 1 .. 13
OnFailure == [fw |-> 4, crt |-> 9]
Kind(page) == IF page = 6 THEN "fw" ELSE "crt"

VARIABLES
    ch,       \* chfw, chcrt: the channel of the test under way, 0 for nil
    feed,     \* rsltfeed and its script, one for each channel
    req,      \* the requests under way
    tab,      \* thispage and nextpage of the form in each window
    cfg,      \* globalcfg.txt
    \* history
    shared,   \* kinds of test that two requests worked on at one time
    passed,   \* what each tab was told to have succeeded since it showed page 2
    seen      \* the output of a test that each tab shows, and which test it is

hist == <<shared, passed, seen>>
vars == <<ch, feed, req, tab, cfg, hist>>

NoFeed == [kind |-> "fw", pc |-> "none", rslt |-> {}, ok |-> FALSE]
NoReq == [pc |-> "idle", tab |-> Nobody, page |-> 1, round |-> 1,
          on |-> 0]
NoTest == [test |-> 0, rslt |-> {}]

Init ==
    /\ ch = [k \in Kinds |-> 0]
    /\ feed = [n \in Tests |-> NoFeed]
    /\ req = [h \in Handlers |-> NoReq]
    /\ tab = [t \in Tabs |-> [this |-> 1, next |-> 1]]
    /\ cfg = [enabled |-> FALSE, name |-> FALSE, email |-> FALSE]
    /\ shared = {}
    /\ passed = [t \in Tabs |-> {}]
    /\ seen = [t \in Tabs |-> NoTest]

-----------------------------------------------------------------------------
Active == {h \in Handlers : req[h].pc # "idle"}
Waiting(t) == \E h \in Active : req[h].tab = t

\* A channel that no variable of the program holds any more.
Free(n) ==
    /\ feed[n].pc = "none"
    /\ \A k \in Kinds : ch[k] # n
    /\ \A h \in Handlers : req[h].on # n

\* "Next" goes to the form's nextpage, "Back" to the page before this one, the
\* main menu to page 1.  A form is posted while channels are left (MaxTests).
Post(t, h) ==
    /\ ~Waiting(t) /\ h \notin Active
    /\ Cardinality({n \in Tests : Free(n)}) > Cardinality(Active)
    /\ \E p \in {tab[t].next, tab[t].this - 1, 1} \ {0} :
          req' = [req EXCEPT ![h] =
                    [NoReq EXCEPT !.pc = "route", !.tab = t, !.page = p]]
    /\ UNCHANGED <<ch, feed, tab, cfg, hist>>

\* nginx answers 504 after a minute; the window keeps its form.
Timeout(h) ==
    /\ h \in Active /\ req[h].tab # Nobody
    /\ req' = [req EXCEPT ![h].tab = Nobody]
    /\ UNCHANGED <<ch, feed, tab, cfg, shared, passed, seen>>

\* The end of a request: its page, if somebody still waits for it.
Goto(h, next) ==
    /\ req' = [req EXCEPT ![h] = NoReq]
    /\ tab' = [t \in Tabs |-> IF t = req[h].tab
                 THEN [this |-> req[h].page, next |-> next] ELSE tab[t]]
Show(h, details) == seen' = [t \in Tabs |-> IF t = req[h].tab THEN details ELSE seen[t]]

Reply(h, next) == Goto(h, next) /\ Show(h, NoTest)
ReplyWith(h, next) ==
    /\ Goto(h, next)
    /\ Show(h, [test |-> req[h].on, rslt |-> feed[req[h].on].rslt])

Routed(h, pages) == req[h].pc = "route" /\ req[h].page \in pages

\* set_global, whose error every page ignores.
SetGlobal(new) == cfg' = new \/ UNCHANGED cfg

\* What tab t of request h was told to have passed.
Tell(h, checks) == passed' = [t \in Tabs |-> IF t = req[h].tab THEN checks ELSE passed[t]]
Told(h) == IF req[h].tab \in Tabs THEN passed[req[h].tab] ELSE {}

-----------------------------------------------------------------------------
(* Pages that answer at once. *)

\* Explanations and prompts.
Plain(h) ==
    /\ Routed(h, {1, 3, 4, 5, 7, 11})
    /\ Reply(h, req[h].page + 1)
    /\ UNCHANGED <<ch, feed, cfg, shared, passed>>

\* Page 2 disables OpenSIPS (and stops it).
Disable(h) ==
    /\ Routed(h, {2})
    /\ SetGlobal([cfg EXCEPT !.enabled = FALSE])
    /\ Reply(h, 3)
    /\ Tell(h, {})
    /\ UNCHANGED <<ch, feed, shared>>

\* Page 8 offers the DNS names of the account of the API key; a bad key leads
\* back to page 7, an account without names to the same page.
PickName(h) ==
    /\ Routed(h, {8})
    /\ \E next \in {7, 8, 9} : Reply(h, next)
    /\ UNCHANGED <<ch, feed, cfg, shared, passed>>

\* Page 9 saves the name of the form or keeps the one in the settings.
SaveName(h) ==
    /\ Routed(h, {9})
    /\ \/ /\ SetGlobal([cfg EXCEPT !.name = TRUE])
          /\ Reply(h, 10)
       \/ /\ ~cfg.name
          /\ Reply(h, 8)
          /\ UNCHANGED cfg
    /\ UNCHANGED <<ch, feed, shared, passed>>

\* Page 12 tries the VoIP.ms credentials with getSubAccounts.
TestApi(h) ==
    /\ Routed(h, {12})
    /\ \/ Reply(h, 13) /\ Tell(h, Told(h) \cup {"api"})
       \/ Reply(h, 11) /\ UNCHANGED passed
    /\ UNCHANGED <<ch, feed, cfg, shared>>

\* Mistake: the default next page, one further, is kept after the last page.
BadFinish(h) ==
    /\ Routed(h, {13})
    /\ SetGlobal([cfg EXCEPT !.enabled = TRUE])
    /\ Reply(h, req[h].page + 1)
    /\ UNCHANGED <<ch, feed, shared, passed>>

\* Page 13 enables OpenSIPS and starts restart.sh, which ends in a Restart.
Finish(h) ==
    /\ Routed(h, {13})
    /\ SetGlobal([cfg EXCEPT !.enabled = TRUE])
    /\ Reply(h, 1)
    /\ UNCHANGED <<ch, feed, shared, passed>>

-----------------------------------------------------------------------------
(* Pages 6 and 10: start a test, or ask the one under way. *)

\* Mistake: each visit of the page starts a test.
BadLookForTest(h) ==
    LET k == Kind(req[h].page) IN
    /\ Routed(h, {6, 10})
    /\ req' = [req EXCEPT ![h].pc = "prepare"]
    /\ shared' = IF \E g \in Active \ {h} : req[g].page = req[h].page /\ req[g].pc # "route"
                 THEN shared \cup {k} ELSE shared
    /\ UNCHANGED <<ch, feed, tab, cfg, passed, seen>>

\* if chfw == nil, if chcrt == nil
LookForTest(h) ==
    LET k == Kind(req[h].page) IN
    /\ Routed(h, {6, 10})
    /\ req' = [req EXCEPT ![h].pc = IF ch[k] = 0 THEN "prepare" ELSE "recv"]
    /\ shared' = IF \E g \in Active \ {h} : req[g].page = req[h].page /\ req[g].pc # "route"
                 THEN shared \cup {k} ELSE shared
    /\ UNCHANGED <<ch, feed, tab, cfg, passed, seen>>

\* get_ip asks the network for the public address, and may fail.
Address(h) ==
    /\ req[h].pc = "prepare" /\ req[h].page = 6
    /\ \/ req' = [req EXCEPT ![h].pc = "make"] /\ UNCHANGED <<tab, seen>>
       \/ Reply(h, 6)
    /\ UNCHANGED <<ch, feed, cfg, shared, passed>>

\* The certificate needs an email address, of the form or of the settings.
Email(h) ==
    /\ req[h].pc = "prepare" /\ req[h].page = 10
    /\ \/ /\ SetGlobal([cfg EXCEPT !.email = TRUE])
          /\ req' = [req EXCEPT ![h].pc = "make"] /\ UNCHANGED <<tab, seen>>
       \/ ~cfg.email /\ Reply(h, 9) /\ UNCHANGED cfg
    /\ UNCHANGED <<ch, feed, shared, passed>>

\* chfw = make(chan []byte); go rsltfeed(cmd, chfw)
StartTest(h) ==
    LET k == Kind(req[h].page)
        n == CHOOSE i \in Tests : Free(i) IN
    /\ req[h].pc = "make"
    /\ ch' = [ch EXCEPT ![k] = n]
    /\ feed' = [feed EXCEPT ![n] = [NoFeed EXCEPT !.kind = k, !.pc = "read"]]
    /\ Goto(h, req[h].page)
    /\ seen' = [t \in Tabs |-> IF t = req[h].tab \/ seen[t].test = n
                  THEN NoTest ELSE seen[t]]
    /\ UNCHANGED <<cfg, shared, passed>>

\* <-chfw evaluates the global variable; a receive from nil is never served.
Receive(h) ==
    /\ req[h].pc = "recv"
    /\ req' = [req EXCEPT ![h].pc = "wait", ![h].on = ch[Kind(req[h].page)]]
    /\ UNCHANGED <<ch, feed, tab, cfg, hist>>

\* ch <- rslt meets the receive: the sender reads on, the page asks twice.
Progress(h) ==
    LET n == req[h].on IN
    /\ req[h].pc = "wait" /\ n # 0 /\ feed[n].pc = "send"
    /\ feed' = [feed EXCEPT ![n].pc = "read"]
    /\ IF req[h].round = 1
       THEN /\ req' = [req EXCEPT ![h].pc = "recv", ![h].round = 2, ![h].on = 0]
            /\ UNCHANGED <<tab, seen>>
       ELSE ReplyWith(h, req[h].page)
    /\ UNCHANGED <<ch, cfg, shared, passed>>

\* The result that ends with byte 4 meets the receive.
Final(h) ==
    LET n == req[h].on IN
    /\ req[h].pc = "wait" /\ n # 0 /\ feed[n].pc = "final"
    /\ feed' = [feed EXCEPT ![n].pc = "ended"]
    /\ req' = [req EXCEPT ![h].pc = "ended"]
    /\ UNCHANGED <<ch, tab, cfg, hist>>

\* Mistake: a failed test lets the window go on.
BadEndedPage(h) ==
    LET k == Kind(req[h].page)
        ok == feed[req[h].on].ok IN
    /\ req[h].pc = "ended"
    /\ ch' = [ch EXCEPT ![k] = 0]
    /\ feed' = [feed EXCEPT ![req[h].on] = NoFeed]
    /\ ReplyWith(h, req[h].page + 1)
    /\ IF ok THEN Tell(h, Told(h) \cup {k}) ELSE UNCHANGED passed
    /\ UNCHANGED <<cfg, shared>>

\* Mistake: the global keeps the channel of a failed test.
BadEndedChannel(h) ==
    LET k == Kind(req[h].page)
        ok == feed[req[h].on].ok IN
    /\ req[h].pc = "ended"
    /\ ch' = IF ok THEN [ch EXCEPT ![k] = 0] ELSE ch
    /\ feed' = [feed EXCEPT ![req[h].on] = NoFeed]
    /\ ReplyWith(h, IF ok THEN req[h].page + 1 ELSE OnFailure[k])
    /\ IF ok THEN Tell(h, Told(h) \cup {k}) ELSE UNCHANGED passed
    /\ UNCHANGED <<cfg, shared>>

\* chfw = nil; the page goes on after success and back after failure.
Ended(h) ==
    LET k == Kind(req[h].page)
        ok == feed[req[h].on].ok IN
    /\ req[h].pc = "ended"
    /\ ch' = [ch EXCEPT ![k] = 0]
    /\ feed' = [feed EXCEPT ![req[h].on] = NoFeed]
    /\ ReplyWith(h, IF ok THEN req[h].page + 1 ELSE OnFailure[k])
    /\ IF ok THEN Tell(h, Told(h) \cup {k}) ELSE UNCHANGED passed
    /\ UNCHANGED <<cfg, shared>>

-----------------------------------------------------------------------------
(* rsltfeed and its script. *)

\* A piece of output is appended to all that came before.
Output(n) ==
    /\ feed[n].pc = "read" /\ Cardinality(feed[n].rslt) < MaxOut
    /\ feed' = [feed EXCEPT ![n].pc = "send",
                            ![n].rslt = @ \cup {Cardinality(@) + 1}]
    /\ UNCHANGED <<ch, req, tab, cfg, hist>>

\* Mistake: the last result has the exit status only.
BadExit(n) ==
    /\ feed[n].pc = "read"
    /\ \E ok \in BOOLEAN :
          /\ ok /\ feed[n].kind = "crt" => cfg.name /\ cfg.email
          /\ feed' = [feed EXCEPT ![n].pc = "final", ![n].ok = ok,
                                  ![n].rslt = {MaxOut + 1}]
    /\ UNCHANGED <<ch, req, tab, cfg, hist>>

\* The script ends, its exit status is appended.  certs.sh succeeds only with a
\* name and an email address.
Exit(n) ==
    /\ feed[n].pc = "read"
    /\ \E ok \in BOOLEAN :
          /\ ok /\ feed[n].kind = "crt" => cfg.name /\ cfg.email
          /\ feed' = [feed EXCEPT ![n].pc = "final", ![n].ok = ok,
                                  ![n].rslt = @ \cup {MaxOut + 1}]
    /\ UNCHANGED <<ch, req, tab, cfg, hist>>

\* mmsgate2 ends, by itself or with the container, and is started again.
Restart ==
    /\ ch' = [k \in Kinds |-> 0]
    /\ feed' = [n \in Tests |-> NoFeed]
    /\ req' = [h \in Handlers |-> NoReq]
    /\ shared' = {}
    /\ seen' = [t \in Tabs |-> NoTest]
    /\ UNCHANGED <<tab, cfg, passed>>

Page(h) == \/ Plain(h) \/ Disable(h) \/ PickName(h) \/ SaveName(h)
           \/ TestApi(h) \/ Finish(h)
           \/ LookForTest(h) \/ Address(h) \/ Email(h) \/ StartTest(h)
           \/ Receive(h) \/ Progress(h) \/ Final(h) \/ Ended(h)
Script(n) == Output(n) \/ Exit(n)

Next == \/ \E t \in Tabs, h \in Handlers : Post(t, h)
        \/ \E h \in Handlers : Timeout(h) \/ Page(h)
        \/ \E n \in Tests : Script(n)
        \/ Restart

Spec == Init /\ [][Next]_vars

\* The goroutines run and the scripts end.  Administrators owe nothing.
FairSpec ==
    /\ Spec
    /\ \A h \in Handlers : WF_vars(Page(h))
    /\ \A n \in Tests : WF_vars(Script(n))

-----------------------------------------------------------------------------
(* Every variable has its type. *)
TypeOK ==
    /\ ch \in [Kinds -> 0..MaxTests]
    /\ feed \in [Tests -> [kind : Kinds, pc : {"none", "read", "send", "final", "ended"},
                           rslt : SUBSET (1..MaxOut+1), ok : BOOLEAN]]
    /\ req \in [Handlers ->
                  [pc : {"idle", "route", "prepare", "make", "recv", "wait", "ended"},
                   tab : Tabs \cup {Nobody}, page : Pages, round : {1, 2},
                   on : 0..MaxTests]]
    /\ tab \in [Tabs -> [this : Pages, next : Pages]]
    /\ cfg \in [enabled : BOOLEAN, name : BOOLEAN, email : BOOLEAN]
    /\ shared \subseteq Kinds
    /\ passed \in [Tabs -> SUBSET {"fw", "crt", "api"}]
    /\ seen \in [Tabs -> [test : 0..MaxTests, rslt : SUBSET (1..MaxOut+1)]]

(* A window offers page 13, which enables OpenSIPS, only after it was told  *)
(* that the firewall test, the certificate and the credentials succeeded    *)
(* since it disabled OpenSIPS, whatever ways it took, Back, failures and    *)
(* restarts included; a name and an email address are saved by then.        *)
CheckedBefore13 ==
    \A t \in Tabs : 13 \in {tab[t].this, tab[t].next} =>
        passed[t] = {"fw", "crt", "api"} /\ cfg.name /\ cfg.email

\* A test that has still something to say.
Unfinished(n) == feed[n].pc \in {"read", "send", "final"}

(* While no two requests work on one kind of test at a time, nobody is left *)
(* alone at a channel: the global variable holds the channel of the one     *)
(* test that runs, its rsltfeed writes to that channel, and a request that  *)
(* receives does so from a test that has still something to say.            *)
NobodyAlone ==
    \A k \in Kinds \ shared :
        /\ \A n \in Tests : Unfinished(n) /\ feed[n].kind = k => ch[k] = n
        /\ \A h \in Active : Kind(req[h].page) = k /\ req[h].pc = "wait" =>
              req[h].on = ch[k] /\ ch[k] # 0 /\ Unfinished(ch[k])
        /\ ch[k] # 0 => \/ Unfinished(ch[k])
                        \/ \E h \in Active : req[h].pc = "ended" /\ req[h].on = ch[k]

(* What a window is shown of a test contains all it was shown of it before, *)
(* although other requests take results of the same test in between        *)
(* (rsltfeed sends everything read so far, not the last piece).            *)
OutputGrows ==
    [][\A t \in Tabs :
          LET old == seen[t] new == seen'[t] IN
          new.test = old.test /\ new.test # 0 => old.rslt \subseteq new.rslt]_seen

(* A request is answered, unless two requests worked on the same kind of    *)
(* test at one time.                                                        *)
Answered ==
    \A h \in Handlers :
        h \in Active ~> (h \notin Active \/ Kind(req[h].page) \in shared)
=============================================================================
