---------------------------- MODULE WizardProofs ----------------------------
(***************************************************************************)
(* Theorems about Wizard, for any number of windows, requests and tests,   *)
(* and for scripts of any length.                                          *)
(***************************************************************************)
EXTENDS Wizard, FiniteSetTheorems, TLAPS

-----------------------------------------------------------------------------
(* Type correctness                                                        *)

ReqPcs == {"idle", "route", "prepare", "make", "recv", "wait", "ended"}
FeedPcs == {"none", "read", "send", "final", "ended"}
Req == [pc : ReqPcs, tab : Tabs \cup {Nobody}, page : Pages, round : {1, 2},
        on : 0..MaxTests]
Feed == [kind : Kinds, pc : FeedPcs, rslt : SUBSET (1..MaxOut+1), ok : BOOLEAN]
Tab == [this : Pages, next : Pages]
Cfg == [enabled : BOOLEAN, name : BOOLEAN, email : BOOLEAN]
Shown == [test : 0..MaxTests, rslt : SUBSET (1..MaxOut+1)]

LEMMA TypeParts ==
  TypeOK <=> /\ ch \in [Kinds -> 0..MaxTests] /\ feed \in [Tests -> Feed]
             /\ req \in [Handlers -> Req] /\ tab \in [Tabs -> Tab] /\ cfg \in Cfg
             /\ shared \subseteq Kinds /\ passed \in [Tabs -> SUBSET {"fw", "crt", "api"}]
             /\ seen \in [Tabs -> Shown]
  BY DEF TypeOK, Feed, Req, Tab, Cfg, Shown, ReqPcs, FeedPcs

LEMMA TypePartsNext ==
  TypeOK' <=> /\ ch' \in [Kinds -> 0..MaxTests] /\ feed' \in [Tests -> Feed]
              /\ req' \in [Handlers -> Req] /\ tab' \in [Tabs -> Tab] /\ cfg' \in Cfg
              /\ shared' \subseteq Kinds /\ passed' \in [Tabs -> SUBSET {"fw", "crt", "api"}]
              /\ seen' \in [Tabs -> Shown]
  BY DEF TypeOK, Feed, Req, Tab, Cfg, Shown, ReqPcs, FeedPcs

LEMMA Constants ==
  /\ NoReq \in Req /\ NoReq.pc = "idle" /\ NoReq.tab = Nobody /\ NoReq.on = 0
  /\ NoFeed \in Feed /\ NoFeed.pc = "none" /\ NoFeed.ok = FALSE
  /\ NoTest \in Shown /\ NoTest.test = 0
  /\ Tests \subseteq Nat /\ 0 \notin Tests /\ 0..MaxTests = Tests \cup {0}
  BY BoundsAssumption DEF NoReq, Req, ReqPcs, NoFeed, Feed, FeedPcs, NoTest, Shown,
     Pages, Kinds, Tests

LEMMA ReqFacts ==
  ASSUME TypeOK, NEW h \in Handlers
  PROVE  /\ req[h] \in Req /\ req[h].pc \in ReqPcs /\ req[h].tab \in Tabs \cup {Nobody}
         /\ req[h].page \in Pages /\ req[h].on \in Tests \cup {0}
         /\ Kind(req[h].page) \in Kinds
  BY Constants DEF TypeOK, Req, ReqPcs, Kind, Kinds

LEMMA FeedFacts ==
  ASSUME TypeOK, NEW n \in Tests
  PROVE  /\ feed[n] \in Feed /\ feed[n].pc \in FeedPcs /\ feed[n].kind \in Kinds
         /\ feed[n].ok \in BOOLEAN /\ feed[n].rslt \subseteq 1..MaxOut+1
  BY DEF TypeOK, Feed, FeedPcs

LEMMA ReqStep ==
  ASSUME req \in [Handlers -> Req], NEW h \in Handlers, NEW v \in Req,
         req' = [req EXCEPT ![h] = v]
  PROVE  req' \in [Handlers -> Req]
  OBVIOUS

LEMMA FeedStep ==
  ASSUME feed \in [Tests -> Feed], NEW n \in Tests, NEW v \in Feed,
         feed' = [feed EXCEPT ![n] = v]
  PROVE  feed' \in [Tests -> Feed]
  OBVIOUS

LEMMA CfgFacts ==
  ASSUME TypeOK, NEW new \in Cfg, SetGlobal(new),
         cfg.name => new.name, cfg.email => new.email
  PROVE  cfg' \in Cfg /\ (cfg.name => cfg'.name) /\ (cfg.email => cfg'.email)
  BY DEF TypeOK, Cfg, SetGlobal

LEMMA SameCfg ==
  ASSUME TypeOK, UNCHANGED cfg
  PROVE  cfg' \in Cfg /\ (cfg.name => cfg'.name) /\ (cfg.email => cfg'.email)
  BY TypeParts

LEMMA CfgChanges ==
  ASSUME TypeOK
  PROVE  /\ \A b \in BOOLEAN : [cfg EXCEPT !.enabled = b] \in Cfg
         /\ \A b \in BOOLEAN : /\ [cfg EXCEPT !.enabled = b].name = cfg.name
                               /\ [cfg EXCEPT !.enabled = b].email = cfg.email
         /\ [cfg EXCEPT !.name = TRUE] \in Cfg
         /\ [cfg EXCEPT !.name = TRUE].email = cfg.email
         /\ [cfg EXCEPT !.name = TRUE].name = TRUE
         /\ [cfg EXCEPT !.email = TRUE] \in Cfg
         /\ [cfg EXCEPT !.email = TRUE].name = cfg.name
         /\ [cfg EXCEPT !.email = TRUE].email = TRUE
  BY DEF TypeOK, Cfg

LEMMA GotoType ==
  ASSUME TypeOK, NEW h \in Handlers, NEW next \in Pages, Goto(h, next)
  PROVE  req' \in [Handlers -> Req] /\ tab' \in [Tabs -> Tab]
<1>1. [this |-> req[h].page, next |-> next] \in Tab
  BY ReqFacts DEF Tab
<1> QED
  BY <1>1, Constants, TypeParts DEF Goto

LEMMA ShowType ==
  ASSUME TypeOK, NEW h \in Handlers, NEW details \in Shown, Show(h, details)
  PROVE  seen' \in [Tabs -> Shown]
  BY TypeParts DEF Show

LEMMA ReplyType ==
  ASSUME TypeOK, NEW h \in Handlers, NEW next \in Pages, Reply(h, next)
  PROVE  /\ req' \in [Handlers -> Req] /\ tab' \in [Tabs -> Tab]
         /\ seen' \in [Tabs -> Shown]
  BY GotoType, ShowType, Constants DEF Reply

LEMMA ReplyWithType ==
  ASSUME TypeOK, NEW h \in Handlers, req[h].on # 0, NEW next \in Pages, ReplyWith(h, next)
  PROVE  /\ req' \in [Handlers -> Req] /\ tab' \in [Tabs -> Tab]
         /\ seen' \in [Tabs -> Shown]
<1>1. [test |-> req[h].on, rslt |-> feed[req[h].on].rslt] \in Shown
  BY ReqFacts, FeedFacts, Constants DEF Shown
<1> QED
  BY <1>1, GotoType, ShowType DEF ReplyWith

LEMMA TellType ==
  ASSUME TypeOK, NEW h \in Handlers, NEW checks \in SUBSET {"fw", "crt", "api"},
         Tell(h, checks)
  PROVE  passed' \in [Tabs -> SUBSET {"fw", "crt", "api"}]
  BY DEF TypeOK, Tell

LEMMA ToldType ==
  ASSUME TypeOK, NEW h \in Handlers
  PROVE  Told(h) \in SUBSET {"fw", "crt", "api"}
  BY DEF TypeOK, Told

LEMMA InitType == Init => TypeOK
  BY Constants, TypeParts DEF Init, Tab, Cfg, Pages

\* The pages that answer at once
LEMMA PageType ==
  ASSUME TypeOK, NEW h \in Handlers,
         Plain(h) \/ Disable(h) \/ PickName(h) \/ SaveName(h) \/ TestApi(h) \/ Finish(h)
  PROVE  /\ TypeOK'
         /\ cfg.name => cfg'.name
         /\ cfg.email => cfg'.email
<1>1. req[h].page + 1 \in Pages \/ req[h].page = 13
  BY ReqFacts DEF Pages
<1>2. CASE Plain(h)
  <2>1. req[h].page + 1 \in Pages
    BY <1>1, <1>2 DEF Plain, Routed
  <2> QED
    BY <1>2, <2>1, ReplyType, TypeParts, TypePartsNext DEF Plain
<1>3. CASE Disable(h)
  <2>1. Reply(h, 3) /\ 3 \in Pages /\ Tell(h, {}) /\ UNCHANGED <<ch, feed, shared>>
    BY <1>3 DEF Disable, Pages
  <2>2. /\ passed' \in [Tabs -> SUBSET {"fw", "crt", "api"}]
        /\ req' \in [Handlers -> Req] /\ tab' \in [Tabs -> Tab]
        /\ seen' \in [Tabs -> Shown]
    BY <2>1, TellType, ReplyType
  <2>3. cfg' \in Cfg /\ (cfg.name => cfg'.name) /\ (cfg.email => cfg'.email)
    BY <1>3, CfgFacts, CfgChanges DEF Disable
  <2> QED
    BY <2>1, <2>2, <2>3, TypeParts, TypePartsNext
<1>4. CASE PickName(h)
  <2>1. {7, 8, 9} \subseteq Pages
    BY DEF Pages
  <2> QED
    BY <1>4, <2>1, ReplyType, TypeParts, TypePartsNext DEF PickName
<1>5. CASE SaveName(h)
  <2>1. {8, 10} \subseteq Pages
    BY DEF Pages
  <2>2. cfg' \in Cfg /\ (cfg.name => cfg'.name) /\ (cfg.email => cfg'.email)
    BY <1>5, SameCfg, CfgFacts, CfgChanges DEF SaveName
  <2> QED
    BY <1>5, <2>1, <2>2, ReplyType, TypeParts, TypePartsNext DEF SaveName
<1>6. CASE TestApi(h)
  <2>1. {11, 13} \subseteq Pages
    BY DEF Pages
  <2>2. Told(h) \cup {"api"} \in SUBSET {"fw", "crt", "api"}
    BY ToldType
  <2>3. passed' \in [Tabs -> SUBSET {"fw", "crt", "api"}]
    BY <1>6, <2>2, TellType, TypeParts DEF TestApi
  <2> QED
    BY <1>6, <2>1, <2>3, ReplyType, TypeParts, TypePartsNext DEF TestApi
<1>7. CASE Finish(h)
  <2>1. Reply(h, 1) /\ 1 \in Pages /\ UNCHANGED <<ch, feed, shared, passed>>
    BY <1>7 DEF Finish, Pages
  <2>2. cfg' \in Cfg /\ (cfg.name => cfg'.name) /\ (cfg.email => cfg'.email)
    BY <1>7, CfgFacts, CfgChanges DEF Finish
  <2> QED
    BY <2>1, <2>2, ReplyType, TypeParts, TypePartsNext
<1> QED
  BY <1>2, <1>3, <1>4, <1>5, <1>6, <1>7

LEMMA PostType ==
  ASSUME TypeOK, NEW t \in Tabs, NEW h \in Handlers, Post(t, h) PROVE TypeOK'
<1>1. PICK p \in {tab[t].next, tab[t].this - 1, 1} \ {0} :
        req' = [req EXCEPT ![h] = [NoReq EXCEPT !.pc = "route", !.tab = t, !.page = p]]
  BY DEF Post
<1>2. tab[t].this \in 1..13 /\ tab[t].next \in 1..13
  BY DEF TypeOK, Pages
<1>3. p \in Pages
  BY <1>2 DEF Pages
<1>4. [NoReq EXCEPT !.pc = "route", !.tab = t, !.page = p] \in Req
  BY <1>3, Constants DEF Req, ReqPcs, NoReq
<1>5. req' \in [Handlers -> Req]
  BY <1>1, <1>4, ReqStep, TypeParts
<1> QED
  BY <1>5, TypeParts, TypePartsNext DEF Post, hist

LEMMA TimeoutType ==
  ASSUME TypeOK, NEW h \in Handlers, Timeout(h) PROVE TypeOK'
<1>1. [req[h] EXCEPT !.tab = Nobody] \in Req
  BY ReqFacts DEF Req
<1>2. req' \in [Handlers -> Req]
  BY <1>1, ReqStep, TypeParts DEF Timeout
<1> QED
  BY <1>2, TypeParts, TypePartsNext DEF Timeout

LEMMA LookForTestType ==
  ASSUME TypeOK, NEW h \in Handlers, LookForTest(h) PROVE TypeOK'
<1>1. \A pc \in ReqPcs : [req[h] EXCEPT !.pc = pc] \in Req
  BY ReqFacts DEF Req
<1>2. PICK pc \in ReqPcs : req' = [req EXCEPT ![h] = [req[h] EXCEPT !.pc = pc]]
  BY TypeParts DEF LookForTest, ReqPcs
<1>3. req' \in [Handlers -> Req]
  BY <1>1, <1>2, ReqStep, TypeParts
<1>4. shared' \subseteq Kinds
  BY ReqFacts, TypeParts DEF LookForTest
<1> QED
  BY <1>3, <1>4, TypeParts, TypePartsNext DEF LookForTest

\* get_ip, and the email address
LEMMA PrepareType ==
  ASSUME TypeOK, NEW h \in Handlers, Address(h) \/ Email(h)
  PROVE  /\ TypeOK'
         /\ cfg.name => cfg'.name
         /\ cfg.email => cfg'.email
<1>1. {6, 9} \subseteq Pages /\ "make" \in ReqPcs
  BY DEF Pages, ReqPcs
<1>2. [req[h] EXCEPT !.pc = "make"] \in Req
  BY <1>1, ReqFacts DEF Req
<1>3. req' = [req EXCEPT ![h].pc = "make"] => req' \in [Handlers -> Req]
  BY <1>2, ReqStep, TypeParts
<1>4. CASE Address(h)
  BY <1>1, <1>3, <1>4, ReplyType, TypeParts, TypePartsNext DEF Address
<1>5. CASE Email(h)
  <2>1. cfg' \in Cfg /\ (cfg.name => cfg'.name) /\ (cfg.email => cfg'.email)
    BY <1>5, SameCfg, CfgFacts, CfgChanges DEF Email
  <2> QED
    BY <1>1, <1>3, <1>5, <2>1, ReplyType, TypeParts, TypePartsNext DEF Email
<1> QED
  BY <1>4, <1>5

LEMMA ReceiveType ==
  ASSUME TypeOK, NEW h \in Handlers, Receive(h) PROVE TypeOK'
<1>1. ch[Kind(req[h].page)] \in 0..MaxTests
  BY ReqFacts DEF TypeOK
<1>2. [req[h] EXCEPT !.pc = "wait", !.on = ch[Kind(req[h].page)]] \in Req
  BY <1>1, ReqFacts DEF Req, ReqPcs
<1>3. req' = [req EXCEPT ![h] = [req[h] EXCEPT !.pc = "wait", !.on = ch[Kind(req[h].page)]]]
  BY TypeParts DEF Receive
<1>4. req' \in [Handlers -> Req]
  BY <1>2, <1>3, ReqStep, TypeParts
<1> QED
  BY <1>4, TypeParts, TypePartsNext DEF Receive, hist

LEMMA ProgressType ==
  ASSUME TypeOK, NEW h \in Handlers, Progress(h) PROVE TypeOK'
<1> DEFINE n == req[h].on
           w == [req[h] EXCEPT !.pc = "recv", !.round = 2, !.on = 0]
<1>1. n \in Tests /\ n # 0 /\ req[h].page \in Pages
  BY ReqFacts DEF Progress
<1>2. [feed[n] EXCEPT !.pc = "read"] \in Feed
  BY <1>1, FeedFacts DEF Feed, FeedPcs
<1>3. feed' \in [Tests -> Feed]
  BY <1>1, <1>2, FeedStep, TypeParts DEF Progress
<1>4. w \in Req
  BY ReqFacts, Constants DEF Req, ReqPcs
<1>5. CASE req[h].round = 1
  <2>1. req' = [req EXCEPT ![h] = w]
    BY <1>5, TypeParts DEF Progress
  <2>2. req' \in [Handlers -> Req]
    BY <1>4, <2>1, ReqStep, TypeParts
  <2> QED
    BY <1>3, <1>5, <2>2, TypeParts, TypePartsNext DEF Progress
<1>6. CASE req[h].round # 1
  BY <1>1, <1>3, <1>6, ReplyWithType, TypeParts, TypePartsNext DEF Progress
<1> QED
  BY <1>5, <1>6

LEMMA FinalType ==
  ASSUME TypeOK, NEW h \in Handlers, Final(h) PROVE TypeOK'
<1> DEFINE n == req[h].on
<1>1. n \in Tests
  BY ReqFacts DEF Final
<1>2. [feed[n] EXCEPT !.pc = "ended"] \in Feed
  BY <1>1, FeedFacts DEF Feed, FeedPcs
<1>3. [req[h] EXCEPT !.pc = "ended"] \in Req
  BY ReqFacts DEF Req, ReqPcs
<1>4. feed' \in [Tests -> Feed] /\ req' \in [Handlers -> Req]
  BY <1>1, <1>2, <1>3, FeedStep, ReqStep, TypeParts DEF Final
<1> QED
  BY <1>4, TypeParts, TypePartsNext DEF Final, hist

LEMMA EndedType ==
  ASSUME TypeOK, NEW h \in Handlers, Ended(h), req[h].on # 0, req[h].page \in {6, 10}
  PROVE  TypeOK'
<1> DEFINE k == Kind(req[h].page)
<1>1. ch' \in [Kinds -> 0..MaxTests] /\ feed' \in [Tests -> Feed]
  BY ReqFacts, Constants, TypeParts DEF Ended
<1>2. req[h].page + 1 \in Pages /\ OnFailure[k] \in Pages
  BY DEF Pages, OnFailure, Kind
<1>3. /\ req' \in [Handlers -> Req] /\ tab' \in [Tabs -> Tab]
      /\ seen' \in [Tabs -> Shown]
  BY <1>2, ReplyWithType DEF Ended
<1>4. Told(h) \cup {k} \in SUBSET {"fw", "crt", "api"}
  BY ToldType, ReqFacts DEF Kinds
<1>5. passed' \in [Tabs -> SUBSET {"fw", "crt", "api"}]
  BY <1>4, TellType, TypeParts DEF Ended
<1> QED
  BY <1>1, <1>3, <1>5, TypeParts, TypePartsNext DEF Ended

LEMMA OutputType ==
  ASSUME TypeOK, NEW n \in Tests, Output(n)
  PROVE  TypeOK' /\ feed' = [feed EXCEPT ![n] = [feed[n] EXCEPT !.pc = "send",
                                !.rslt = feed[n].rslt \cup {Cardinality(feed[n].rslt) + 1}]]
<1>1. MaxOut + 1 \in Int /\ feed[n].rslt \in SUBSET (1..MaxOut+1)
  BY BoundsAssumption, FeedFacts
<1>2. IsFiniteSet(feed[n].rslt)
  BY <1>1, FS_Interval, FS_Subset
<1>3. Cardinality(feed[n].rslt) \in Nat
  BY <1>2, FS_CardinalityType
<1> DEFINE v == [feed[n] EXCEPT !.pc = "send",
                                !.rslt = feed[n].rslt \cup {Cardinality(feed[n].rslt) + 1}]
<1>4. Cardinality(feed[n].rslt) + 1 \in 1..MaxOut+1
  BY <1>3, BoundsAssumption DEF Output
<1>5. v \in Feed
  BY <1>4, FeedFacts DEF Feed, FeedPcs
<1>6. feed' = [feed EXCEPT ![n] = v]
  BY TypeParts DEF Output
<1>7. feed' \in [Tests -> Feed]
  BY <1>5, <1>6, FeedStep, TypeParts
<1> QED
  BY <1>6, <1>7, TypeParts, TypePartsNext DEF Output, hist

LEMMA ExitType ==
  ASSUME TypeOK, NEW n \in Tests, Exit(n)
  PROVE  /\ TypeOK'
         /\ \E ok \in BOOLEAN :
               /\ ok /\ feed[n].kind = "crt" => cfg.name /\ cfg.email
               /\ feed' = [feed EXCEPT ![n] = [feed[n] EXCEPT !.pc = "final", !.ok = ok,
                              !.rslt = feed[n].rslt \cup {MaxOut + 1}]]
<1>1. PICK ok \in BOOLEAN :
         /\ ok /\ feed[n].kind = "crt" => cfg.name /\ cfg.email
         /\ feed' = [feed EXCEPT ![n] = [feed[n] EXCEPT !.pc = "final", !.ok = ok,
                        !.rslt = feed[n].rslt \cup {MaxOut + 1}]]
  BY TypeParts DEF Exit
<1>2. MaxOut + 1 \in 1..MaxOut+1
  BY BoundsAssumption
<1>3. [feed[n] EXCEPT !.pc = "final", !.ok = ok, !.rslt = feed[n].rslt \cup {MaxOut + 1}] \in Feed
  BY <1>2, FeedFacts DEF Feed, FeedPcs
<1>4. feed' \in [Tests -> Feed]
  BY <1>1, <1>3, FeedStep, TypeParts
<1> QED
  BY <1>1, <1>4, TypeParts, TypePartsNext DEF Exit, hist

LEMMA RestartType == TypeOK /\ Restart => TypeOK'
  BY Constants, TypeParts, TypePartsNext DEF Restart

-----------------------------------------------------------------------------
(* The inductive invariant                                                 *)

\* What a window must have been told before it comes to page p
Level(p, checks, settings) ==
    /\ p >= 7 => "fw" \in checks
    /\ p >= 11 => "crt" \in checks /\ settings.name /\ settings.email
    /\ p >= 13 => "api" \in checks

Live(h) == req[h].pc \notin {"idle", "route"}

\* Each window waits for one request, and that request's page, like those of its
\* form, is one that it may come to.
ReqPage(h) ==
    /\ req[h].pc = "idle" => req[h] = NoReq
    /\ Live(h) => req[h].page \in {6, 10}
    /\ req[h].tab # Nobody => Level(req[h].page, passed[req[h].tab], cfg)

TabPage(t) == Level(tab[t].this, passed[t], cfg) /\ Level(tab[t].next, passed[t], cfg)

OneEach == \A g, h \in Handlers : g # h /\ req[g].tab = req[h].tab => req[g].tab = Nobody

PageInv == OneEach /\ (\A t \in Tabs : TabPage(t)) /\ \A h \in Handlers : ReqPage(h)

\* A channel belongs to a test of the kind that its global or its receiver is
\* for, and one request at most has taken its last result.
FeedLink(n) == feed[n].ok /\ feed[n].kind = "crt" => cfg.name /\ cfg.email
ChLink(k) == ch[k] # 0 => feed[ch[k]].pc # "none" /\ feed[ch[k]].kind = k
ReqLink(h) ==
    /\ req[h].on # 0 => /\ req[h].pc \in {"wait", "ended"}
                        /\ \/ feed[req[h].on].pc = "none"
                           \/ feed[req[h].on].kind = Kind(req[h].page)
    /\ req[h].pc = "ended" => req[h].on # 0 /\ feed[req[h].on].pc = "ended"
EndedOnce ==
    \A g, h \in Handlers :
        g # h /\ req[g].pc = "ended" /\ req[h].pc = "ended" => req[g].on # req[h].on

LinkInv ==
    /\ \A n \in Tests : FeedLink(n)
    /\ \A k \in Kinds : ChLink(k)
    /\ \A h \in Handlers : ReqLink(h)
    /\ EndedOnce

\* While no two requests met on it, a kind of test has one worker and one
\* channel, and both are in step.
Works(h, k) == Live(h) /\ Kind(req[h].page) = k

InStep(h, k) ==
    /\ req[h].pc \in {"prepare", "make"} => ch[k] = 0
    /\ req[h].pc \in {"recv", "wait"} => ch[k] # 0 /\ Unfinished(ch[k])
    /\ req[h].pc \in {"wait", "ended"} => req[h].on = ch[k]

Share(k) ==
    /\ \A g, h \in Handlers : Works(g, k) /\ Works(h, k) => g = h
    /\ \A n \in Tests : feed[n].pc # "none" /\ feed[n].kind = k => ch[k] = n
    /\ \A h \in Handlers : Works(h, k) => InStep(h, k)
    /\ ch[k] # 0 => \/ Unfinished(ch[k])
                    \/ \E h \in Handlers : Works(h, k) /\ req[h].pc = "ended"

ShareInv == \A k \in Kinds : k \in shared \/ Share(k)

\* A window has been shown a part of what its test has printed.
SeenTab(t) ==
    seen[t].test # 0 =>
        feed[seen[t].test].pc = "none" \/ seen[t].rslt \subseteq feed[seen[t].test].rslt
SeenInv == \A t \in Tabs : SeenTab(t)

\* There is a free channel for each request under way.
FreeTests == {n \in Tests : Free(n)}
RoomInv == IsFiniteSet(Active) /\ Cardinality(FreeTests) >= Cardinality(Active)

IInv == TypeOK /\ PageInv /\ LinkInv /\ ShareInv /\ SeenInv /\ RoomInv

-----------------------------------------------------------------------------
(* What follows from the invariant                                         *)

LEMMA Consequences == IInv => CheckedBefore13 /\ NobodyAlone
<1> SUFFICES ASSUME IInv PROVE CheckedBefore13 /\ NobodyAlone
  OBVIOUS
<1>1. CheckedBefore13
  <2> SUFFICES ASSUME NEW t \in Tabs, 13 \in {tab[t].this, tab[t].next}
               PROVE  passed[t] = {"fw", "crt", "api"} /\ cfg.name /\ cfg.email
    BY DEF CheckedBefore13
  <2>1. Level(13, passed[t], cfg)
    BY DEF IInv, PageInv, TabPage
  <2>2. passed[t] \subseteq {"fw", "crt", "api"}
    BY DEF IInv, TypeOK
  <2> QED
    BY <2>1, <2>2 DEF Level
<1>2. NobodyAlone
  <2> SUFFICES ASSUME NEW k \in Kinds, k \notin shared
      PROVE  /\ \A n \in Tests : Unfinished(n) /\ feed[n].kind = k => ch[k] = n
             /\ \A h \in Active : Kind(req[h].page) = k /\ req[h].pc = "wait" =>
                   req[h].on = ch[k] /\ ch[k] # 0 /\ Unfinished(ch[k])
             /\ ch[k] # 0 => \/ Unfinished(ch[k])
                             \/ \E h \in Active : req[h].pc = "ended" /\ req[h].on = ch[k]
    BY DEF NobodyAlone
  <2>1. Share(k)
    BY DEF IInv, ShareInv
  <2>2. \A n \in Tests : Unfinished(n) /\ feed[n].kind = k => ch[k] = n
    BY <2>1 DEF Share, Unfinished
  <2>3. ASSUME NEW h \in Active, Kind(req[h].page) = k, req[h].pc \in {"wait", "ended"}
        PROVE  InStep(h, k) /\ h \in Handlers
    BY <2>1, <2>3 DEF Share, Works, Live, Active
  <2> QED
    BY <2>1, <2>2, <2>3 DEF Share, InStep, Works, Live, Active
<1> QED
  BY <1>1, <1>2

-----------------------------------------------------------------------------
(* Parts that many steps keep                                              *)

LEMMA LevelKept ==
  ASSUME NEW p, NEW checks, NEW more, NEW c, NEW d, Level(p, checks, c),
         checks \subseteq more, c.name => d.name, c.email => d.email
  PROVE  Level(p, more, d)
  BY DEF Level

\* A request ends with its page.
LEMMA GotoPage ==
  ASSUME TypeOK, PageInv, NEW h \in Handlers, NEW next \in Pages, Goto(h, next),
         cfg.name => cfg'.name, cfg.email => cfg'.email,
         \A t \in Tabs : t # req[h].tab => passed'[t] = passed[t],
         req[h].tab \in Tabs => /\ Level(req[h].page, passed'[req[h].tab], cfg')
                                /\ Level(next, passed'[req[h].tab], cfg')
  PROVE  PageInv'
<1>1. /\ req'[h] = NoReq
      /\ \A g \in Handlers : g # h => req'[g] = req[g]
  BY TypeParts DEF Goto
<1>2. OneEach'
  BY <1>1, Constants DEF PageInv, OneEach
<1>3. ASSUME NEW t \in Tabs PROVE TabPage(t)'
  <2>1. CASE t = req[h].tab
    BY <2>1 DEF Goto, TabPage
  <2>2. CASE t # req[h].tab
    BY <2>2, LevelKept DEF Goto, TabPage, PageInv
  <2> QED
    BY <2>1, <2>2
<1>4. ASSUME NEW g \in Handlers, g # h PROVE ReqPage(g)'
  <2>1. ReqPage(g) /\ req'[g] = req[g] /\ req[g].tab \in Tabs \cup {Nobody}
    BY <1>1, <1>4, ReqFacts DEF PageInv
  <2>2. ASSUME req[g].tab # Nobody
        PROVE  Level(req[g].page, passed'[req[g].tab], cfg')
    <3>1. passed'[req[g].tab] = passed[req[g].tab]
      BY <1>4, <2>1, <2>2 DEF PageInv, OneEach
    <3> QED
      BY <2>1, <2>2, <3>1, LevelKept DEF ReqPage
  <2> QED
    BY <2>1, <2>2 DEF ReqPage, Live
<1>5. ReqPage(h)'
  BY <1>1, Constants DEF ReqPage, Live
<1> QED
  BY <1>2, <1>3, <1>4, <1>5 DEF PageInv

\* Requests go on with the same page.
LEMMA SamePage ==
  ASSUME TypeOK, PageInv, UNCHANGED <<tab, passed>>,
         cfg.name => cfg'.name, cfg.email => cfg'.email,
         \A g \in Handlers : /\ req'[g].page = req[g].page /\ req'[g].tab \in {req[g].tab, Nobody}
                             /\ req'[g].pc = "idle" => req'[g] = NoReq
                             /\ req'[g].pc \notin {"idle", "route"} => req[g].page \in {6, 10}
  PROVE  PageInv'
<1>1. OneEach'
  BY DEF PageInv, OneEach
<1>2. ASSUME NEW t \in Tabs PROVE TabPage(t)'
  BY LevelKept DEF TabPage, PageInv
<1>3. ASSUME NEW g \in Handlers PROVE ReqPage(g)'
  BY LevelKept DEF ReqPage, PageInv, Live
<1> QED
  BY <1>1, <1>2, <1>3 DEF PageInv

LEMMA SeenKept ==
  ASSUME TypeOK, SeenInv,
         \A n \in Tests : \/ feed'[n].pc = "none"
                         \/ /\ feed[n].pc # "none"
                            /\ feed[n].rslt \subseteq feed'[n].rslt,
         \A t \in Tabs : seen'[t] = seen[t] \/ seen'[t].test = 0
  PROVE  SeenInv'
<1> SUFFICES ASSUME NEW t \in Tabs, seen'[t] = seen[t], seen[t].test # 0 PROVE SeenTab(t)'
  BY DEF SeenInv, SeenTab
<1>1. seen[t].test \in Tests
  BY Constants DEF TypeOK
<1> QED
  BY <1>1 DEF SeenInv, SeenTab

\* Channels become free, requests end.
LEMMA RoomKept ==
  ASSUME RoomInv, \A n \in Tests : Free(n) => Free(n)', Active' \subseteq Active
  PROVE  RoomInv'
<1>1. IsFiniteSet(Tests) /\ FreeTests \subseteq FreeTests' /\ FreeTests' \subseteq Tests
  BY FS_Interval, BoundsAssumption DEF Tests, FreeTests
<1>2. IsFiniteSet(FreeTests') /\ Cardinality(FreeTests) <= Cardinality(FreeTests')
  BY <1>1, FS_Subset
<1>3. IsFiniteSet(Active') /\ Cardinality(Active') <= Cardinality(Active)
  BY FS_Subset DEF RoomInv
<1>4. IsFiniteSet(FreeTests)
  BY <1>1, <1>2, FS_Subset
<1>5. /\ Cardinality(FreeTests) \in Nat /\ Cardinality(FreeTests') \in Nat
      /\ Cardinality(Active) \in Nat /\ Cardinality(Active') \in Nat
  BY <1>2, <1>3, <1>4, FS_CardinalityType DEF RoomInv
<1> QED
  BY <1>2, <1>3, <1>5 DEF RoomInv

-----------------------------------------------------------------------------
(* The steps                                                               *)

\* A request that has nothing to do with a channel ends.
LEMMA LeaveInv ==
  ASSUME IInv, TypeOK', NEW h \in Handlers, req[h].pc \in {"route", "prepare"},
         NEW next \in Pages, Reply(h, next), UNCHANGED <<ch, feed, shared>>,
         cfg.name => cfg'.name, cfg.email => cfg'.email,
         \A t \in Tabs : t # req[h].tab => passed'[t] = passed[t],
         req[h].tab \in Tabs => /\ Level(req[h].page, passed'[req[h].tab], cfg')
                                /\ Level(next, passed'[req[h].tab], cfg')
  PROVE  IInv'
<1>1. TypeOK /\ PageInv /\ LinkInv /\ ShareInv /\ SeenInv /\ RoomInv
  BY DEF IInv
<1>2. /\ req'[h] = NoReq
      /\ \A g \in Handlers : g # h => req'[g] = req[g]
  BY <1>1, TypeParts DEF Reply, Goto
<1>3. PageInv'
  BY <1>1, GotoPage DEF Reply
<1>4. LinkInv'
  <2>1. \A n \in Tests : FeedLink(n)'
    BY <1>1 DEF LinkInv, FeedLink
  <2>2. \A k \in Kinds : ChLink(k)'
    BY <1>1 DEF LinkInv, ChLink
  <2>3. \A g \in Handlers : ReqLink(g)'
    BY <1>1, <1>2, Constants DEF LinkInv, ReqLink
  <2>4. EndedOnce'
    BY <1>1, <1>2, Constants DEF LinkInv, EndedOnce
  <2> QED
    BY <2>1, <2>2, <2>3, <2>4 DEF LinkInv
<1>5. ShareInv'
  <2> SUFFICES ASSUME NEW k \in Kinds, k \notin shared PROVE Share(k)'
    BY DEF ShareInv
  <2>1. Share(k)
    BY <1>1 DEF ShareInv
  <2>2. \A g \in Handlers : Works(g, k)' => g # h /\ Works(g, k) /\ req'[g] = req[g]
    BY <1>2, Constants DEF Works, Live
  <2>3. \A g \in Handlers : Works(g, k) /\ req[g].pc = "ended" => Works(g, k)' /\ req'[g] = req[g]
    BY <1>2 DEF Works, Live
  <2> QED
    BY <2>1, <2>2, <2>3 DEF Share, InStep, Unfinished
<1>6. SeenInv'
  <2>1. \A n \in Tests : feed[n].rslt \subseteq feed'[n].rslt /\ feed'[n].pc = feed[n].pc
    OBVIOUS
  <2>2. \A t \in Tabs : seen'[t] = seen[t] \/ seen'[t].test = 0
    BY Constants DEF Reply, Show
  <2> QED
    BY <1>1, <2>1, <2>2, SeenKept
<1>7. RoomInv'
  <2>1. \A n \in Tests : Free(n) => Free(n)'
    BY <1>2, Constants DEF Free
  <2>2. Active' \subseteq Active
    BY <1>2, Constants DEF Active
  <2> QED
    BY <1>1, <2>1, <2>2, RoomKept
<1> QED
  BY <1>3, <1>4, <1>5, <1>6, <1>7 DEF IInv

LEMMA PageStep ==
  ASSUME IInv, NEW h \in Handlers,
         Plain(h) \/ Disable(h) \/ PickName(h) \/ SaveName(h) \/ TestApi(h) \/ Finish(h)
  PROVE  IInv'
<1> DEFINE t == req[h].tab
           p == req[h].page
<1>1. /\ TypeOK /\ TypeOK' /\ PageInv /\ t \in Tabs \cup {Nobody} /\ p \in 1..13
      /\ cfg.name => cfg'.name
      /\ cfg.email => cfg'.email
  BY PageType, ReqFacts DEF IInv, Pages
<1>2. t \in Tabs => Level(p, passed[t], cfg)
  BY <1>1, TabsAssumption DEF PageInv, ReqPage
<1>3. UNCHANGED <<ch, feed, shared>> /\ req[h].pc = "route"
  BY DEF Plain, Disable, PickName, SaveName, TestApi, Finish, Routed
<1>4. CASE Plain(h)
  <2>1. p + 1 \in Pages /\ Reply(h, p + 1) /\ UNCHANGED <<passed, cfg>>
    BY <1>4 DEF Plain, Routed, Pages
  <2>2. p \in {1, 3, 4, 5, 7, 11}
    BY <1>4 DEF Plain, Routed
  <2>3. t \in Tabs => Level(p + 1, passed[t], cfg)
    BY <1>2, <2>2 DEF Level
  <2> QED
    BY <1>1, <1>2, <1>3, <2>1, <2>3, LeaveInv
<1>5. CASE Disable(h)
  <2>1. 3 \in Pages /\ Reply(h, 3) /\ Tell(h, {}) /\ p = 2
    BY <1>5 DEF Disable, Routed, Pages
  <2>2. \A checks : Level(p, checks, cfg') /\ Level(3, checks, cfg')
    BY <2>1 DEF Level
  <2>3. \A u \in Tabs : u # t => passed'[u] = passed[u]
    BY <2>1 DEF Tell
  <2> QED
    BY <1>1, <1>3, <2>1, <2>2, <2>3, LeaveInv
<1>6. CASE PickName(h)
  <2>1. PICK next \in {7, 8, 9} : Reply(h, next)
    BY <1>6 DEF PickName
  <2>2. next \in Pages /\ p = 8 /\ UNCHANGED <<passed, cfg>>
    BY <1>6 DEF PickName, Routed, Pages
  <2>3. t \in Tabs => Level(next, passed[t], cfg)
    BY <1>2, <2>2 DEF Level
  <2> QED
    BY <1>1, <1>2, <1>3, <2>1, <2>2, <2>3, LeaveInv
<1>7. CASE SaveName(h)
  <2>1. PICK next \in {8, 10} : Reply(h, next)
    BY <1>7 DEF SaveName
  <2>2. next \in Pages /\ p = 9 /\ UNCHANGED passed
    BY <1>7 DEF SaveName, Routed, Pages
  <2>3. t \in Tabs => Level(p, passed'[t], cfg') /\ Level(next, passed'[t], cfg')
    BY <1>2, <2>2 DEF Level
  <2> QED
    BY <1>1, <1>3, <2>1, <2>2, <2>3, LeaveInv
<1>8. CASE TestApi(h)
  <2>1. p = 12 /\ UNCHANGED cfg /\ {11, 13} \subseteq Pages
    BY <1>8 DEF TestApi, Routed, Pages
  <2>2. CASE Reply(h, 13) /\ Tell(h, Told(h) \cup {"api"})
    <3>1. t \in Tabs => passed'[t] = passed[t] \cup {"api"}
      BY <2>2 DEF Tell, Told
    <3>2. \A u \in Tabs : u # t => passed'[u] = passed[u]
      BY <2>2 DEF Tell
    <3>3. t \in Tabs => Level(p, passed'[t], cfg') /\ Level(13, passed'[t], cfg')
      BY <1>2, <2>1, <3>1 DEF Level
    <3> QED
      BY <1>1, <1>3, <2>1, <2>2, <3>2, <3>3, LeaveInv
  <2>3. CASE Reply(h, 11) /\ UNCHANGED passed
    <3>1. t \in Tabs => Level(11, passed[t], cfg)
      BY <1>2, <2>1 DEF Level
    <3> QED
      BY <1>1, <1>2, <1>3, <2>1, <2>3, <3>1, LeaveInv
  <2> QED
    BY <1>8, <2>2, <2>3 DEF TestApi
<1>9. CASE Finish(h)
  <2>1. Reply(h, 1) /\ 1 \in Pages /\ UNCHANGED passed
    BY <1>9 DEF Finish, Pages
  <2>2. t \in Tabs => Level(p, passed'[t], cfg') /\ Level(1, passed'[t], cfg')
    BY <1>1, <1>2, <2>1 DEF Level
  <2> QED
    BY <1>1, <1>3, <2>1, <2>2, LeaveInv
<1> QED
  BY <1>4, <1>5, <1>6, <1>7, <1>8, <1>9

LEMMA InitInv == Init => IInv
<1> SUFFICES ASSUME Init PROVE IInv
  OBVIOUS
<1>1. /\ TypeOK
      /\ \A h \in Handlers : req[h] = NoReq
      /\ \A n \in Tests : feed[n] = NoFeed
      /\ \A k \in Kinds : ch[k] = 0
  BY InitType DEF Init
<1>2. PageInv
  BY <1>1, Constants DEF Init, PageInv, OneEach, TabPage, ReqPage, Live, Level
<1>3. LinkInv
  BY <1>1, Constants DEF LinkInv, FeedLink, ChLink, ReqLink, EndedOnce
<1>4. ShareInv
  BY <1>1, Constants DEF ShareInv, Share, Works, Live
<1>5. SeenInv
  BY Constants DEF Init, SeenInv, SeenTab
<1>6. RoomInv
  <2>1. Active = {}
    BY <1>1, Constants DEF Active
  <2>2. IsFiniteSet(FreeTests)
    <3>1. IsFiniteSet(Tests) /\ FreeTests \subseteq Tests
      BY FS_Interval, BoundsAssumption DEF Tests, FreeTests
    <3> QED
      BY <3>1, FS_Subset
  <2>3. Cardinality(FreeTests) \in Nat
    BY <2>2, FS_CardinalityType
  <2> QED
    BY <2>1, <2>3, FS_EmptySet DEF RoomInv
<1> QED
  BY <1>1, <1>2, <1>3, <1>4, <1>5, <1>6 DEF IInv

\* A request goes on; the channels stay as they are.
LEMMA GoOnInv ==
  ASSUME IInv, TypeOK', NEW h \in Handlers, req[h].pc # "idle", req[h].pc # "ended",
         NEW v, req' = [req EXCEPT ![h] = v], v.page = req[h].page, v.tab = req[h].tab,
         v.pc \in {"prepare", "make", "recv", "wait"}, req[h].page \in {6, 10},
         v.on = 0 \/ (v.pc = "wait" /\ v.on = ch[Kind(req[h].page)]),
         UNCHANGED <<ch, feed, tab, passed, seen>>, shared \subseteq shared',
         cfg.name => cfg'.name, cfg.email => cfg'.email,
         \A k \in Kinds \ shared' : Kind(req[h].page) = k =>
             InStep(h, k)' /\ \A g \in Handlers : Works(g, k) => g = h
  PROVE  IInv'
<1>1. TypeOK /\ PageInv /\ LinkInv /\ ShareInv /\ SeenInv /\ RoomInv
  BY DEF IInv
<1>2. /\ req'[h] = v
      /\ \A g \in Handlers : g # h => req'[g] = req[g]
  BY <1>1, TypeParts
<1>3. PageInv'
  <2>1. \A g \in Handlers :
          /\ req'[g].page = req[g].page /\ req'[g].tab \in {req[g].tab, Nobody}
          /\ req'[g].pc = "idle" => req'[g] = NoReq
          /\ req'[g].pc \notin {"idle", "route"} => req[g].page \in {6, 10}
    BY <1>1, <1>2 DEF PageInv, ReqPage, Live
  <2> QED
    BY <1>1, <2>1, SamePage
<1>4. LinkInv'
  <2>1. \A n \in Tests : FeedLink(n)'
    BY <1>1 DEF LinkInv, FeedLink
  <2>2. \A k \in Kinds : ChLink(k)'
    BY <1>1 DEF LinkInv, ChLink
  <2>3. ReqLink(h)'
    BY <1>1, <1>2, ReqFacts DEF LinkInv, ReqLink, ChLink
  <2>4. \A g \in Handlers : g # h => ReqLink(g)'
    BY <1>1, <1>2 DEF LinkInv, ReqLink
  <2>5. EndedOnce'
    BY <1>1, <1>2 DEF LinkInv, EndedOnce
  <2> QED
    BY <2>1, <2>2, <2>3, <2>4, <2>5 DEF LinkInv
<1>5. ShareInv'
  <2> SUFFICES ASSUME NEW k \in Kinds, k \notin shared' PROVE Share(k)'
    BY DEF ShareInv
  <2>1. Share(k)
    BY <1>1 DEF ShareInv
  <2>2. CASE Kind(req[h].page) = k
    <3>1. InStep(h, k)' /\ \A g \in Handlers : Works(g, k) => g = h
      BY <2>2
    <3>2. \A g \in Handlers : Works(g, k)' => g = h
      BY <1>2, <3>1 DEF Works, Live
    <3>3. (ch[k] # 0 => Unfinished(ch[k]))'
      <4>1. \A g \in Handlers : Works(g, k) => req[g].pc # "ended"
        BY <3>1
      <4> QED
        BY <2>1, <4>1 DEF Share, Unfinished
    <3> QED
      BY <2>1, <3>1, <3>2, <3>3 DEF Share
  <2>3. CASE Kind(req[h].page) # k
    <3>1. \A g \in Handlers : /\ Works(g, k)' <=> Works(g, k)
                              /\ Works(g, k) => req'[g] = req[g]
      BY <1>2, <2>3 DEF Works, Live
    <3> QED
      BY <2>1, <3>1 DEF Share, InStep, Unfinished
  <2> QED
    BY <2>2, <2>3
<1>6. SeenInv'
  BY <1>1 DEF SeenInv, SeenTab
<1>7. RoomInv'
  <2>1. ASSUME NEW n \in Tests, Free(n) PROVE Free(n)'
    BY <1>1, <1>2, <2>1, ReqFacts, Constants DEF Free
  <2>2. Active' \subseteq Active
    BY <1>2 DEF Active
  <2> QED
    BY <1>1, <2>1, <2>2, RoomKept
<1> QED
  BY <1>3, <1>4, <1>5, <1>6, <1>7 DEF IInv

\* A worker is known by its kind of test, and its kind by its page.
LEMMA WorkerPage ==
  ASSUME IInv, NEW h \in Handlers
  PROVE  /\ Live(h) => req[h].page \in {6, 10}
         /\ req[h].page \in {6, 10} =>
               \A g \in Handlers : Works(g, Kind(req[h].page)) => req[g].page = req[h].page
  BY DEF IInv, PageInv, ReqPage, Works, Kind

LEMMA LookForTestInv ==
  ASSUME IInv, NEW h \in Handlers, LookForTest(h) PROVE IInv'
<1> DEFINE v == [req[h] EXCEPT !.pc = IF ch[Kind(req[h].page)] = 0 THEN "prepare" ELSE "recv"]
<1>1. /\ TypeOK /\ TypeOK' /\ req[h] \in Req /\ req[h].pc = "route" /\ req[h].page \in {6, 10}
      /\ UNCHANGED <<ch, feed, tab, cfg, passed, seen>> /\ shared \subseteq shared'
  BY LookForTestType, ReqFacts DEF IInv, LookForTest, Routed
<1>2. /\ req' = [req EXCEPT ![h] = v] /\ req'[h] = v
      /\ v.page = req[h].page /\ v.tab = req[h].tab /\ v.on = req[h].on
      /\ v.pc = IF ch[Kind(req[h].page)] = 0 THEN "prepare" ELSE "recv"
  BY <1>1, TypeParts DEF LookForTest, Req
<1>3. v.on = 0
  BY <1>1, <1>2 DEF IInv, LinkInv, ReqLink
<1>4. ASSUME NEW k \in Kinds, k \notin shared', Kind(req[h].page) = k
      PROVE  InStep(h, k)' /\ \A g \in Handlers : Works(g, k) => g = h
  <2>1. ~ \E g \in Active \ {h} : req[g].page = req[h].page /\ req[g].pc # "route"
    BY <1>4 DEF LookForTest
  <2>2. \A g \in Handlers : Works(g, k) => g = h
    BY <1>1, <1>4, <2>1, WorkerPage DEF Works, Live, Active
  <2>3. \A g \in Handlers : ~Works(g, k)
    BY <1>1, <2>2 DEF Works, Live
  <2>4. ch[k] # 0 => Unfinished(ch[k])
    BY <1>1, <1>4, <2>3 DEF IInv, ShareInv, Share
  <2>5. InStep(h, k)'
    BY <1>1, <1>2, <1>4, <2>4 DEF InStep, Unfinished
  <2> QED
    BY <2>2, <2>5
<1> QED
  BY <1>1, <1>2, <1>3, <1>4, GoOnInv

LEMMA PrepareInv ==
  ASSUME IInv, NEW h \in Handlers, Address(h) \/ Email(h) PROVE IInv'
<1> DEFINE t == req[h].tab
           p == req[h].page
           v == [req[h] EXCEPT !.pc = "make"]
<1>1. /\ TypeOK /\ TypeOK' /\ req[h] \in Req /\ req[h].pc = "prepare" /\ p \in {6, 10}
      /\ UNCHANGED <<ch, feed, passed, shared>>
      /\ cfg.name => cfg'.name
      /\ cfg.email => cfg'.email
      /\ t \in Tabs \cup {Nobody}
  BY PrepareType, ReqFacts DEF IInv, Address, Email
<1>2. CASE req' = [req EXCEPT ![h].pc = "make"] /\ UNCHANGED <<tab, seen>>
  <2>1. /\ req' = [req EXCEPT ![h] = v] /\ req'[h] = v
        /\ v.page = p /\ v.tab = t /\ v.on = req[h].on /\ v.pc = "make"
    BY <1>1, <1>2, TypeParts DEF Req
  <2>2. v.on = 0
    BY <1>1, <2>1 DEF IInv, LinkInv, ReqLink
  <2>3. ASSUME NEW k \in Kinds, k \notin shared', Kind(p) = k
        PROVE  InStep(h, k)' /\ \A g \in Handlers : Works(g, k) => g = h
    <3>1. Share(k) /\ Works(h, k)
      BY <1>1, <2>3 DEF IInv, ShareInv, Works, Live
    <3> QED
      BY <1>1, <2>1, <3>1 DEF Share, InStep
  <2> QED
    BY <1>1, <1>2, <2>1, <2>2, <2>3, GoOnInv
<1>3. CASE \E next \in {6, 9} : Reply(h, next) /\ next <= p
  <2>1. PICK next \in {6, 9} : Reply(h, next) /\ next <= p
    BY <1>3
  <2>2. next \in Pages
    BY <2>1 DEF Pages
  <2>3. t \in Tabs => Level(p, passed[t], cfg)
    BY TabsAssumption DEF IInv, PageInv, ReqPage
  <2>4. t \in Tabs => Level(p, passed'[t], cfg') /\ Level(next, passed'[t], cfg')
    BY <1>1, <2>1, <2>3 DEF Level
  <2> QED
    BY <1>1, <2>1, <2>2, <2>4, LeaveInv
<1> QED
  BY <1>2, <1>3 DEF Address, Email

LEMMA ReceiveInv ==
  ASSUME IInv, NEW h \in Handlers, Receive(h) PROVE IInv'
<1> DEFINE v == [req[h] EXCEPT !.pc = "wait", !.on = ch[Kind(req[h].page)]]
<1>1. /\ TypeOK /\ TypeOK' /\ req[h] \in Req /\ req[h].pc = "recv"
      /\ UNCHANGED <<ch, feed, tab, cfg, shared, passed, seen>>
  BY ReceiveType, ReqFacts DEF IInv, Receive, hist
<1>2. /\ req' = [req EXCEPT ![h] = v] /\ req'[h] = v
      /\ v.page = req[h].page /\ v.tab = req[h].tab /\ v.pc = "wait"
      /\ v.on = ch[Kind(req[h].page)]
  BY <1>1, TypeParts DEF Receive, Req
<1>3. Live(h) /\ req[h].page \in {6, 10}
  BY <1>1, WorkerPage DEF Live
<1>4. ASSUME NEW k \in Kinds, k \notin shared', Kind(req[h].page) = k
      PROVE  InStep(h, k)' /\ \A g \in Handlers : Works(g, k) => g = h
  <2>1. Share(k) /\ Works(h, k)
    BY <1>1, <1>3, <1>4 DEF IInv, ShareInv, Works
  <2> QED
    BY <1>1, <1>2, <1>4, <2>1 DEF Share, InStep, Unfinished
<1> QED
  BY <1>1, <1>2, <1>3, <1>4, GoOnInv

\* A form is posted while nothing else of its window is under way.
LEMMA PostInv ==
  ASSUME IInv, NEW t \in Tabs, NEW h \in Handlers, Post(t, h) PROVE IInv'
<1>1. PICK p \in {tab[t].next, tab[t].this - 1, 1} \ {0} :
        req' = [req EXCEPT ![h] = [NoReq EXCEPT !.pc = "route", !.tab = t, !.page = p]]
  BY DEF Post
<1>2. /\ TypeOK /\ TypeOK' /\ PageInv /\ LinkInv /\ ShareInv /\ SeenInv /\ RoomInv
      /\ UNCHANGED <<ch, feed, tab, cfg, shared, passed, seen>>
  BY PostType DEF IInv, Post, hist
<1>3. /\ req'[h].pc = "route" /\ req'[h].tab = t /\ req'[h].page = p /\ req'[h].on = 0
      /\ \A g \in Handlers : g # h => req'[g] = req[g]
  BY <1>1, <1>2, TypeParts DEF NoReq
<1>4. req[h].pc = "idle" /\ req[h] = NoReq
  BY <1>2 DEF Post, Active, PageInv, ReqPage
<1>5. \A g \in Handlers : req[g].tab # t
  BY <1>2, Constants, TabsAssumption DEF Post, Waiting, Active, PageInv, ReqPage
<1>6. Level(p, passed[t], cfg)
  <2>1. tab[t].this \in 1..13 /\ tab[t].next \in 1..13
    BY <1>2 DEF TypeOK, Pages
  <2>2. Level(tab[t].this, passed[t], cfg) /\ Level(tab[t].next, passed[t], cfg)
    BY <1>2 DEF PageInv, TabPage
  <2> QED
    BY <2>1, <2>2 DEF Level
<1>7. PageInv'
  <2>1. OneEach'
    BY <1>2, <1>3, <1>5 DEF PageInv, OneEach
  <2>2. \A g \in Handlers : ReqPage(g)'
    BY <1>2, <1>3, <1>6 DEF PageInv, ReqPage, Live
  <2> QED
    BY <1>2, <2>1, <2>2 DEF PageInv, TabPage
<1>8. LinkInv'
  <2>1. \A g \in Handlers : ReqLink(g)'
    BY <1>2, <1>3 DEF LinkInv, ReqLink
  <2> QED
    BY <1>2, <1>3, <2>1 DEF LinkInv, FeedLink, ChLink, EndedOnce
<1>9. ShareInv'
  <2>1. \A k \in Kinds, g \in Handlers : /\ Works(g, k)' <=> Works(g, k)
                                         /\ Works(g, k) => req'[g] = req[g]
    BY <1>3, <1>4, Constants DEF Works, Live
  <2> QED
    BY <1>2, <2>1 DEF ShareInv, Share, InStep, Unfinished
<1>10. SeenInv'
  BY <1>2 DEF SeenInv, SeenTab
<1>11. RoomInv'
  <2>1. Active' = Active \cup {h} /\ h \notin Active
    BY <1>3, <1>4 DEF Active
  <2>2. FreeTests' = FreeTests
    BY <1>2, <1>3, <1>4, Constants DEF FreeTests, Free
  <2>3. /\ IsFiniteSet(Active')
        /\ Cardinality(Active') = Cardinality(Active) + 1
    BY <1>2, <2>1, FS_AddElement DEF RoomInv
  <2>4. Cardinality(FreeTests) > Cardinality(Active)
    BY DEF Post, FreeTests
  <2>5. IsFiniteSet(FreeTests)
    <3>1. IsFiniteSet(Tests) /\ FreeTests \subseteq Tests
      BY FS_Interval, BoundsAssumption DEF Tests, FreeTests
    <3> QED
      BY <3>1, FS_Subset
  <2>6. Cardinality(FreeTests) \in Nat /\ Cardinality(Active) \in Nat
    BY <1>2, <2>5, FS_CardinalityType DEF RoomInv
  <2> QED
    BY <2>2, <2>3, <2>4, <2>6 DEF RoomInv
<1> QED
  BY <1>2, <1>7, <1>8, <1>9, <1>10, <1>11 DEF IInv

LEMMA TimeoutInv ==
  ASSUME IInv, NEW h \in Handlers, Timeout(h) PROVE IInv'
<1>1. /\ TypeOK /\ TypeOK' /\ PageInv /\ LinkInv /\ ShareInv /\ SeenInv /\ RoomInv
      /\ UNCHANGED <<ch, feed, tab, cfg, shared, passed, seen>>
  BY TimeoutType DEF IInv, Timeout
<1>2. /\ req'[h].tab = Nobody /\ req'[h].pc = req[h].pc /\ req'[h].page = req[h].page
      /\ req'[h].on = req[h].on /\ req[h].pc # "idle"
      /\ \A g \in Handlers : g # h => req'[g] = req[g]
  BY <1>1, ReqFacts DEF Timeout, TypeOK, Active
<1>3. PageInv'
  BY <1>1, <1>2, SamePage DEF PageInv, ReqPage, Live
<1>4. LinkInv'
  BY <1>1, <1>2 DEF LinkInv, FeedLink, ChLink, ReqLink, EndedOnce
<1>5. ShareInv'
  <2>1. \A k \in Kinds, g \in Handlers :
           /\ Works(g, k)' <=> Works(g, k)
           /\ req'[g].pc = req[g].pc /\ req'[g].on = req[g].on
    BY <1>2 DEF Works, Live
  <2>2. \A k \in Kinds, g \in Handlers : InStep(g, k)' <=> InStep(g, k)
    BY <1>1, <2>1 DEF InStep, Unfinished
  <2> QED
    BY <1>1, <2>1, <2>2 DEF ShareInv, Share, Unfinished
<1>6. SeenInv'
  BY <1>1 DEF SeenInv, SeenTab
<1>7. RoomInv'
  <2>1. \A n \in Tests : Free(n) => Free(n)'
    BY <1>1, <1>2 DEF Free
  <2>2. Active' \subseteq Active
    BY <1>2 DEF Active
  <2> QED
    BY <1>1, <2>1, <2>2, RoomKept
<1> QED
  BY <1>1, <1>3, <1>4, <1>5, <1>6, <1>7 DEF IInv

\* The script prints, or ends.
LEMMA ScriptInv ==
  ASSUME IInv, TypeOK', NEW n \in Tests, feed[n].pc = "read", NEW v,
         feed' = [feed EXCEPT ![n] = v], v.kind = feed[n].kind,
         v.pc \in {"send", "final"}, feed[n].rslt \subseteq v.rslt,
         v.ok /\ v.kind = "crt" => cfg.name /\ cfg.email,
         UNCHANGED <<ch, req, tab, cfg, shared, passed, seen>>
  PROVE  IInv'
<1>1. TypeOK /\ PageInv /\ LinkInv /\ ShareInv /\ SeenInv /\ RoomInv
  BY DEF IInv
<1>2. feed'[n] = v /\ \A m \in Tests : m # n => feed'[m] = feed[m]
  BY <1>1, TypeParts
<1>3. \A m \in Tests : /\ feed'[m].kind = feed[m].kind
                       /\ feed'[m].pc = "none" <=> feed[m].pc = "none"
                       /\ feed[m].pc = "ended" => feed'[m].pc = "ended"
                       /\ Unfinished(m)' <=> Unfinished(m)
  BY <1>2 DEF Unfinished
<1>4. /\ \A k \in Kinds : ch[k] \in Tests \cup {0}
      /\ \A h \in Handlers : req[h].on \in Tests \cup {0}
  BY <1>1, Constants, ReqFacts DEF TypeOK
<1>5. LinkInv'
  <2>1. \A m \in Tests : FeedLink(m)'
    BY <1>1, <1>2 DEF LinkInv, FeedLink
  <2>2. (\A k \in Kinds : ChLink(k)') /\ \A h \in Handlers : ReqLink(h)'
    BY <1>1, <1>3, <1>4 DEF LinkInv, ChLink, ReqLink
  <2>3. EndedOnce'
    BY <1>1 DEF LinkInv, EndedOnce
  <2> QED
    BY <2>1, <2>2, <2>3 DEF LinkInv
<1>6. ShareInv'
  <2> SUFFICES ASSUME NEW k \in Kinds, k \notin shared PROVE Share(k)'
    BY DEF ShareInv
  <2>1. Share(k)
    BY <1>1 DEF ShareInv
  <2>2. \A g \in Handlers : Works(g, k)' <=> Works(g, k)
    BY DEF Works, Live
  <2>3. \A g \in Handlers : Works(g, k) => InStep(g, k)'
    BY <1>3, <1>4, <2>1 DEF Share, InStep
  <2> QED
    BY <1>3, <1>4, <2>1, <2>2, <2>3 DEF Share
<1>7. PageInv'
  BY <1>1 DEF PageInv, OneEach, TabPage, ReqPage, Live
<1>8. SeenInv'
  BY <1>1, <1>2, SeenKept
<1>9. RoomInv'
  <2>1. \A m \in Tests : Free(m) => Free(m)'
    BY <1>3 DEF Free
  <2>2. Active' = Active
    BY DEF Active
  <2> QED
    BY <1>1, <2>1, <2>2, RoomKept
<1> QED
  BY <1>5, <1>6, <1>7, <1>8, <1>9 DEF IInv

LEMMA OutputInv ==
  ASSUME IInv, NEW n \in Tests, Output(n) \/ Exit(n) PROVE IInv'
<1>1. TypeOK /\ feed[n] \in Feed /\ feed[n].pc = "read" /\ FeedLink(n)
      /\ UNCHANGED <<ch, req, tab, cfg, shared, passed, seen>>
  BY FeedFacts DEF IInv, LinkInv, Output, Exit, hist
<1>2. CASE Output(n)
  <2> DEFINE v == [feed[n] EXCEPT !.pc = "send",
                                  !.rslt = feed[n].rslt \cup {Cardinality(feed[n].rslt) + 1}]
  <2>1. TypeOK' /\ feed' = [feed EXCEPT ![n] = v]
    BY <1>1, <1>2, OutputType
  <2>2. v.kind = feed[n].kind /\ v.pc = "send" /\ v.ok = feed[n].ok /\ feed[n].rslt \subseteq v.rslt
    BY <1>1 DEF Feed
  <2> QED
    BY <1>1, <2>1, <2>2, ScriptInv DEF FeedLink
<1>3. CASE Exit(n)
  <2>1. PICK ok \in BOOLEAN :
           /\ ok /\ feed[n].kind = "crt" => cfg.name /\ cfg.email
           /\ feed' = [feed EXCEPT ![n] = [feed[n] EXCEPT !.pc = "final", !.ok = ok,
                          !.rslt = feed[n].rslt \cup {MaxOut + 1}]]
    BY <1>1, <1>3, ExitType
  <2> DEFINE v == [feed[n] EXCEPT !.pc = "final", !.ok = ok,
                                  !.rslt = feed[n].rslt \cup {MaxOut + 1}]
  <2>2. v.kind = feed[n].kind /\ v.pc = "final" /\ v.ok = ok /\ feed[n].rslt \subseteq v.rslt
    BY <1>1 DEF Feed
  <2>3. TypeOK'
    BY <1>1, <1>3, ExitType
  <2> QED
    BY <1>1, <2>1, <2>2, <2>3, ScriptInv
<1> QED
  BY <1>2, <1>3

\* A test is started over a channel that nobody has.
LEMMA StartTestInv ==
  ASSUME IInv, NEW h \in Handlers, StartTest(h) PROVE IInv'
<1> DEFINE k == Kind(req[h].page)
           n == CHOOSE i \in Tests : Free(i)
           v == [NoFeed EXCEPT !.kind = k, !.pc = "read"]
<1>1. /\ TypeOK /\ PageInv /\ LinkInv /\ ShareInv /\ SeenInv /\ RoomInv
      /\ req[h].pc = "make" /\ k \in Kinds /\ Live(h) /\ Works(h, k)
      /\ req[h].page \in {6, 10} /\ req[h].page \in Pages
      /\ UNCHANGED <<cfg, shared, passed>> /\ Goto(h, req[h].page)
  BY WorkerPage, ReqFacts DEF IInv, StartTest, Live, Works
<1>2. IsFiniteSet(FreeTests)
  <2>1. IsFiniteSet(Tests) /\ FreeTests \subseteq Tests
    BY FS_Interval, BoundsAssumption DEF Tests, FreeTests
  <2> QED
    BY <2>1, FS_Subset
<1>3. n \in Tests /\ Free(n)
  <2>1. h \in Active
    BY <1>1 DEF Active
  <2>2. Cardinality(Active) # 0 /\ Cardinality(Active) \in Nat
    BY <1>1, <2>1, FS_EmptySet, FS_CardinalityType DEF RoomInv
  <2>3. Cardinality(FreeTests) # 0
    BY <1>1, <1>2, <2>2, FS_CardinalityType DEF RoomInv
  <2>4. FreeTests # {}
    BY <2>3, FS_EmptySet
  <2> QED
    BY <2>4 DEF FreeTests
<1>4. /\ req'[h] = NoReq
      /\ \A g \in Handlers : g # h => req'[g] = req[g]
  BY <1>1, TypeParts DEF Goto
<1>5. /\ ch'[k] = n /\ \A j \in Kinds : j # k => ch'[j] = ch[j]
      /\ ch' \in [Kinds -> 0..MaxTests]
  BY <1>1, <1>3, Constants DEF StartTest, TypeOK
<1>6. v \in Feed /\ v.kind = k /\ v.pc = "read" /\ v.ok = FALSE
  BY <1>1 DEF Feed, FeedPcs, NoFeed
<1>7. /\ feed'[n] = v /\ \A m \in Tests : m # n => feed'[m] = feed[m]
      /\ feed' \in [Tests -> Feed]
  BY <1>1, <1>3, <1>6, TypeParts DEF StartTest
<1>8. seen' = [t \in Tabs |-> IF t = req[h].tab \/ seen[t].test = n THEN NoTest ELSE seen[t]]
  BY DEF StartTest
<1>9. TypeOK'
  <2>1. req' \in [Handlers -> Req] /\ tab' \in [Tabs -> Tab]
    BY <1>1, GotoType
  <2>2. seen' \in [Tabs -> Shown]
    BY <1>1, <1>8, Constants, TypeParts
  <2> QED
    BY <1>1, <1>5, <1>7, <2>1, <2>2, TypeParts, TypePartsNext
<1>10. PageInv'
  <2>1. req[h].tab \in Tabs => Level(req[h].page, passed[req[h].tab], cfg)
    BY <1>1, TabsAssumption DEF PageInv, ReqPage
  <2> QED
    BY <1>1, <2>1, GotoPage
<1>11. LinkInv'
  <2>1. \A m \in Tests : FeedLink(m)'
    BY <1>1, <1>6, <1>7 DEF LinkInv, FeedLink
  <2>2. ASSUME NEW j \in Kinds PROVE ChLink(j)'
    <3>1. j # k => ch[j] # n /\ ch[j] \in Tests \cup {0}
      BY <1>1, <1>3, Constants DEF Free, TypeOK
    <3>2. CASE j = k
      <4>1. ch'[j] = n /\ feed'[n].pc = "read" /\ feed'[n].kind = j
        BY <1>5, <1>6, <1>7, <3>2
      <4> QED
        BY <4>1 DEF ChLink
    <3>3. CASE j # k
      <4>1. ch'[j] = ch[j] /\ (ch[j] # 0 => feed'[ch[j]] = feed[ch[j]])
        BY <1>5, <1>7, <3>1, <3>3
      <4> QED
        BY <1>1, <4>1 DEF LinkInv, ChLink
    <3> QED
      BY <3>2, <3>3
  <2>3. ASSUME NEW g \in Handlers PROVE ReqLink(g)'
    <3>1. req[g].on # n /\ req[g].on \in Tests \cup {0}
      BY <1>1, <1>3, ReqFacts DEF Free
    <3> QED
      BY <1>1, <1>4, <1>7, <3>1, Constants DEF LinkInv, ReqLink
  <2>4. EndedOnce'
    BY <1>1, <1>4, Constants DEF LinkInv, EndedOnce
  <2> QED
    BY <2>1, <2>2, <2>3, <2>4 DEF LinkInv
<1>12. ShareInv'
  <2> SUFFICES ASSUME NEW j \in Kinds, j \notin shared PROVE Share(j)'
    BY <1>1 DEF ShareInv
  <2>1. Share(j)
    BY <1>1 DEF ShareInv
  <2>2. \A g \in Handlers : Works(g, j)' => g # h /\ Works(g, j) /\ req'[g] = req[g]
    BY <1>4, Constants DEF Works, Live
  <2>3. CASE j = k
    <3>1. ch[k] = 0 /\ \A g \in Handlers : ~Works(g, j)'
      BY <1>1, <2>1, <2>2, <2>3 DEF Share, InStep
    <3>2. \A m \in Tests : feed[m].pc # "none" => feed[m].kind # k
      BY <2>1, <2>3, <3>1, Constants DEF Share
    <3> QED
      BY <1>5, <1>6, <1>7, <2>3, <3>1, <3>2 DEF Share, Unfinished
  <2>4. CASE j # k
    <3>1. ch'[j] = ch[j] /\ ch[j] # n /\ ch[j] \in Tests \cup {0}
      BY <1>1, <1>3, <1>5, <2>4, Constants DEF Free, TypeOK
    <3>2. ch[j] # 0 => (Unfinished(ch[j])' <=> Unfinished(ch[j]))
      BY <1>7, <3>1 DEF Unfinished
    <3>3. \A g \in Handlers : Works(g, j) /\ req[g].pc = "ended" => Works(g, j)' /\ req'[g].pc = "ended"
      BY <1>1, <1>4 DEF Works, Live
    <3>4. \A m \in Tests : feed'[m].pc # "none" /\ feed'[m].kind = j => ch'[j] = m
      BY <1>6, <1>7, <2>1, <2>4, <3>1 DEF Share
    <3>5. \A g \in Handlers : Works(g, j)' => InStep(g, j)'
      BY <2>1, <2>2, <3>1, <3>2 DEF Share, InStep, Unfinished
    <3> QED
      BY <2>1, <2>2, <3>1, <3>2, <3>3, <3>4, <3>5 DEF Share, Unfinished
  <2> QED
    BY <2>3, <2>4
<1>13. SeenInv'
  <2> SUFFICES ASSUME NEW t \in Tabs PROVE SeenTab(t)'
    BY DEF SeenInv
  <2>1. CASE seen'[t] = NoTest
    BY <2>1, Constants DEF SeenTab
  <2>2. CASE seen'[t] = seen[t] /\ seen[t].test # n
    <3>1. seen[t].test \in Tests \cup {0}
      BY <1>1, Constants DEF TypeOK
    <3> QED
      BY <1>1, <1>7, <2>2, <3>1 DEF SeenInv, SeenTab
  <2> QED
    BY <1>8, <2>1, <2>2
<1>14. RoomInv'
  <2>1. Active' = Active \ {h} /\ h \in Active
    BY <1>1, <1>4, Constants DEF Active
  <2>2. FreeTests \ {n} \subseteq FreeTests' /\ n \in FreeTests
    BY <1>1, <1>3, <1>4, <1>5, <1>7, Constants DEF FreeTests, Free
  <2>3. /\ IsFiniteSet(Active') /\ Cardinality(Active') = Cardinality(Active) - 1
    BY <1>1, <2>1, FS_RemoveElement DEF RoomInv
  <2>4. /\ IsFiniteSet(FreeTests \ {n})
        /\ Cardinality(FreeTests \ {n}) = Cardinality(FreeTests) - 1
    BY <1>2, <2>2, FS_RemoveElement
  <2>5. IsFiniteSet(FreeTests')
    <3>1. IsFiniteSet(Tests) /\ FreeTests' \subseteq Tests
      BY FS_Interval, BoundsAssumption DEF Tests, FreeTests
    <3> QED
      BY <3>1, FS_Subset
  <2>6. Cardinality(FreeTests \ {n}) <= Cardinality(FreeTests')
    BY <2>2, <2>5, FS_Subset
  <2>7. /\ Cardinality(FreeTests) \in Nat /\ Cardinality(FreeTests') \in Nat
        /\ Cardinality(Active) \in Nat
    BY <1>1, <1>2, <2>5, FS_CardinalityType DEF RoomInv
  <2> QED
    BY <1>1, <2>3, <2>4, <2>6, <2>7 DEF RoomInv
<1> QED
  BY <1>9, <1>10, <1>11, <1>12, <1>13, <1>14 DEF IInv

\* A part of the output meets a receive, for the first time or the second.
LEMMA ProgressInv ==
  ASSUME IInv, NEW h \in Handlers, Progress(h) PROVE IInv'
<1> DEFINE n == req[h].on
           k == Kind(req[h].page)
<1>1. /\ TypeOK /\ TypeOK' /\ PageInv /\ LinkInv /\ ShareInv /\ SeenInv /\ RoomInv
      /\ req[h].pc = "wait" /\ n \in Tests /\ n # 0 /\ feed[n].pc = "send"
      /\ k \in Kinds /\ Live(h) /\ Works(h, k) /\ req[h].page \in Pages
      /\ UNCHANGED <<ch, cfg, shared, passed>>
  BY ProgressType, ReqFacts DEF IInv, Progress, Live, Works
<1>2. /\ feed'[n].pc = "read" /\ feed'[n].kind = feed[n].kind /\ feed'[n].ok = feed[n].ok
      /\ feed'[n].rslt = feed[n].rslt
      /\ \A m \in Tests : m # n => feed'[m] = feed[m]
  BY <1>1, FeedFacts DEF Progress, TypeOK, Feed
<1>3. \A m \in Tests : /\ feed'[m].kind = feed[m].kind
                       /\ feed'[m].pc = "none" <=> feed[m].pc = "none"
                       /\ feed[m].pc = "ended" => feed'[m].pc = "ended"
                       /\ Unfinished(m)' <=> Unfinished(m)
                       /\ feed'[m].rslt = feed[m].rslt
  BY <1>1, <1>2 DEF Unfinished
<1>4. /\ \A j \in Kinds : ch[j] \in Tests \cup {0}
      /\ \A g \in Handlers : req[g].on \in Tests \cup {0}
  BY <1>1, Constants, ReqFacts DEF TypeOK
<1>5. /\ req'[h].on = 0 /\ req'[h].pc \in {"idle", "recv"}
      /\ req'[h].pc = "recv" => req'[h].page = req[h].page
      /\ \A g \in Handlers : g # h => req'[g] = req[g]
  BY <1>1, Constants, ReqFacts DEF Progress, ReplyWith, Goto, TypeOK, Req
<1>6. PageInv'
  <2>1. CASE req[h].round = 1
    <3>1. /\ UNCHANGED <<tab, passed>> /\ req'[h].tab = req[h].tab /\ req'[h].pc = "recv"
          /\ req'[h].page = req[h].page
      BY <1>1, <2>1, ReqFacts DEF Progress, TypeOK, Req
    <3>2. \A g \in Handlers :
            /\ req'[g].page = req[g].page /\ req'[g].tab \in {req[g].tab, Nobody}
            /\ req'[g].pc = "idle" => req'[g] = NoReq
            /\ req'[g].pc \notin {"idle", "route"} => req[g].page \in {6, 10}
      BY <1>1, <1>5, <3>1 DEF PageInv, ReqPage, Live
    <3> QED
      BY <1>1, <3>1, <3>2, SamePage
  <2>2. CASE req[h].round # 1
    <3>1. Goto(h, req[h].page)
      BY <2>2 DEF Progress, ReplyWith
    <3>2. req[h].tab \in Tabs => Level(req[h].page, passed[req[h].tab], cfg)
      BY <1>1, TabsAssumption DEF PageInv, ReqPage
    <3> QED
      BY <1>1, <3>1, <3>2, GotoPage
  <2> QED
    BY <2>1, <2>2
<1>7. LinkInv'
  <2>1. \A m \in Tests : FeedLink(m)'
    BY <1>1, <1>2 DEF LinkInv, FeedLink
  <2>2. \A j \in Kinds : ChLink(j)'
    BY <1>1, <1>3, <1>4 DEF LinkInv, ChLink
  <2>3. \A g \in Handlers : ReqLink(g)'
    BY <1>1, <1>3, <1>4, <1>5 DEF LinkInv, ReqLink
  <2>4. EndedOnce'
    BY <1>1, <1>5 DEF LinkInv, EndedOnce
  <2> QED
    BY <2>1, <2>2, <2>3, <2>4 DEF LinkInv
<1>8. ShareInv'
  <2> SUFFICES ASSUME NEW j \in Kinds, j \notin shared PROVE Share(j)'
    BY <1>1 DEF ShareInv
  <2>1. Share(j)
    BY <1>1 DEF ShareInv
  <2>2. \A g \in Handlers : Works(g, j)' => Works(g, j)
    BY <1>1, <1>5 DEF Works, Live
  <2>3. \A g \in Handlers : Works(g, j) /\ req[g].pc = "ended" => Works(g, j)' /\ req'[g] = req[g]
    BY <1>1, <1>5 DEF Works, Live
  <2>4. ASSUME NEW g \in Handlers, Works(g, j)' PROVE InStep(g, j)'
    <3>1. InStep(g, j) /\ Works(g, j)
      BY <2>1, <2>2, <2>4 DEF Share
    <3>2. CASE g # h
      BY <1>1, <1>3, <1>4, <1>5, <3>1, <3>2 DEF InStep
    <3>3. CASE g = h
      <4>1. req'[h].pc = "recv" /\ ch[j] # 0 /\ Unfinished(ch[j])
        BY <1>1, <1>5, <2>4, <3>1, <3>3 DEF Works, Live, InStep
      <4> QED
        BY <1>1, <1>3, <1>4, <3>3, <4>1 DEF InStep
    <3> QED
      BY <3>2, <3>3
  <2> QED
    BY <1>1, <1>3, <1>4, <2>1, <2>2, <2>3, <2>4 DEF Share
<1>9. SeenInv'
  <2>1. ASSUME NEW t \in Tabs PROVE SeenTab(t)'
    <3>1. seen'[t] = seen[t] \/ seen'[t] = [test |-> n, rslt |-> feed[n].rslt]
      BY DEF Progress, ReplyWith, Show
    <3>2. seen[t].test \in Tests \cup {0}
      BY <1>1, Constants DEF TypeOK
    <3> QED
      BY <1>1, <1>3, <3>1, <3>2 DEF SeenInv, SeenTab
  <2> QED
    BY <2>1 DEF SeenInv
<1>10. RoomInv'
  <2>1. \A m \in Tests : Free(m) => Free(m)'
    BY <1>1, <1>3, <1>5, Constants DEF Free
  <2>2. Active' \subseteq Active
    BY <1>1, <1>5 DEF Active
  <2> QED
    BY <1>1, <2>1, <2>2, RoomKept
<1> QED
  BY <1>1, <1>6, <1>7, <1>8, <1>9, <1>10 DEF IInv

\* The last result meets a receive.
LEMMA FinalInv ==
  ASSUME IInv, NEW h \in Handlers, Final(h) PROVE IInv'
<1> DEFINE n == req[h].on
           k == Kind(req[h].page)
<1>1. /\ TypeOK /\ TypeOK' /\ PageInv /\ LinkInv /\ ShareInv /\ SeenInv /\ RoomInv
      /\ req[h].pc = "wait" /\ n \in Tests /\ n # 0 /\ feed[n].pc = "final"
      /\ k \in Kinds /\ Live(h) /\ Works(h, k) /\ feed[n].kind = k
      /\ UNCHANGED <<ch, tab, cfg, shared, passed, seen>>
  BY FinalType, ReqFacts DEF IInv, Final, Live, Works, LinkInv, ReqLink, hist
<1>2. /\ feed'[n].pc = "ended" /\ feed'[n].kind = k /\ feed'[n].ok = feed[n].ok
      /\ feed'[n].rslt = feed[n].rslt
      /\ \A m \in Tests : m # n => feed'[m] = feed[m]
  BY <1>1, FeedFacts DEF Final, TypeOK, Feed
<1>3. /\ req'[h].pc = "ended" /\ req'[h].on = n /\ req'[h].page = req[h].page
      /\ req'[h].tab = req[h].tab
      /\ \A g \in Handlers : g # h => req'[g] = req[g]
  BY <1>1, ReqFacts DEF Final, TypeOK, Req
<1>4. /\ \A j \in Kinds : ch[j] \in Tests \cup {0}
      /\ \A g \in Handlers : req[g].on \in Tests \cup {0}
  BY <1>1, Constants, ReqFacts DEF TypeOK
<1>5. PageInv'
  <2>1. \A g \in Handlers :
          /\ req'[g].page = req[g].page /\ req'[g].tab \in {req[g].tab, Nobody}
          /\ req'[g].pc = "idle" => req'[g] = NoReq
          /\ req'[g].pc \notin {"idle", "route"} => req[g].page \in {6, 10}
    BY <1>1, <1>3 DEF PageInv, ReqPage, Live
  <2> QED
    BY <1>1, <2>1, SamePage
<1>6. LinkInv'
  <2>1. \A m \in Tests : FeedLink(m)'
    BY <1>1, <1>2 DEF LinkInv, FeedLink
  <2>2. \A j \in Kinds : ChLink(j)'
    BY <1>1, <1>2, <1>4 DEF LinkInv, ChLink
  <2>3. ASSUME NEW g \in Handlers, g # h PROVE ReqLink(g)'
    <3>1. req[g].on # 0 => feed'[req[g].on].kind = feed[req[g].on].kind
      BY <1>1, <1>2, <1>4
    <3>2. req[g].pc = "ended" => req[g].on # n
      BY <1>1, <2>3 DEF LinkInv, ReqLink
    <3> QED
      BY <1>1, <1>2, <1>3, <1>4, <2>3, <3>1, <3>2 DEF LinkInv, ReqLink
  <2>4. ReqLink(h)'
    BY <1>1, <1>2, <1>3 DEF ReqLink
  <2>5. EndedOnce'
    BY <1>1, <1>3 DEF LinkInv, ReqLink, EndedOnce
  <2> QED
    BY <2>1, <2>2, <2>3, <2>4, <2>5 DEF LinkInv
<1>7. ShareInv'
  <2> SUFFICES ASSUME NEW j \in Kinds, j \notin shared PROVE Share(j)'
    BY <1>1 DEF ShareInv
  <2>1. Share(j)
    BY <1>1 DEF ShareInv
  <2>2. \A g \in Handlers : Works(g, j)' <=> Works(g, j)
    BY <1>1, <1>3 DEF Works, Live
  <2>3. \A m \in Tests : feed'[m].pc # "none" /\ feed'[m].kind = j => ch'[j] = m
    BY <1>1, <1>2, <2>1 DEF Share
  <2>4. CASE j = k
    <3>1. ch[j] = n /\ Works(h, j) /\ \A g \in Handlers : Works(g, j) => g = h
      BY <1>1, <2>1, <2>4 DEF Share, InStep
    <3>2. InStep(h, j)'
      BY <1>1, <1>3, <3>1 DEF InStep
    <3>3. Works(h, j)' /\ req'[h].pc = "ended"
      BY <1>3, <2>2, <3>1
    <3>4. \A g \in Handlers : Works(g, j)' => InStep(g, j)'
      BY <2>2, <3>1, <3>2
    <3> QED
      BY <2>1, <2>2, <2>3, <2>4, <3>1, <3>3, <3>4 DEF Share
  <2>5. CASE j # k
    <3>1. ch[j] # n
      BY <1>1, <1>4, <2>5 DEF LinkInv, ChLink
    <3>2. ch[j] # 0 => (Unfinished(ch[j])' <=> Unfinished(ch[j]))
      BY <1>1, <1>2, <1>4, <3>1 DEF Unfinished
    <3>3. \A g \in Handlers : Works(g, j) => g # h /\ req'[g] = req[g]
      BY <1>1, <1>3, <2>5 DEF Works
    <3>4. \A g \in Handlers : Works(g, j)' => InStep(g, j)'
      BY <1>1, <2>1, <2>2, <3>2, <3>3 DEF Share, InStep
    <3> QED
      BY <1>1, <2>1, <2>2, <2>3, <3>2, <3>3, <3>4 DEF Share
  <2> QED
    BY <2>4, <2>5
<1>8. SeenInv'
  <2>1. \A m \in Tests : \/ feed'[m].pc = "none"
                         \/ /\ feed[m].pc # "none"
                            /\ feed[m].rslt \subseteq feed'[m].rslt
    BY <1>1, <1>2
  <2> QED
    BY <1>1, <2>1, SeenKept
<1>9. RoomInv'
  <2>1. \A m \in Tests : Free(m) => Free(m)'
    BY <1>1, <1>2, <1>3 DEF Free
  <2>2. Active' \subseteq Active
    BY <1>1, <1>3 DEF Active
  <2> QED
    BY <1>1, <2>1, <2>2, RoomKept
<1> QED
  BY <1>1, <1>5, <1>6, <1>7, <1>8, <1>9 DEF IInv

\* The page sets the global to nil and says how the test ended.
LEMMA EndedInv ==
  ASSUME IInv, NEW h \in Handlers, Ended(h) PROVE IInv'
<1> DEFINE n == req[h].on
           k == Kind(req[h].page)
           p == req[h].page
           t == req[h].tab
           next == IF feed[n].ok THEN p + 1 ELSE OnFailure[k]
<1>1. /\ TypeOK /\ PageInv /\ LinkInv /\ ShareInv /\ SeenInv /\ RoomInv
      /\ req[h].pc = "ended" /\ n \in Tests /\ n # 0 /\ feed[n].pc = "ended"
      /\ k \in Kinds /\ Live(h) /\ Works(h, k) /\ feed[n].kind = k /\ p \in {6, 10}
      /\ t \in Tabs \cup {Nobody}
      /\ UNCHANGED <<cfg, shared>>
  BY ReqFacts, WorkerPage DEF IInv, Ended, Live, Works, LinkInv, ReqLink
<1>2. TypeOK'
  BY <1>1, EndedType
<1>3. feed'[n] = NoFeed /\ \A m \in Tests : m # n => feed'[m] = feed[m]
  BY <1>1, TypeParts DEF Ended
<1>4. ch'[k] = 0 /\ \A j \in Kinds : j # k => ch'[j] = ch[j]
  BY <1>1, TypeParts DEF Ended
<1>5. /\ req'[h] = NoReq
      /\ \A g \in Handlers : g # h => req'[g] = req[g]
  BY <1>1, TypeParts DEF Ended, ReplyWith, Goto
<1>6. /\ \A j \in Kinds : ch[j] \in Tests \cup {0}
      /\ \A g \in Handlers : req[g].on \in Tests \cup {0}
  BY <1>1, Constants, ReqFacts DEF TypeOK
<1>7. PageInv'
  <2>1. Goto(h, next)
    BY DEF Ended, ReplyWith
  <2>2. next \in Pages /\ (~feed[n].ok => next \in {4, 9} /\ next <= p)
    BY <1>1 DEF Pages, OnFailure, Kind
  <2>3. t \in Tabs => Level(p, passed[t], cfg)
    BY <1>1, TabsAssumption DEF PageInv, ReqPage
  <2>4. \A u \in Tabs : u # t => passed'[u] = passed[u]
    BY DEF Ended, Tell
  <2>5. CASE feed[n].ok
    <3>1. t \in Tabs => passed'[t] = passed[t] \cup {k}
      BY <2>5 DEF Ended, Tell, Told
    <3>2. p = 6 => k = "fw"
      BY DEF Kind
    <3>3. p = 10 => k = "crt" /\ cfg.name /\ cfg.email
      BY <1>1, <2>5 DEF Kind, LinkInv, FeedLink
    <3>4. t \in Tabs => Level(p, passed'[t], cfg') /\ Level(next, passed'[t], cfg')
      BY <1>1, <2>3, <2>5, <3>1, <3>2, <3>3 DEF Level
    <3> QED
      BY <1>1, <2>1, <2>2, <2>4, <3>4, GotoPage
  <2>6. CASE ~feed[n].ok
    <3>1. UNCHANGED passed
      BY <2>6 DEF Ended
    <3>2. t \in Tabs => Level(next, passed[t], cfg)
      BY <1>1, <2>2, <2>3, <2>6 DEF Level
    <3> QED
      BY <1>1, <2>1, <2>2, <2>3, <3>1, <3>2, GotoPage
  <2> QED
    BY <2>5, <2>6
<1>8. LinkInv'
  <2>1. \A m \in Tests : FeedLink(m)'
    BY <1>1, <1>3, Constants DEF LinkInv, FeedLink
  <2>2. ASSUME NEW j \in Kinds PROVE ChLink(j)'
    <3>1. j # k => ch[j] # n
      BY <1>1 DEF LinkInv, ChLink
    <3>2. CASE j = k
      <4>1. ch'[j] = 0
        BY <1>4, <3>2
      <4> QED
        BY <4>1 DEF ChLink
    <3>3. CASE j # k
      <4>1. ch'[j] = ch[j] /\ (ch[j] # 0 => feed'[ch[j]] = feed[ch[j]])
        BY <1>3, <1>4, <1>6, <3>1, <3>3
      <4> QED
        BY <1>1, <4>1 DEF LinkInv, ChLink
    <3> QED
      BY <3>2, <3>3
  <2>3. ASSUME NEW g \in Handlers, g # h PROVE ReqLink(g)'
    <3>1. req[g].pc = "ended" => req[g].on # n
      BY <1>1, <2>3 DEF LinkInv, EndedOnce
    <3> QED
      BY <1>1, <1>3, <1>5, <1>6, <2>3, <3>1, Constants DEF LinkInv, ReqLink
  <2>4. ReqLink(h)'
    BY <1>5, Constants DEF ReqLink
  <2>5. EndedOnce'
    BY <1>1, <1>5, Constants DEF LinkInv, EndedOnce
  <2> QED
    BY <2>1, <2>2, <2>3, <2>4, <2>5 DEF LinkInv
<1>9. ShareInv'
  <2> SUFFICES ASSUME NEW j \in Kinds, j \notin shared PROVE Share(j)'
    BY <1>1 DEF ShareInv
  <2>1. Share(j)
    BY <1>1 DEF ShareInv
  <2>2. \A g \in Handlers : Works(g, j)' => g # h /\ Works(g, j) /\ req'[g] = req[g]
    BY <1>5, Constants DEF Works, Live
  <2>3. CASE j = k
    <3>1. ch[j] = n /\ \A g \in Handlers : Works(g, j) => g = h
      BY <1>1, <2>1, <2>3 DEF Share, InStep
    <3>2. \A m \in Tests : m # n => feed[m].pc = "none" \/ feed[m].kind # j
      BY <2>1, <3>1 DEF Share
    <3>3. \A m \in Tests : feed'[m].pc = "none" \/ feed'[m].kind # j
      BY <1>3, <3>2, Constants
    <3>4. ch'[j] = 0 /\ \A g \in Handlers : ~Works(g, j)'
      BY <1>4, <2>2, <2>3, <3>1
    <3> QED
      BY <3>3, <3>4 DEF Share
  <2>4. CASE j # k
    <3>1. ch'[j] = ch[j] /\ ch[j] # n
      BY <1>1, <1>4, <2>4 DEF LinkInv, ChLink
    <3>2. ch[j] # 0 => (Unfinished(ch[j])' <=> Unfinished(ch[j]))
      BY <1>3, <1>6, <3>1 DEF Unfinished
    <3>3. \A g \in Handlers : Works(g, j) => Works(g, j)' /\ req'[g] = req[g]
      BY <1>1, <1>5, <2>4 DEF Works, Live
    <3>4. \A m \in Tests : feed'[m].pc # "none" /\ feed'[m].kind = j => ch'[j] = m
      BY <1>3, <2>1, <3>1, Constants DEF Share
    <3>5. \A g \in Handlers : Works(g, j)' => InStep(g, j)'
      BY <2>1, <2>2, <3>1, <3>2 DEF Share, InStep
    <3> QED
      BY <2>1, <2>2, <3>1, <3>2, <3>3, <3>4, <3>5 DEF Share
  <2> QED
    BY <2>3, <2>4
<1>10. SeenInv'
  <2> SUFFICES ASSUME NEW u \in Tabs PROVE SeenTab(u)'
    BY DEF SeenInv
  <2>1. seen'[u] = seen[u] \/ seen'[u].test = n
    BY DEF Ended, ReplyWith, Show
  <2>2. seen[u].test \in Tests \cup {0}
    BY <1>1, Constants DEF TypeOK
  <2> QED
    BY <1>1, <1>3, <2>1, <2>2, Constants DEF SeenInv, SeenTab
<1>11. RoomInv'
  <2>1. \A m \in Tests : Free(m) => Free(m)'
    BY <1>1, <1>3, <1>4, <1>5, Constants DEF Free
  <2>2. Active' \subseteq Active
    BY <1>5, Constants DEF Active
  <2> QED
    BY <1>1, <2>1, <2>2, RoomKept
<1> QED
  BY <1>2, <1>7, <1>8, <1>9, <1>10, <1>11 DEF IInv

LEMMA RestartInv == IInv /\ Restart => IInv'
<1> SUFFICES ASSUME IInv, Restart PROVE IInv'
  OBVIOUS
<1>1. /\ TypeOK /\ PageInv /\ TypeOK' /\ RoomInv
      /\ \A h \in Handlers : req'[h] = NoReq
      /\ \A n \in Tests : feed'[n] = NoFeed
      /\ \A k \in Kinds : ch'[k] = 0
      /\ UNCHANGED <<tab, cfg, passed>>
  BY RestartType DEF IInv, Restart
<1>2. PageInv'
  BY <1>1, Constants DEF PageInv, OneEach, TabPage, ReqPage, Live
<1>3. LinkInv'
  BY <1>1, Constants DEF LinkInv, FeedLink, ChLink, ReqLink, EndedOnce
<1>4. ShareInv'
  BY <1>1, Constants DEF ShareInv, Share, Works, Live
<1>5. SeenInv'
  BY Constants DEF Restart, SeenInv, SeenTab
<1>6. RoomInv'
  <2>1. \A n \in Tests : Free(n)'
    BY <1>1, Constants DEF Free
  <2>2. Active' \subseteq Active
    BY <1>1, Constants DEF Active
  <2> QED
    BY <1>1, <2>1, <2>2, RoomKept
<1> QED
  BY <1>1, <1>2, <1>3, <1>4, <1>5, <1>6 DEF IInv

LEMMA NextInv == IInv /\ [Next]_vars => IInv'
<1> SUFFICES ASSUME IInv, [Next]_vars PROVE IInv'
  OBVIOUS
<1>1. CASE \E t \in Tabs, h \in Handlers : Post(t, h)
  BY <1>1, PostInv
<1>2. CASE \E h \in Handlers : Timeout(h)
  BY <1>2, TimeoutInv
<1>3. CASE \E h \in Handlers : Page(h)
  <2>1. PICK h \in Handlers : Page(h)
    BY <1>3
  <2>2. CASE \/ Plain(h) \/ Disable(h) \/ PickName(h) \/ SaveName(h)
             \/ TestApi(h) \/ Finish(h)
    BY <2>2, PageStep
  <2>3. CASE \/ LookForTest(h) \/ Address(h) \/ Email(h) \/ StartTest(h)
             \/ Receive(h) \/ Progress(h) \/ Final(h) \/ Ended(h)
    BY <2>3, LookForTestInv, PrepareInv, StartTestInv, ReceiveInv, ProgressInv,
       FinalInv, EndedInv
  <2> QED
    BY <2>1, <2>2, <2>3 DEF Page
<1>4. CASE \E n \in Tests : Script(n)
  BY <1>4, OutputInv DEF Script
<1>5. CASE Restart
  BY <1>5, RestartInv
<1>6. CASE UNCHANGED vars
  <2>1. UNCHANGED <<ch, feed, req, tab, cfg, shared, passed, seen>>
    BY <1>6 DEF vars, hist
  <2>2. Active' = Active /\ FreeTests' = FreeTests
    BY <2>1 DEF Active, FreeTests, Free
  <2>3. PageInv' /\ LinkInv'
    BY <2>1 DEF IInv, PageInv, OneEach, TabPage, ReqPage, Live, LinkInv, FeedLink,
       ChLink, ReqLink, EndedOnce
  <2>4. ShareInv'
    BY <2>1 DEF IInv, ShareInv, Share, Works, Live, InStep, Unfinished
  <2> QED
    BY <2>1, <2>2, <2>3, <2>4 DEF IInv, TypeOK, SeenInv, SeenTab, RoomInv
<1> QED
  BY <1>1, <1>2, <1>3, <1>4, <1>5, <1>6 DEF Next

LEMMA InvCorrect == Spec => []IInv
<1>1. Init => IInv
  BY InitInv
<1>2. IInv /\ [Next]_vars => IInv'
  BY NextInv
<1> QED
  BY <1>1, <1>2, PTL DEF Spec

-----------------------------------------------------------------------------
(* The theorems                                                            *)

\* Every channel, request and form keeps its type; a test that is started finds a
\* channel that nobody else holds.
THEOREM TypeCorrect == Spec => []TypeOK
<1>1. IInv => TypeOK
  BY DEF IInv
<1> QED
  BY <1>1, InvCorrect, PTL

\* No way through the pages, with failures, requests that were given up and
\* restarts, leads a window to page 13 before it was told of all three successes.
THEOREM CheckedCorrect == Spec => []CheckedBefore13
<1>1. IInv => CheckedBefore13
  BY Consequences
<1> QED
  BY <1>1, InvCorrect, PTL

\* Unless two requests met on one kind of test, the test and the request that
\* asks for its progress find each other at the channel in the global.
THEOREM ChannelCorrect == Spec => []NobodyAlone
<1>1. IInv => NobodyAlone
  BY Consequences
<1> QED
  BY <1>1, InvCorrect, PTL

\* What becomes of the output that a window shows.
LEMMA SeenStep ==
  ASSUME Next, NEW t \in Tabs, IInv
  PROVE  \/ seen'[t] = seen[t]
         \/ seen'[t] = NoTest
         \/ \E h \in Handlers :
              /\ Progress(h) \/ Ended(h)
              /\ seen'[t] = [test |-> req[h].on, rslt |-> feed[req[h].on].rslt]
<1>1. CASE \E u \in Tabs, h \in Handlers : Post(u, h)
  BY <1>1 DEF Post, hist
<1>2. CASE \E h \in Handlers : Timeout(h)
  BY <1>2 DEF Timeout
<1>3. CASE \E h \in Handlers : Page(h)
  <2>1. PICK h \in Handlers : Page(h)
    BY <1>3
  <2>3. (\E next : Reply(h, next)) => seen'[t] = seen[t] \/ seen'[t] = NoTest
    BY DEF Reply, Show
  <2>4. CASE \/ Plain(h) \/ Disable(h) \/ PickName(h) \/ SaveName(h)
             \/ TestApi(h) \/ Finish(h)
    BY <2>4, <2>3 DEF Plain, Disable, PickName, SaveName, TestApi, Finish
  <2>5. CASE Address(h) \/ Email(h)
    BY <2>5, <2>3 DEF Address, Email
  <2>6. CASE LookForTest(h) \/ Receive(h) \/ Final(h)
    BY <2>6 DEF LookForTest, Receive, Final, hist
  <2>7. CASE StartTest(h)
    BY <2>7 DEF StartTest
  <2>8. CASE Progress(h)
    BY <2>8 DEF Progress, ReplyWith, Show
  <2>9. CASE Ended(h)
    BY <2>9 DEF Ended, ReplyWith, Show
  <2> QED
    BY <2>1, <2>4, <2>5, <2>6, <2>7, <2>8, <2>9 DEF Page
<1>4. CASE \E n \in Tests : Script(n)
  BY <1>4 DEF Script, Output, Exit, hist
<1>5. CASE Restart
  BY <1>5 DEF Restart
<1> QED
  BY <1>1, <1>2, <1>3, <1>4, <1>5 DEF Next

\* The output of a test that a window shows only grows, whoever else is shown
\* parts of it.
THEOREM OutputCorrect == Spec => OutputGrows
<1> DEFINE Grows(t) ==
      LET old == seen[t] new == seen'[t] IN
      new.test = old.test /\ new.test # 0 => old.rslt \subseteq new.rslt
<1>1. ASSUME IInv, Next, NEW t \in Tabs PROVE Grows(t)
  <2> SUFFICES ASSUME seen'[t].test = seen[t].test, seen[t].test # 0
               PROVE  seen[t].rslt \subseteq seen'[t].rslt
    OBVIOUS
  <2>1. CASE seen'[t] = seen[t]
    BY <2>1
  <2>2. CASE seen'[t] = NoTest
    BY <2>2 DEF NoTest
  <2>3. ASSUME NEW h \in Handlers,
               Progress(h) \/ Ended(h),
               seen'[t] = [test |-> req[h].on, rslt |-> feed[req[h].on].rslt]
        PROVE  seen[t].rslt \subseteq seen'[t].rslt
    <3>1. seen[t].test = req[h].on /\ seen'[t].rslt = feed[req[h].on].rslt
      BY <2>3
    <3>2. req[h].on \in Tests /\ feed[req[h].on].pc # "none"
      BY <1>1, <2>3, <3>1 DEF Progress, Ended, IInv, LinkInv, ReqLink, TypeOK, Tests
    <3> QED
      BY <1>1, <3>1, <3>2 DEF IInv, SeenInv, SeenTab
  <2> QED
    BY <1>1, <2>1, <2>2, <2>3, SeenStep
<1>2. IInv /\ [Next]_vars => [\A t \in Tabs : Grows(t)]_seen
  BY <1>1 DEF vars, hist
<1>3. IInv /\ [Next]_vars =>
        [\A t \in Tabs :
            LET old == seen[t] new == seen'[t] IN
            new.test = old.test /\ new.test # 0 => old.rslt \subseteq new.rslt]_seen
  BY <1>2
<1> QED
  BY <1>3, InvCorrect, PTL DEF Spec, OutputGrows
=============================================================================
