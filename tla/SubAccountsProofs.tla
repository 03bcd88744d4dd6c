-------------------------- MODULE SubAccountsProofs --------------------------
(***************************************************************************)
(* Theorems about SubAccounts, for any accounts, numbers, servers and      *)
(* goroutines: its types, and its four action properties.                  *)
(*                                                                         *)
(* A refresh that no other one has met goes through phases, and each phase *)
(* knows what the ones before it have left in the tables; as soon as it    *)
(* meets another one nothing is known of it.                               *)
(***************************************************************************)
EXTENDS SubAccounts, WellFoundedInduction, TLAPS

\* A nonempty set of keys has a least one: the loops of a refresh take one of
\* their list at a time.
LEMMA LeastIn ==
  ASSUME NEW S, S \subseteq Nat, S # {}
  PROVE  Least(S) \in S
<1>1. PICK x \in S : \A y \in S : ~(<<y, x>> \in OpToRel(<, Nat))
  BY NatLessThanWellFounded, WFMin
<1>2. \A y \in S : x <= y
  <2> SUFFICES ASSUME NEW y \in S PROVE x <= y
    OBVIOUS
  <2>1. ~(y < x)
    BY <1>1 DEF OpToRel
  <2> QED
    BY <2>1
<1> QED
  BY <1>1, <1>2 DEF Least

\* What the list holds at a step
ListOK(step, list) ==
    /\ step = "insert did" => list \subseteq Dids
    /\ step \in {"delete pops", "insert pop"} => list \subseteq Pops
    /\ step \in {"insert tsubacct", "filepasswd", "mv", "uuid"} => list \subseteq Accounts
ListsOK == \A p \in Refreshers : ListOK(run[p].pc, run[p].list)

Typed == TypeOK /\ ListsOK

LEMMA InitTyped == Init => Typed
<1> SUFFICES ASSUME Init PROVE Typed
  OBVIOUS
<1>1. Idle \in Run /\ Nothing \in [Accounts -> CallerIds \cup {None}]
  BY DEF Idle, Run, Steps, Nothing
<1>2. run \in [Refreshers -> Run] /\ ListsOK
  BY <1>1 DEF Init, ListsOK, ListOK, Idle
<1>3. DOMAIN subacct = {} /\ subacct \in [DOMAIN subacct -> SubAcct]
  <2>1. subacct = [a \in {} |-> None]
    BY DEF Init
  <2> QED
    BY <2>1
<1>4. htpw \in (SUBSET Accounts) \cup {{NoFile}}
  <2>1. htpw = {NoFile}
    BY DEF Init
  <2>2. htpw \in {{NoFile}}
    BY <2>1
  <2> QED
    BY <2>2
<1>5. gone \subseteq Accounts
  BY DEF Init, Missing
<1>6. {overlaps, starts, faults, changes, applies, crashes} \subseteq Nat
  BY DEF Init
<1> QED
  BY <1>1, <1>2, <1>3, <1>4, <1>5, <1>6 DEF Init, Typed, TypeOK

RunTyped == run \in [Refreshers -> Run] /\ ListsOK

\* A goroutine moves on to another step.
LEMMA MoveTyped ==
  ASSUME RunTyped, NEW p \in Refreshers, NEW to \in Run, ListOK(to.pc, to.list),
         run' = [run EXCEPT ![p] = to]
  PROVE  RunTyped'
<1>1. run' \in [Refreshers -> Run]
  BY DEF RunTyped
<1>2. ASSUME NEW q \in Refreshers PROVE ListOK(run'[q].pc, run'[q].list)
  <2>1. CASE q = p
    BY <2>1 DEF RunTyped
  <2>2. CASE q # p
    BY <2>2 DEF RunTyped, ListsOK
  <2> QED
    BY <2>1, <2>2
<1> QED
  BY <1>1, <1>2 DEF RunTyped, ListsOK, ListOK

LEMMA GotoTyped ==
  ASSUME RunTyped, NEW p \in Refreshers, NEW step \in Steps, ListOK(step, run[p].list),
         Goto(p, step)
  PROVE  RunTyped'
<1> DEFINE to == [run[p] EXCEPT !.pc = step]
<1>1. to \in Run /\ to.pc = step /\ to.list = run[p].list
  BY DEF RunTyped, Run
<1>2. run' = [run EXCEPT ![p] = to]
  BY DEF Goto
<1> HIDE DEF to
<1> QED
  BY <1>1, <1>2, MoveTyped

LEMMA GotoWithTyped ==
  ASSUME RunTyped, NEW p \in Refreshers, NEW step \in Steps,
         NEW list \in SUBSET Nat, ListOK(step, list), GotoWith(p, step, list)
  PROVE  RunTyped'
<1> DEFINE to == [run[p] EXCEPT !.pc = step, !.list = list]
<1>1. to \in Run /\ to.pc = step /\ to.list = list
  BY DEF RunTyped, Run
<1>2. run' = [run EXCEPT ![p] = to]
  BY DEF GotoWith
<1> HIDE DEF to
<1> QED
  BY <1>1, <1>2, MoveTyped

LEMMA ReturnTyped ==
  ASSUME RunTyped, NEW p \in Refreshers, Return(p)
  PROVE  RunTyped'
<1>1. Idle \in Run /\ ListOK(Idle.pc, Idle.list)
  BY DEF Run, Idle, Steps, Nothing, ListOK
<1> QED
  BY <1>1, MoveTyped DEF Return

\* Every step of a refresh keeps the types of what the goroutines do.
LEMMA RefreshRuns ==
  ASSUME Typed, NEW p \in Refreshers, Refresh(p)
  PROVE  RunTyped'
<1>1. RunTyped /\ run[p] \in Run /\ ListOK(run[p].pc, run[p].list)
  BY DEF Typed, TypeOK, RunTyped, ListsOK
<1>2. /\ run[p].list \in SUBSET Nat /\ Rest(p) \in SUBSET Nat
      /\ Rest(p) \subseteq run[p].list
  BY <1>1 DEF Run, Rest
<1>3. Dids \in SUBSET Nat /\ Pops \in SUBSET Nat /\ {} \in SUBSET Nat
  BY NamesAssumption
<1>4. ASSUME NEW S, S \subseteq Accounts PROVE S \in SUBSET Nat
  BY <1>4, NamesAssumption
<1>5. /\ {"insert did", "getServersInfo", "delete pops", "insert pop", "drop"} \subseteq Steps
      /\ {"create", "getSubAccounts", "insert tsubacct", "append", "delete"} \subseteq Steps
      /\ {"update", "null filepasswd", "filepasswd", "script", "mv"} \subseteq Steps
      /\ {"null uuid", "uuid", "domain", "delete dids"} \subseteq Steps
  BY DEF Steps
<1>6. DOMAIN subacct \subseteq Accounts
  BY DEF Typed, TypeOK
<1>7. CASE Start(p)
  <2>1. ASSUME NEW lone \in BOOLEAN, NEW nofile \in BOOLEAN, NEW right \in BOOLEAN
        PROVE  [Idle EXCEPT !.pc = "delete dids", !.newpw = nofile, !.alone = lone,
                            !.met = ~lone, !.synced = right] \in Run
    BY <1>5 DEF Idle, Run, Nothing
  <2>2. \A q \in Refreshers :
            [run[q] EXCEPT !.alone = FALSE, !.met = ~At(q, "idle")] \in Run
    BY <1>1 DEF RunTyped, Run
  <2> DEFINE others == {q \in Refreshers \ {p} : ~At(q, "idle")}
  <2>5. [Idle EXCEPT !.pc = "delete dids", !.newpw = htpw = {NoFile},
                     !.alone = others = {}, !.met = others # {},
                     !.synced = ~unfiled \/ htpw = {NoFile}] \in Run
    BY <2>1
  <2>3. run' \in [Refreshers -> Run]
    BY <1>7, <2>5, <2>2 DEF Start
  <2>4. ASSUME NEW q \in Refreshers PROVE ListOK(run'[q].pc, run'[q].list)
    <3>1. CASE q = p
      <4>1. run'[q].pc = "delete dids"
        BY <1>7, <3>1 DEF Start, Idle
      <4> QED
        BY <4>1 DEF ListOK
    <3>2. CASE q # p
      <4>1. run'[q] = [run[q] EXCEPT !.alone = FALSE, !.met = ~At(q, "idle")]
        BY <1>7, <3>2 DEF Start
      <4>2. run'[q].pc = run[q].pc /\ run'[q].list = run[q].list
        BY <1>1, <4>1 DEF RunTyped, Run
      <4> QED
        BY <1>1, <4>2 DEF RunTyped, ListsOK
    <3> QED
      BY <3>1, <3>2
  <2> QED
    BY <2>3, <2>4 DEF RunTyped, ListsOK, ListOK
<1>8. CASE DeleteDids(p)
  <2>1. GotoWith(p, "insert did", Dids) /\ ListOK("insert did", Dids) /\ Dids \in SUBSET Nat
    BY <1>8, <1>1, <1>3, <1>4, <1>6 DEF DeleteDids, At, ListOK
  <2> QED
    BY <1>1, <1>5, <2>1, GotoWithTyped
<1>9. CASE InsertDid(p)
  <2>1. \/ Goto(p, "getServersInfo") /\ ListOK("getServersInfo", run[p].list)
        \/ GotoWith(p, "insert did", Rest(p)) /\ ListOK("insert did", Rest(p))
        \/ Return(p)
    BY <1>9, <1>1, <1>2 DEF InsertDid, At, ListOK
  <2> QED
    BY <1>1, <1>2, <1>5, <2>1, GotoTyped, GotoWithTyped, ReturnTyped
<1>10. CASE GetServers(p)
  <2>1. GotoWith(p, "delete pops", Pops) /\ ListOK("delete pops", Pops) /\ Pops \in SUBSET Nat
    BY <1>10, <1>1, <1>3, <1>4, <1>6 DEF GetServers, At, ListOK
  <2> QED
    BY <1>1, <1>5, <2>1, GotoWithTyped
<1>11. CASE GetServersErr(p)
  <2> DEFINE to == [run[p] EXCEPT !.pc = "delete pops", !.list = {}, !.alone = FALSE,
                                  !.blind = TRUE]
  <2>1. run' = [run EXCEPT ![p] = to]
    BY <1>11 DEF GetServersErr
  <2>2. to \in Run /\ to.pc = "delete pops" /\ to.list = {}
    BY <1>1, <1>3, <1>4, <1>5, <1>6 DEF Run, Typed, TypeOK, Existing
  <2> HIDE DEF to
  <2>3. ListOK(to.pc, to.list)
    BY <1>1, <1>6, <1>11, <2>2 DEF ListOK, GetServersErr, At, Existing
  <2> QED
    BY <1>1, <2>1, <2>2, <2>3, MoveTyped
<1>12. CASE DeletePops(p)
  <2>1. Goto(p, "insert pop") /\ ListOK("insert pop", run[p].list)
    BY <1>12, <1>1 DEF DeletePops, At, ListOK
  <2> QED
    BY <1>1, <1>5, <2>1, GotoTyped
<1>13. CASE InsertPop(p)
  <2>1. \/ Goto(p, "drop") /\ ListOK("drop", run[p].list)
        \/ GotoWith(p, "insert pop", Rest(p)) /\ ListOK("insert pop", Rest(p))
        \/ Return(p)
    BY <1>13, <1>1, <1>2 DEF InsertPop, At, ListOK
  <2> QED
    BY <1>1, <1>2, <1>5, <2>1, GotoTyped, GotoWithTyped, ReturnTyped
<1>14. CASE DropTemp(p)
  <2>1. Goto(p, "create") /\ ListOK("create", run[p].list)
    BY <1>14, <1>1 DEF DropTemp, At, ListOK
  <2> QED
    BY <1>1, <1>5, <2>1, GotoTyped
<1>15. CASE CreateTemp(p)
  <2>1. Return(p) \/ (Goto(p, "getSubAccounts") /\ ListOK("getSubAccounts", run[p].list))
    BY <1>15 DEF CreateTemp, ListOK
  <2> QED
    BY <1>1, <1>5, <2>1, GotoTyped, ReturnTyped
<1>16. CASE GetSubAccounts(p)
  <2> DEFINE to == [run[p] EXCEPT !.pc = "insert tsubacct", !.got = voip,
                                  !.list = Existing(voip)]
  <2>1. run' = [run EXCEPT ![p] = to]
    BY <1>16 DEF GetSubAccounts
  <2>2. to \in Run /\ to.pc = "insert tsubacct" /\ to.list = Existing(voip)
    BY <1>1, <1>3, <1>4, <1>5, <1>6 DEF Run, Typed, TypeOK, Existing
  <2> HIDE DEF to
  <2>3. ListOK(to.pc, to.list)
    BY <1>1, <1>6, <1>16, <2>2 DEF ListOK, GetSubAccounts, At, Existing
  <2> QED
    BY <1>1, <2>1, <2>2, <2>3, MoveTyped
<1>17. CASE InsertTemp(p)
  <2>1. \/ Goto(p, "append") /\ ListOK("append", run[p].list)
        \/ GotoWith(p, "insert tsubacct", Rest(p)) /\ ListOK("insert tsubacct", Rest(p))
        \/ Return(p)
    BY <1>17, <1>1, <1>2 DEF InsertTemp, At, ListOK
  <2> QED
    BY <1>1, <1>2, <1>5, <2>1, GotoTyped, GotoWithTyped, ReturnTyped
<1>18. CASE NoTemp(p)
  <2>1. Return(p)
    BY <1>18 DEF NoTemp
  <2> QED
    BY <1>1, <2>1, ReturnTyped
<1>19. CASE SetDomains(p)
  <2>1. Return(p)
    BY <1>19 DEF SetDomains
  <2> QED
    BY <1>1, <2>1, ReturnTyped
<1>20. CASE Fail(p)
  <2>1. Return(p)
    BY <1>20 DEF Fail
  <2> QED
    BY <1>1, <2>1, ReturnTyped
<1>21. CASE Append(p)
  <2>1. Goto(p, "delete") /\ ListOK("delete", run[p].list)
    BY <1>21, <1>1 DEF Append, At, ListOK
  <2> QED
    BY <1>1, <1>5, <2>1, GotoTyped
<1>22. CASE DeleteGone(p)
  <2> DEFINE to == [run[p] EXCEPT !.pc = "update",
                                  !.newpw = @ \/ DOMAIN subacct' # DOMAIN subacct]
  <2>1. run' = [run EXCEPT ![p] = to]
    BY <1>22 DEF DeleteGone
  <2>2. to \in Run /\ to.pc = "update" /\ to.list = run[p].list
    BY <1>1, <1>3, <1>4, <1>5, <1>6 DEF Run, Typed, TypeOK, Existing
  <2> HIDE DEF to
  <2>3. ListOK(to.pc, to.list)
    BY <1>1, <1>6, <1>22, <2>2 DEF ListOK, DeleteGone, At, Existing
  <2> QED
    BY <1>1, <2>1, <2>2, <2>3, MoveTyped
<1>23. CASE UpdateAll(p)
  <2>1. Goto(p, "null filepasswd") /\ ListOK("null filepasswd", run[p].list)
    BY <1>23, <1>1 DEF UpdateAll, At, ListOK
  <2> QED
    BY <1>1, <1>5, <2>1, GotoTyped
<1>24. CASE NullPasswd(p)
  <2> DEFINE null == {a \in DOMAIN subacct : ~subacct[a].filepasswd}
             to == [run[p] EXCEPT !.pc = "filepasswd", !.list = null,
                                  !.newpw = @ \/ null # {}]
  <2>1. run' = [run EXCEPT ![p] = to]
    BY <1>24 DEF NullPasswd
  <2>2. null \in SUBSET Nat /\ null \subseteq Accounts
    BY <1>4, <1>6
  <2>3. to \in Run /\ to.pc = "filepasswd" /\ to.list = null
    BY <1>1, <1>5, <2>2 DEF Run
  <2> HIDE DEF to
  <2>4. ListOK(to.pc, to.list)
    BY <2>2, <2>3 DEF ListOK
  <2> QED
    BY <1>1, <2>1, <2>3, <2>4, MoveTyped
<1>25. CASE SetPasswd(p)
  <2>1. \/ \E step \in {"script", "null uuid"} : Goto(p, step) /\ ListOK(step, run[p].list)
        \/ GotoWith(p, "filepasswd", Rest(p)) /\ ListOK("filepasswd", Rest(p))
    BY <1>25, <1>1, <1>2 DEF SetPasswd, At, ListOK
  <2> QED
    BY <1>1, <1>2, <1>5, <2>1, GotoTyped, GotoWithTyped
<1>26. CASE ScriptRead(p)
  <2>1. /\ GotoWith(p, "mv", DOMAIN subacct) /\ ListOK("mv", DOMAIN subacct)
        /\ DOMAIN subacct \in SUBSET Nat
    BY <1>26, <1>1, <1>3, <1>4, <1>6 DEF ScriptRead, At, ListOK
  <2> QED
    BY <1>1, <1>5, <2>1, GotoWithTyped
<1>27. CASE ScriptMv(p)
  <2>1. Goto(p, "null uuid") /\ ListOK("null uuid", run[p].list)
    BY <1>27, <1>1 DEF ScriptMv, At, ListOK
  <2> QED
    BY <1>1, <1>5, <2>1, GotoTyped
<1>28. CASE ScriptErr(p)
  <2> DEFINE to == [run[p] EXCEPT !.pc = "null uuid", !.alone = FALSE, !.synced = FALSE]
  <2>1. run' = [run EXCEPT ![p] = to]
    BY <1>28 DEF ScriptErr
  <2>2. to \in Run /\ to.pc = "null uuid" /\ to.list = run[p].list
    BY <1>1, <1>3, <1>4, <1>5, <1>6 DEF Run, Typed, TypeOK, Existing
  <2> HIDE DEF to
  <2>3. ListOK(to.pc, to.list)
    BY <1>1, <1>6, <1>28, <2>2 DEF ListOK, ScriptErr, At, Existing
  <2> QED
    BY <1>1, <2>1, <2>2, <2>3, MoveTyped
<1>29. CASE NullUuid(p)
  <2>1. PICK null \in SUBSET Nat : null \subseteq Accounts /\ GotoWith(p, "uuid", null)
    BY <1>29, <1>4, <1>6 DEF NullUuid
  <2>2. ListOK("uuid", null)
    BY <2>1 DEF ListOK
  <2> QED
    BY <1>1, <1>5, <2>1, <2>2, GotoWithTyped
<1>30. CASE SetUuid(p)
  <2>1. \/ Goto(p, "domain") /\ ListOK("domain", run[p].list)
        \/ GotoWith(p, "uuid", Rest(p)) /\ ListOK("uuid", Rest(p))
    BY <1>30, <1>1, <1>2 DEF SetUuid, At, ListOK
  <2> QED
    BY <1>1, <1>2, <1>5, <2>1, GotoTyped, GotoWithTyped
<1> QED
  BY <1>7, <1>8, <1>9, <1>10, <1>11, <1>12, <1>13, <1>14, <1>15, <1>16, <1>17, <1>18,
     <1>19, <1>20, <1>21, <1>22, <1>23, <1>24, <1>25, <1>26, <1>27, <1>28, <1>29, <1>30
     DEF Refresh

TablesTyped ==
    /\ dids \subseteq Dids /\ pops \subseteq Pops
    /\ tmade \in BOOLEAN
    /\ tsubacct \in [Accounts -> CallerIds \cup {None}]
    /\ ~tmade => tsubacct = Nothing
    /\ htpw \in (SUBSET Accounts) \cup {{NoFile}}
RowsTyped == DOMAIN subacct \subseteq Accounts /\ subacct \in [DOMAIN subacct -> SubAcct]

\* The first of the list, where a loop takes it
LEMMA FirstTyped ==
  ASSUME Typed, NEW p \in Refreshers, run[p].list # {}
  PROVE  Least(run[p].list) \in run[p].list
<1>1. run[p].list \subseteq Nat
  BY DEF Typed, TypeOK, Run
<1> QED
  BY <1>1, LeastIn

LEMMA RefreshTables ==
  ASSUME Typed, NEW p \in Refreshers, Refresh(p)
  PROVE  TablesTyped'
<1>1. TablesTyped /\ run[p] \in Run /\ ListOK(run[p].pc, run[p].list)
  BY DEF Typed, TypeOK, TablesTyped, ListsOK
<1>2. Nothing \in [Accounts -> CallerIds \cup {None}]
  BY DEF Nothing
<1>3. CASE UNCHANGED tables
  BY <1>1, <1>3 DEF tables, TablesTyped
<1>4. CASE DeleteDids(p) \/ DeletePops(p)
  BY <1>1, <1>4 DEF DeleteDids, DeletePops, TablesTyped
<1>5. CASE InsertDid(p) /\ ~UNCHANGED tables
  <2>1. run[p].list # {} /\ dids' = dids \cup {Least(run[p].list)}
    BY <1>5 DEF InsertDid, tables
  <2>2. Least(run[p].list) \in Dids
    BY <1>1, <1>5, <2>1, FirstTyped DEF InsertDid, At, ListOK
  <2> QED
    BY <1>1, <1>5, <2>1, <2>2 DEF InsertDid, TablesTyped
<1>6. CASE InsertPop(p) /\ ~UNCHANGED tables
  <2>1. run[p].list # {} /\ pops' = pops \cup {Least(run[p].list)}
    BY <1>6 DEF InsertPop, tables
  <2>2. Least(run[p].list) \in Pops
    BY <1>1, <1>6, <2>1, FirstTyped DEF InsertPop, At, ListOK
  <2> QED
    BY <1>1, <1>6, <2>1, <2>2 DEF InsertPop, TablesTyped
<1>7. CASE DropTemp(p)
  BY <1>1, <1>2, <1>7 DEF DropTemp, TablesTyped
<1>8. CASE CreateTemp(p)
  BY <1>1, <1>8 DEF CreateTemp, TablesTyped
<1>9. CASE InsertTemp(p) /\ ~UNCHANGED tables
  <2> DEFINE a == Least(run[p].list)
  <2>1. run[p].list # {} /\ tmade /\ tsubacct' = [tsubacct EXCEPT ![a] = run[p].got[a]]
    BY <1>9 DEF InsertTemp, tables
  <2>2. a \in Accounts /\ run[p].got[a] \in CallerIds \cup {None}
    BY <1>1, <1>9, <2>1, FirstTyped DEF InsertTemp, At, ListOK, Run
  <2> HIDE DEF a
  <2> QED
    BY <1>1, <1>9, <2>1, <2>2 DEF InsertTemp, TablesTyped
<1>10. CASE Append(p) \/ DeleteGone(p) \/ UpdateAll(p) \/ SetPasswd(p) \/ SetUuid(p)
            \/ SetDomains(p)
  BY <1>1, <1>10
     DEF Append, DeleteGone, UpdateAll, SetPasswd, SetUuid, SetDomains, TablesTyped
<1>11. CASE ScriptMv(p)
  <2>1. htpw' \in (SUBSET Accounts) \cup {{NoFile}}
    BY <1>1, <1>11 DEF ScriptMv, At, ListOK, TablesTyped
  <2> QED
    BY <1>1, <1>11, <2>1 DEF ScriptMv, TablesTyped
<1> QED
  BY <1>3, <1>4, <1>5, <1>6, <1>7, <1>8, <1>9, <1>10, <1>11
     DEF Refresh, Start, GetServers, GetServersErr, GetSubAccounts, NoTemp, NullPasswd,
         ScriptRead, ScriptErr, NullUuid, Fail

\* A statement that changes rows one by one
LEMMA RowsChanged ==
  ASSUME NEW S, S \subseteq Accounts, NEW F(_), \A a \in S : F(a) \in SubAcct,
         subacct' = [a \in S |-> F(a)]
  PROVE  RowsTyped'
<1>1. DOMAIN subacct' = S /\ subacct' \in [S -> SubAcct]
  OBVIOUS
<1> QED
  BY <1>1 DEF RowsTyped

LEMMA RefreshRows ==
  ASSUME Typed, NEW p \in Refreshers, Refresh(p)
  PROVE  RowsTyped'
<1>1. RowsTyped /\ TablesTyped
  BY DEF Typed, TypeOK, TablesTyped, RowsTyped
<1>2. CASE UNCHANGED subacct
  BY <1>1, <1>2 DEF RowsTyped
<1>3. CASE Append(p)
  <2> DEFINE S == DOMAIN subacct \cup Existing(tsubacct)
             F(a) == IF a \in DOMAIN subacct THEN subacct[a]
                     ELSE [accept |-> TRUE, set |-> FALSE, callerid |-> tsubacct[a],
                           domain |-> None, filepasswd |-> FALSE, uuid |-> FALSE]
  <2>1. S \subseteq Accounts /\ subacct' = [a \in S |-> F(a)]
    BY <1>1, <1>3 DEF Append, Existing, RowsTyped
  <2>2. ASSUME NEW a \in S PROVE F(a) \in SubAcct
    <3>1. CASE a \in DOMAIN subacct
      BY <1>1, <3>1 DEF RowsTyped
    <3>2. CASE a \notin DOMAIN subacct
      <4>1. tsubacct[a] \in CallerIds
        BY <1>1, <3>2 DEF Existing, TablesTyped
      <4> QED
        BY <3>2, <4>1 DEF SubAcct
    <3> QED
      BY <3>1, <3>2
  <2> HIDE DEF S, F
  <2>3. DOMAIN subacct' = S /\ subacct' \in [S -> SubAcct]
    BY <2>1, <2>2
  <2> QED
    BY <2>1, <2>3 DEF RowsTyped
<1>4. CASE DeleteGone(p)
  BY <1>1, <1>4 DEF DeleteGone, RowsTyped
<1>5. CASE UpdateAll(p)
  <2>1. \A a \in DOMAIN subacct : tsubacct[a] \in CallerIds \cup {None}
    BY <1>1 DEF RowsTyped, TablesTyped
  <2>2. \A a \in DOMAIN subacct : tsubacct[a] # None =>
            [subacct[a] EXCEPT !.callerid = tsubacct[a]] \in SubAcct
    BY <1>1, <2>1 DEF RowsTyped, SubAcct
  <2> QED
    BY <1>1, <1>5, <2>2 DEF UpdateAll, RowsTyped
<1>6. CASE SetPasswd(p)
  <2>1. \A a \in DOMAIN subacct : [subacct[a] EXCEPT !.filepasswd = TRUE] \in SubAcct
    BY <1>1 DEF RowsTyped, SubAcct
  <2> QED
    BY <1>1, <1>6, <2>1 DEF SetPasswd, RowsTyped
<1>7. CASE SetUuid(p)
  <2>1. \A a \in DOMAIN subacct : [subacct[a] EXCEPT !.uuid = TRUE] \in SubAcct
    BY <1>1 DEF RowsTyped, SubAcct
  <2> QED
    BY <1>1, <1>7, <2>1 DEF SetUuid, RowsTyped
<1>8. CASE SetDomains(p)
  <2>1. \A d : Domain(d) \in Pops \cup {None}
    BY NamesAssumption, <1>1 DEF Domain, TablesTyped
  <2>2. \A a \in DOMAIN subacct :
            [subacct[a] EXCEPT !.domain = Domain(subacct[a].callerid)] \in SubAcct
    BY <1>1, <2>1 DEF RowsTyped, SubAcct
  <2> QED
    BY <1>1, <1>8, <2>2 DEF SetDomains, RowsTyped
<1> QED
  BY <1>2, <1>3, <1>4, <1>5, <1>6, <1>7, <1>8
     DEF Refresh, Start, DeleteDids, InsertDid, GetServers, GetServersErr, DeletePops,
         InsertPop, DropTemp, CreateTemp, GetSubAccounts, InsertTemp, NoTemp, NullPasswd,
         ScriptRead, ScriptMv, ScriptErr, NullUuid, Fail, tables

\* What a refresh does to the history and to the counters
LEMMA RefreshWorld ==
  ASSUME Typed, NEW p \in Refreshers, Refresh(p)
  PROVE  /\ UNCHANGED <<voip, changes, applies, crashes>>
         /\ gone' = gone \/ gone' = Missing
         /\ unfiled' \in BOOLEAN
         /\ overlaps' = overlaps \/ overlaps' = overlaps + 1
         /\ starts' = starts \/ starts' = starts + 1
         /\ faults' = faults \/ faults' = faults + 1
<1>1. unfiled \in BOOLEAN /\ run[p].met \in BOOLEAN
  BY DEF Typed, TypeOK, Run
<1>2. CASE Start(p)
  BY <1>1, <1>2 DEF Start
<1>3. CASE GetServersErr(p) \/ ScriptErr(p) \/ Fail(p)
  BY <1>1, <1>3 DEF GetServersErr, ScriptErr, Fail
<1>4. CASE DeleteGone(p) \/ SetPasswd(p) \/ ScriptMv(p)
  BY <1>1, <1>4 DEF DeleteGone, SetPasswd, ScriptMv, limits
<1>5. CASE UNCHANGED <<voip, gone, unfiled, limits>>
  BY <1>1, <1>5 DEF limits
<1> QED
  BY <1>2, <1>3, <1>4, <1>5
     DEF Refresh, DeleteDids, InsertDid, GetServers, DeletePops, InsertPop, DropTemp,
         CreateTemp, GetSubAccounts, InsertTemp, NoTemp, Append, UpdateAll,
         NullPasswd, ScriptRead, NullUuid, SetUuid, SetDomains

LEMMA NextTyped == Typed /\ [Next]_vars => Typed'
<1> SUFFICES ASSUME Typed, [Next]_vars PROVE Typed'
  OBVIOUS
<1>1. RunTyped /\ TablesTyped /\ RowsTyped
  BY DEF Typed, TypeOK, RunTyped, TablesTyped, RowsTyped
<1>2. RunTyped' /\ TablesTyped' /\ RowsTyped'
  <2>1. CASE \E p \in Refreshers : Refresh(p)
    BY <2>1, RefreshRuns, RefreshTables, RefreshRows
  <2>2. CASE \E a \in Accounts, d \in CallerIds \cup {None} : ChangeVoip(a, d)
    <3>1. UNCHANGED tables
      BY <2>2 DEF ChangeVoip
    <3>2. run' = [p \in Refreshers |-> IF At(p, "idle") THEN Idle
                                       ELSE [run[p] EXCEPT !.alone = FALSE]]
      BY <2>2 DEF ChangeVoip
    <3>3. Idle \in Run /\ ListOK(Idle.pc, Idle.list)
      BY DEF Run, Idle, Steps, Nothing, ListOK
    <3>4. \A p \in Refreshers : /\ [run[p] EXCEPT !.alone = FALSE] \in Run
                                /\ [run[p] EXCEPT !.alone = FALSE].pc = run[p].pc
                                /\ [run[p] EXCEPT !.alone = FALSE].list = run[p].list
      BY <1>1 DEF RunTyped, Run
    <3>5. run' \in [Refreshers -> Run]
      BY <3>2, <3>3, <3>4
    <3>6. \A p \in Refreshers : ListOK(run'[p].pc, run'[p].list)
      BY <1>1, <3>2, <3>3, <3>4 DEF RunTyped, ListsOK
    <3> QED
      BY <1>1, <3>1, <3>5, <3>6 DEF tables, RunTyped, ListsOK, ListOK, TablesTyped, RowsTyped
  <2>3. CASE \E a \in Accounts, accept \in BOOLEAN : Apply(a, accept)
    <3>1. PICK a \in Accounts, accept \in BOOLEAN : Apply(a, accept)
      BY <2>3
    <3>2. a \in DOMAIN subacct /\ subacct[a] \in SubAcct
      BY <1>1, <3>1 DEF Apply, RowsTyped
    <3>3. [[subacct[a] EXCEPT !.accept = accept] EXCEPT !.set = TRUE] \in SubAcct
      BY <3>2 DEF SubAcct
    <3>4. RowsTyped'
      BY <1>1, <3>1, <3>2, <3>3 DEF Apply, RowsTyped
    <3>5. UNCHANGED <<run, dids, pops, tmade, tsubacct, htpw>>
      BY <3>1 DEF Apply
    <3> QED
      BY <1>1, <3>4, <3>5 DEF RunTyped, ListsOK, ListOK, TablesTyped
  <2>4. CASE Crash
    <3>1. Idle \in Run /\ ListOK(Idle.pc, Idle.list)
      BY DEF Run, Idle, Steps, Nothing, ListOK
    <3>2. run' \in [Refreshers -> Run] /\ \A p \in Refreshers : run'[p] = Idle
      BY <2>4, <3>1 DEF Crash
    <3>3. Nothing \in [Accounts -> CallerIds \cup {None}]
      BY DEF Nothing
    <3> QED
      BY <1>1, <2>4, <3>1, <3>2, <3>3
         DEF Crash, RunTyped, ListsOK, ListOK, TablesTyped, RowsTyped
  <2>5. CASE UNCHANGED vars
    BY <1>1, <2>5 DEF vars, tables, RunTyped, ListsOK, ListOK, TablesTyped, RowsTyped
  <2> QED
    BY <2>1, <2>2, <2>3, <2>4, <2>5 DEF Next
<1>3. /\ voip' \in [Accounts -> CallerIds \cup {None}]
      /\ gone' \subseteq Accounts /\ unfiled' \in BOOLEAN
      /\ {overlaps', starts', faults', changes', applies', crashes'} \subseteq Nat
  <2>1. CASE \E p \in Refreshers : Refresh(p)
    <3>1. PICK p \in Refreshers : Refresh(p)
      BY <2>1
    <3>2. /\ overlaps \in Nat /\ starts \in Nat /\ faults \in Nat
          /\ changes \in Nat /\ applies \in Nat /\ crashes \in Nat
      BY DEF Typed, TypeOK
    <3>3. {overlaps', starts', faults', changes', applies', crashes'} \subseteq Nat
      <4>1. /\ overlaps' = overlaps \/ overlaps' = overlaps + 1
            /\ starts' = starts \/ starts' = starts + 1
            /\ faults' = faults \/ faults' = faults + 1
        BY <3>1, RefreshWorld
      <4>2. changes' \in Nat /\ applies' \in Nat /\ crashes' \in Nat
        BY <3>1, <3>2, RefreshWorld
      <4> QED
        BY <3>2, <4>1, <4>2
    <3>4. voip' = voip /\ (gone' = gone \/ gone' = Missing) /\ unfiled' \in BOOLEAN
      BY <3>1, RefreshWorld
    <3> QED
      BY <3>3, <3>4 DEF Typed, TypeOK, Missing
  <2>2. CASE \E a \in Accounts, d \in CallerIds \cup {None} : ChangeVoip(a, d)
    BY <2>2 DEF Typed, TypeOK, ChangeVoip
  <2>3. CASE \E a \in Accounts, accept \in BOOLEAN : Apply(a, accept)
    BY <2>3 DEF Typed, TypeOK, Apply
  <2>4. CASE Crash
    BY <2>4 DEF Typed, TypeOK, Crash
  <2>5. CASE UNCHANGED vars
    BY <2>5 DEF Typed, TypeOK, vars, limits
  <2> QED
    BY <2>1, <2>2, <2>3, <2>4, <2>5 DEF Next
<1> QED
  BY <1>2, <1>3 DEF Typed, TypeOK, RunTyped, TablesTyped, RowsTyped

\* Every table and refresh keeps its type (pop_subacctdb): what a refresh still has to
\* insert or to update is always a list of its own table's keys.
THEOREM TypeCorrect == Spec => []TypeOK
<1>1. Typed => TypeOK
  BY DEF Typed
<1> QED
  BY <1>1, InitTyped, NextTyped, PTL DEF Spec

LEMMA TypedCorrect == Spec => []Typed
  BY InitTyped, NextTyped, PTL DEF Spec

-----------------------------------------------------------------------------
(* The phases of a refresh                                                 *)

\* A refresh that has met no other one
Lone(p) == run[p].alone \/ ~run[p].met
Solo(p) == \A q \in Refreshers \ {p} : run[q].pc = "idle"

PastDids == Steps \ {"idle", "delete dids", "insert did"}
PastPops == PastDids \ {"getServersInfo", "delete pops", "insert pop"}
HasTemp == {"append", "delete", "update"}
PastUpdate == {"null filepasswd", "filepasswd", "script", "mv", "null uuid", "uuid", "domain"}
PastDelete == PastUpdate \cup {"update"}
PastGet == HasTemp \cup PastUpdate \cup {"insert tsubacct"}
PastPasswd == PastUpdate \ {"null filepasswd", "filepasswd"}

ServersPhase(p) ==
    /\ run[p].pc = "insert did" => dids \cup run[p].list = Dids
    /\ run[p].pc \in PastDids => dids = Dids
    /\ run[p].alone \/ ~run[p].blind =>
          /\ run[p].pc = "delete pops" => run[p].list = Pops
          /\ run[p].pc = "insert pop" => pops \cup run[p].list = Pops
          /\ run[p].pc \in PastPops => pops = Pops

TempPhase(p) ==
    /\ run[p].pc = "getSubAccounts" => tmade /\ tsubacct = Nothing
    /\ run[p].pc = "insert tsubacct" =>
          tmade /\ \A a \in Accounts :
                      tsubacct[a] = IF a \in run[p].list THEN None ELSE run[p].got[a]
    /\ run[p].pc \in HasTemp => tmade /\ tsubacct = run[p].got
    /\ run[p].pc \in PastGet =>
          /\ \A a \in Accounts : run[p].got[a] = None => a \in gone
          /\ run[p].alone => run[p].got = voip

RowPhase(p) ==
    /\ run[p].pc = "delete" => Existing(run[p].got) \subseteq DOMAIN subacct
    /\ run[p].pc \in PastDelete => DOMAIN subacct = Existing(run[p].got)
    /\ run[p].pc \in PastUpdate =>
          \A a \in DOMAIN subacct : subacct[a].callerid = run[p].got[a]
    /\ run[p].pc = "filepasswd" =>
          \A a \in DOMAIN subacct \ run[p].list : subacct[a].filepasswd
    /\ run[p].pc \in PastPasswd => \A a \in DOMAIN subacct : subacct[a].filepasswd
    /\ run[p].pc = "mv" => run[p].list = DOMAIN subacct
    /\ run[p].pc = "uuid" =>
          \A a \in DOMAIN subacct \ run[p].list : subacct[a].uuid
    /\ run[p].pc = "domain" => \A a \in DOMAIN subacct : subacct[a].uuid

RunInv(p) ==
    run[p].pc # "idle" /\ Lone(p) =>
        Solo(p) /\ ServersPhase(p) /\ TempPhase(p) /\ RowPhase(p)

AllRuns == \A p \in Refreshers : RunInv(p)
GoneInv == \A a \in Accounts : voip[a] = None => a \in gone

HavePw == {a \in DOMAIN subacct : subacct[a].filepasswd}
Filed == htpw = HavePw \/ HavePw = {}
AllPw == HavePw = DOMAIN subacct

\* What a refresh that found the file as it should be, or missing, knows of it
FilePhase(p) ==
    /\ run[p].pc \notin {"filepasswd", "script", "mv", "null uuid", "uuid", "domain"} =>
          run[p].newpw \/ Filed
    /\ run[p].pc = "filepasswd" => run[p].newpw \/ (AllPw /\ Filed)
    /\ run[p].pc \in {"null uuid", "uuid", "domain"} => AllPw /\ Filed
FileRun(p) == run[p].pc # "idle" /\ ~run[p].met /\ run[p].synced => FilePhase(p)
FileInv == (~unfiled => Filed) /\ \A p \in Refreshers : FileRun(p)

LEMMA InitInv == Init => AllRuns /\ GoneInv
<1> SUFFICES ASSUME Init PROVE AllRuns /\ GoneInv
  OBVIOUS
<1>1. \A p \in Refreshers : run[p].pc = "idle"
  BY DEF Init, Idle
<1> QED
  BY <1>1 DEF Init, AllRuns, RunInv, GoneInv, Missing, Existing

\* What only the properties speak of stays as it is in most steps of a refresh.
SameFlags(p) ==
    /\ run'[p].alone = run[p].alone /\ run'[p].met = run[p].met
    /\ run'[p].blind = run[p].blind /\ run'[p].synced = run[p].synced

\* Where a goroutine is after a step
LEMMA AfterGoto ==
  ASSUME Typed, NEW p \in Refreshers, NEW step, Goto(p, step)
  PROVE  /\ run'[p].pc = step /\ run'[p].list = run[p].list
         /\ run'[p].got = run[p].got /\ run'[p].newpw = run[p].newpw
         /\ SameFlags(p)
         /\ \A q \in Refreshers \ {p} : run'[q] = run[q]
<1>1. run \in [Refreshers -> Run]
  BY DEF Typed, TypeOK
<1> QED
  BY <1>1 DEF Goto, Run, SameFlags

LEMMA AfterGotoWith ==
  ASSUME Typed, NEW p \in Refreshers, NEW step, NEW list, GotoWith(p, step, list)
  PROVE  /\ run'[p].pc = step /\ run'[p].list = list
         /\ run'[p].got = run[p].got /\ run'[p].newpw = run[p].newpw
         /\ SameFlags(p)
         /\ \A q \in Refreshers \ {p} : run'[q] = run[q]
<1>1. run \in [Refreshers -> Run]
  BY DEF Typed, TypeOK
<1> QED
  BY <1>1 DEF GotoWith, Run, SameFlags

LEMMA AfterReturn ==
  ASSUME Typed, NEW p \in Refreshers, Return(p)
  PROVE  run'[p] = Idle /\ run'[p].pc = "idle" /\ \A q \in Refreshers \ {p} : run'[q] = run[q]
<1>1. run \in [Refreshers -> Run]
  BY DEF Typed, TypeOK
<1> QED
  BY <1>1 DEF Return, Idle

\* The steps that also change what else is known of the refresh
LEMMA AfterOther ==
  ASSUME Typed, NEW p \in Refreshers,
         GetServersErr(p) \/ ScriptErr(p) \/ DeleteGone(p) \/ NullPasswd(p)
         \/ GetSubAccounts(p)
  PROVE  /\ \A q \in Refreshers \ {p} : run'[q] = run[q]
         /\ GetServersErr(p) => /\ run'[p].pc = "delete pops" /\ ~run'[p].alone /\ run'[p].blind
                                /\ run'[p].met = run[p].met /\ run'[p].synced = run[p].synced
                                /\ run'[p].newpw = run[p].newpw
         /\ ScriptErr(p) => /\ run'[p].pc = "null uuid" /\ ~run'[p].alone /\ ~run'[p].synced
                            /\ run'[p].met = run[p].met /\ run'[p].blind = run[p].blind
                            /\ run'[p].newpw = run[p].newpw /\ run'[p].got = run[p].got
         /\ DeleteGone(p) => /\ run'[p].pc = "update" /\ SameFlags(p)
                             /\ run'[p].got = run[p].got /\ run'[p].list = run[p].list
                             /\ run'[p].newpw = (run[p].newpw \/ DOMAIN subacct' # DOMAIN subacct)
         /\ NullPasswd(p) => /\ run'[p].pc = "filepasswd" /\ SameFlags(p)
                             /\ run'[p].got = run[p].got
                             /\ run'[p].list = {a \in DOMAIN subacct : ~subacct[a].filepasswd}
                             /\ run'[p].newpw = (run[p].newpw \/ run'[p].list # {})
         /\ GetSubAccounts(p) => /\ run'[p].pc = "insert tsubacct" /\ SameFlags(p)
                                 /\ run'[p].newpw = run[p].newpw
                                 /\ run'[p].got = voip /\ run'[p].list = Existing(voip)
<1>1. run \in [Refreshers -> Run]
  BY DEF Typed, TypeOK
<1>2. ASSUME GetServersErr(p)
      PROVE  /\ \A q \in Refreshers \ {p} : run'[q] = run[q]
             /\ run'[p].pc = "delete pops" /\ ~run'[p].alone /\ run'[p].blind
             /\ run'[p].met = run[p].met /\ run'[p].synced = run[p].synced
             /\ run'[p].newpw = run[p].newpw
  BY <1>1, <1>2 DEF GetServersErr, Run, SameFlags
<1>3. ASSUME ScriptErr(p)
      PROVE  /\ \A q \in Refreshers \ {p} : run'[q] = run[q]
             /\ run'[p].pc = "null uuid" /\ ~run'[p].alone /\ ~run'[p].synced
             /\ run'[p].met = run[p].met /\ run'[p].blind = run[p].blind
             /\ run'[p].newpw = run[p].newpw /\ run'[p].got = run[p].got
  BY <1>1, <1>3 DEF ScriptErr, Run, SameFlags
<1>4. ASSUME DeleteGone(p)
      PROVE  /\ \A q \in Refreshers \ {p} : run'[q] = run[q]
             /\ run'[p].pc = "update" /\ SameFlags(p)
             /\ run'[p].got = run[p].got /\ run'[p].list = run[p].list
             /\ run'[p].newpw = (run[p].newpw \/ DOMAIN subacct' # DOMAIN subacct)
  BY <1>1, <1>4 DEF DeleteGone, Run, SameFlags
<1>5. ASSUME NullPasswd(p)
      PROVE  /\ \A q \in Refreshers \ {p} : run'[q] = run[q]
             /\ run'[p].pc = "filepasswd" /\ SameFlags(p)
             /\ run'[p].got = run[p].got
             /\ run'[p].list = {a \in DOMAIN subacct : ~subacct[a].filepasswd}
             /\ run'[p].newpw = (run[p].newpw \/ run'[p].list # {})
  BY <1>1, <1>5 DEF NullPasswd, Run, SameFlags
<1>6. ASSUME GetSubAccounts(p)
      PROVE  /\ \A q \in Refreshers \ {p} : run'[q] = run[q]
             /\ run'[p].pc = "insert tsubacct" /\ SameFlags(p)
             /\ run'[p].newpw = run[p].newpw
             /\ run'[p].got = voip /\ run'[p].list = Existing(voip)
  <2>1. PICK all : all = Existing(voip)
    OBVIOUS
  <2>2. run' = [run EXCEPT ![p].pc = "insert tsubacct", ![p].got = voip, ![p].list = all]
    BY <1>6, <2>1 DEF GetSubAccounts
  <2> QED
    BY <1>1, <2>1, <2>2 DEF Run, SameFlags
<1> QED
  BY <1>2, <1>3, <1>4, <1>5, <1>6

\* A refresh that is under way moves alone, and stays alone and right at most.
OwnFlags(p) ==
    /\ run'[p].alone => run[p].alone
    /\ run'[p].met = run[p].met
    /\ ~run'[p].blind => ~run[p].blind
    /\ run'[p].synced => run[p].synced

LEMMA OwnStep ==
  ASSUME Typed, NEW p \in Refreshers, Refresh(p), run[p].pc # "idle"
  PROVE  /\ \A q \in Refreshers \ {p} : run'[q] = run[q]
         /\ gone' = gone
         /\ run'[p].pc # "idle" => OwnFlags(p)
<1>1. CASE \/ GetServersErr(p) \/ ScriptErr(p) \/ DeleteGone(p) \/ NullPasswd(p)
           \/ GetSubAccounts(p)
  <2>1. gone' = gone
    BY <1>1 DEF GetServersErr, ScriptErr, DeleteGone, NullPasswd, GetSubAccounts
  <2> QED
    BY <1>1, <2>1, AfterOther DEF SameFlags, OwnFlags
<1>2. ASSUME gone' = gone,
             \/ Return(p)
             \/ \E step : Goto(p, step)
             \/ \E step, list : GotoWith(p, step, list)
      PROVE  /\ \A q \in Refreshers \ {p} : run'[q] = run[q]
             /\ gone' = gone
             /\ run'[p].pc # "idle" => OwnFlags(p)
  BY <1>2, AfterReturn, AfterGoto, AfterGotoWith DEF SameFlags, OwnFlags
<1>3. CASE \/ DeleteDids(p) \/ InsertDid(p) \/ GetServers(p) \/ DeletePops(p)
           \/ InsertPop(p) \/ DropTemp(p) \/ CreateTemp(p) \/ InsertTemp(p)
  <2>1. gone' = gone
    BY <1>3 DEF DeleteDids, InsertDid, GetServers, DeletePops, InsertPop, DropTemp,
                CreateTemp, InsertTemp
  <2>2. \/ Return(p)
        \/ \E step : Goto(p, step)
        \/ \E step, list : GotoWith(p, step, list)
    BY <1>3 DEF DeleteDids, InsertDid, GetServers, DeletePops, InsertPop, DropTemp,
                CreateTemp, InsertTemp
  <2> QED
    BY <1>2, <2>1, <2>2
<1>4. CASE \/ NoTemp(p) \/ Append(p) \/ UpdateAll(p) \/ SetPasswd(p) \/ ScriptRead(p)
           \/ ScriptMv(p) \/ NullUuid(p) \/ SetUuid(p) \/ SetDomains(p) \/ Fail(p)
  <2>1. gone' = gone
    BY <1>4 DEF NoTemp, Append, UpdateAll, SetPasswd, ScriptRead, ScriptMv, NullUuid,
                SetUuid, SetDomains, Fail
  <2>2. \/ Return(p)
        \/ \E step : Goto(p, step)
        \/ \E step, list : GotoWith(p, step, list)
    BY <1>4 DEF NoTemp, Append, UpdateAll, SetPasswd, ScriptRead, ScriptMv, NullUuid,
                SetUuid, SetDomains, Fail
  <2> QED
    BY <1>2, <2>1, <2>2
<1> QED
  BY <1>1, <1>3, <1>4 DEF Refresh, Start, At

\* dids and pops: filled again by each refresh
LEMMA ServersStep ==
  ASSUME Typed, NEW p \in Refreshers, Refresh(p), run[p].pc # "idle", run'[p].pc # "idle",
         ServersPhase(p)
  PROVE  ServersPhase(p)'
<1>1. run'[p].alone \/ ~run'[p].blind => run[p].alone \/ ~run[p].blind
  BY OwnStep DEF OwnFlags
<1>2. CASE DeleteDids(p)
  <2>1. run'[p].pc = "insert did" /\ run'[p].list = Dids /\ dids' = {}
    BY <1>2, AfterGotoWith DEF DeleteDids
  <2> QED
    BY <2>1 DEF ServersPhase, PastDids, PastPops, Steps
<1>3. CASE InsertDid(p)
  <2>1. run[p].pc = "insert did" /\ dids \cup run[p].list = Dids
    BY <1>3 DEF InsertDid, At, ServersPhase
  <2>2. CASE run[p].list = {}
    <3>1. run'[p].pc = "getServersInfo" /\ dids' = dids
      BY <1>3, <2>2, AfterGoto DEF InsertDid
    <3> QED
      BY <2>1, <2>2, <3>1 DEF ServersPhase, PastDids, PastPops, Steps
  <2>3. CASE run[p].list # {}
    <3>1. GotoWith(p, "insert did", Rest(p))
      BY <1>3, <2>3, AfterReturn DEF InsertDid
    <3>2. run'[p].pc = "insert did" /\ run'[p].list = Rest(p)
      BY <3>1, AfterGotoWith
    <3>3. dids' = dids \cup {Least(run[p].list)} /\ Least(run[p].list) \in run[p].list
      BY <1>3, <2>3, FirstTyped DEF InsertDid
    <3>4. dids' \cup Rest(p) = Dids
      BY <2>1, <3>3 DEF Rest
    <3> QED
      BY <3>2, <3>4 DEF ServersPhase, PastDids, PastPops, Steps
  <2> QED
    BY <2>2, <2>3
<1>4. CASE GetServers(p) \/ GetServersErr(p)
  <2>1. run[p].pc = "getServersInfo" /\ dids' = dids /\ run'[p].pc = "delete pops"
    BY <1>4, AfterGotoWith, AfterOther DEF GetServers, GetServersErr, At, tables
  <2>2. CASE GetServers(p)
    <3>1. run'[p].list = Pops
      BY <2>2, AfterGotoWith DEF GetServers
    <3> QED
      BY <2>1, <3>1 DEF ServersPhase, PastDids, PastPops, Steps
  <2>3. CASE GetServersErr(p)
    <3>1. run'[p].blind /\ ~run'[p].alone
      BY <2>3, AfterOther
    <3> QED
      BY <2>1, <3>1 DEF ServersPhase, PastDids, PastPops, Steps
  <2> QED
    BY <1>4, <2>2, <2>3
<1>5. CASE DeletePops(p)
  <2>1. /\ run[p].pc = "delete pops" /\ dids' = dids /\ run'[p].pc = "insert pop"
        /\ run'[p].list = run[p].list /\ pops' = {}
    BY <1>5, AfterGoto DEF DeletePops, At
  <2> QED
    BY <1>1, <2>1 DEF ServersPhase, PastDids, PastPops, Steps
<1>6. CASE InsertPop(p)
  <2>1. /\ run[p].pc = "insert pop" /\ dids' = dids /\ dids = Dids
        /\ run[p].alone \/ ~run[p].blind => pops \cup run[p].list = Pops
    BY <1>6 DEF InsertPop, At, ServersPhase, PastDids, Steps
  <2>2. CASE run[p].list = {}
    <3>1. run'[p].pc = "drop" /\ pops' = pops
      BY <1>6, <2>2, AfterGoto DEF InsertPop
    <3> QED
      BY <1>1, <2>1, <2>2, <3>1 DEF ServersPhase, PastDids, PastPops, Steps
  <2>3. CASE run[p].list # {}
    <3>1. GotoWith(p, "insert pop", Rest(p))
      BY <1>6, <2>3, AfterReturn DEF InsertPop
    <3>2. run'[p].pc = "insert pop" /\ run'[p].list = Rest(p)
      BY <3>1, AfterGotoWith
    <3>3. pops' = pops \cup {Least(run[p].list)} /\ Least(run[p].list) \in run[p].list
      BY <1>6, <2>3, FirstTyped DEF InsertPop
    <3>4. run[p].alone \/ ~run[p].blind => pops' \cup Rest(p) = Pops
      BY <2>1, <3>3 DEF Rest
    <3> QED
      BY <1>1, <2>1, <3>2, <3>4 DEF ServersPhase, PastDids, PastPops, Steps
  <2> QED
    BY <2>2, <2>3
<1>7. ASSUME run[p].pc \in PastPops, run'[p].pc \in PastPops, UNCHANGED <<dids, pops>>
      PROVE  ServersPhase(p)'
  <2>1. run[p].pc \in PastDids /\ run'[p].pc \in PastDids
        /\ run'[p].pc \notin {"insert did", "delete pops", "insert pop"}
    BY <1>7 DEF PastPops, PastDids
  <2> QED
    BY <1>1, <1>7, <2>1 DEF ServersPhase
<1>8. CASE \/ DropTemp(p) \/ CreateTemp(p) \/ GetSubAccounts(p) \/ InsertTemp(p)
           \/ Append(p) \/ DeleteGone(p) \/ UpdateAll(p)
  <2>1. UNCHANGED <<dids, pops>>
    BY <1>8 DEF DropTemp, CreateTemp, GetSubAccounts, InsertTemp, Append, DeleteGone,
                UpdateAll, tables
  <2>2. run[p].pc \in PastPops
    BY <1>8 DEF DropTemp, CreateTemp, GetSubAccounts, InsertTemp, Append, DeleteGone,
                UpdateAll, At, PastPops, PastDids, Steps
  <2>3. run'[p].pc \in {"create", "getSubAccounts", "insert tsubacct", "append", "delete",
                        "update", "null filepasswd"}
    <3>1. CASE DropTemp(p) \/ CreateTemp(p)
      BY <3>1, AfterGoto, AfterReturn DEF DropTemp, CreateTemp
    <3>2. CASE InsertTemp(p)
      BY <3>2, AfterGoto, AfterGotoWith, AfterReturn DEF InsertTemp
    <3>3. CASE Append(p) \/ UpdateAll(p)
      BY <3>3, AfterGoto DEF Append, UpdateAll
    <3> QED
      BY <1>8, <3>1, <3>2, <3>3, AfterOther
  <2> QED
    BY <1>7, <2>1, <2>2, <2>3 DEF PastPops, PastDids, Steps
<1>9. CASE \/ NullPasswd(p) \/ SetPasswd(p) \/ ScriptRead(p) \/ ScriptMv(p) \/ ScriptErr(p)
           \/ NullUuid(p) \/ SetUuid(p)
  <2>1. UNCHANGED <<dids, pops>>
    BY <1>9 DEF NullPasswd, SetPasswd, ScriptRead, ScriptMv, ScriptErr, NullUuid, SetUuid,
                tables
  <2>2. run[p].pc \in PastPops
    BY <1>9 DEF NullPasswd, SetPasswd, ScriptRead, ScriptMv, ScriptErr, NullUuid, SetUuid,
                At, PastPops, PastDids, Steps
  <2>3. run'[p].pc \in {"filepasswd", "script", "mv", "null uuid", "uuid", "domain"}
    BY <1>9, AfterGoto, AfterGotoWith, AfterOther
       DEF SetPasswd, ScriptRead, ScriptMv, NullUuid, SetUuid
  <2> QED
    BY <1>7, <2>1, <2>2, <2>3 DEF PastPops, PastDids, Steps
<1>10. ~NoTemp(p) /\ ~SetDomains(p) /\ ~Fail(p) /\ ~Start(p)
  BY AfterReturn DEF NoTemp, SetDomains, Fail, Start, At
<1> QED
  BY <1>2, <1>3, <1>4, <1>5, <1>6, <1>8, <1>9, <1>10 DEF Refresh

\* The temporary table: what getSubAccounts returned
LEMMA TempStep ==
  ASSUME Typed, GoneInv, NEW p \in Refreshers, Refresh(p), run[p].pc # "idle",
         run'[p].pc # "idle", TempPhase(p)
  PROVE  TempPhase(p)'
<1>1. /\ run'[p].alone => run[p].alone
      /\ voip' = voip /\ gone' = gone
  BY OwnStep, RefreshWorld DEF OwnFlags
<1>2. \A a \in Accounts : voip[a] = None <=> a \notin Existing(voip)
  BY DEF Existing
<1>3. ASSUME run[p].pc \notin PastGet,
             run'[p].pc \notin PastGet \cup {"getSubAccounts"}
      PROVE  TempPhase(p)'
  BY <1>3 DEF TempPhase, PastGet, HasTemp
<1>4. CASE \/ DeleteDids(p) \/ InsertDid(p) \/ GetServers(p) \/ GetServersErr(p)
           \/ DeletePops(p) \/ InsertPop(p) \/ DropTemp(p)
  <2>1. run[p].pc \in {"delete dids", "insert did", "getServersInfo", "delete pops",
                       "insert pop", "drop"}
    BY <1>4 DEF DeleteDids, InsertDid, GetServers, GetServersErr, DeletePops, InsertPop,
                DropTemp, At
  <2>2. run'[p].pc \in {"insert did", "getServersInfo", "delete pops", "insert pop", "drop",
                        "create"}
    <3>1. CASE DeleteDids(p) \/ GetServers(p)
      BY <3>1, AfterGotoWith DEF DeleteDids, GetServers
    <3>2. CASE InsertDid(p) \/ InsertPop(p)
      BY <3>2, AfterGoto, AfterGotoWith, AfterReturn DEF InsertDid, InsertPop
    <3>3. CASE DeletePops(p) \/ DropTemp(p)
      BY <3>3, AfterGoto DEF DeletePops, DropTemp
    <3> QED
      BY <1>4, <3>1, <3>2, <3>3, AfterOther
  <2> QED
    BY <1>3, <2>1, <2>2 DEF PastGet, HasTemp, PastUpdate
<1>5. CASE CreateTemp(p)
  <2>1. ~tmade /\ run'[p].pc = "getSubAccounts" /\ tmade' = TRUE /\ tsubacct' = tsubacct
    BY <1>5, AfterGoto, AfterReturn DEF CreateTemp
  <2>2. tsubacct = Nothing
    BY <2>1 DEF Typed, TypeOK
  <2> QED
    BY <2>1, <2>2 DEF TempPhase, HasTemp, PastGet, PastUpdate
<1>6. CASE GetSubAccounts(p)
  <2>1. run[p].pc = "getSubAccounts" /\ UNCHANGED <<tmade, tsubacct>>
    BY <1>6 DEF GetSubAccounts, At, tables
  <2>2. run'[p].pc = "insert tsubacct" /\ run'[p].got = voip /\ run'[p].list = Existing(voip)
    BY <1>6, AfterOther
  <2>3. tmade /\ tsubacct = Nothing
    BY <2>1 DEF TempPhase
  <2>4. ASSUME NEW a \in Accounts
        PROVE  tsubacct'[a] = IF a \in run'[p].list THEN None ELSE run'[p].got[a]
    BY <1>2, <2>1, <2>2, <2>3 DEF Nothing
  <2>5. \A a \in Accounts : voip[a] = None => a \in gone
    BY DEF GoneInv
  <2> QED
    BY <1>1, <2>1, <2>2, <2>3, <2>4, <2>5 DEF TempPhase, HasTemp, PastGet, PastUpdate
<1>7. CASE InsertTemp(p)
  <2>1. /\ run[p].pc = "insert tsubacct"
        /\ tmade /\ \A a \in Accounts :
                      tsubacct[a] = IF a \in run[p].list THEN None ELSE run[p].got[a]
        /\ \A a \in Accounts : run[p].got[a] = None => a \in gone
        /\ run[p].alone => run[p].got = voip
    BY <1>7 DEF InsertTemp, At, TempPhase, PastGet
  <2>2. tsubacct \in [Accounts -> CallerIds \cup {None}]
        /\ run[p].got \in [Accounts -> CallerIds \cup {None}] /\ tmade' = tmade
        /\ run[p].list \subseteq Accounts
    BY <1>7, <2>1 DEF Typed, TypeOK, Run, InsertTemp, ListsOK, ListOK
  <2>3. CASE run[p].list = {}
    <3>1. run'[p].pc = "append" /\ run'[p].got = run[p].got /\ tsubacct' = tsubacct
      BY <1>7, <2>3, AfterGoto DEF InsertTemp
    <3>2. tsubacct = run[p].got
      <4>1. \A a \in Accounts : tsubacct[a] = run[p].got[a]
        BY <2>1, <2>3
      <4> QED
        BY <2>2, <4>1
    <3> QED
      BY <1>1, <2>1, <2>2, <3>1, <3>2 DEF TempPhase, HasTemp, PastGet, PastUpdate
  <2>4. CASE run[p].list # {}
    <3> DEFINE a == Least(run[p].list)
    <3>1. a \in run[p].list
      BY <2>4, FirstTyped
    <3>2. /\ GotoWith(p, "insert tsubacct", Rest(p))
          /\ tsubacct' = [tsubacct EXCEPT ![a] = run[p].got[a]]
      BY <1>7, <2>4, AfterReturn DEF InsertTemp
    <3>3. /\ run'[p].pc = "insert tsubacct" /\ run'[p].got = run[p].got
          /\ run'[p].list = run[p].list \ {a}
      BY <3>2, AfterGotoWith DEF Rest
    <3> HIDE DEF a
    <3>4. \A b \in Accounts :
              tsubacct'[b] = IF b \in run'[p].list THEN None ELSE run'[p].got[b]
      BY <2>1, <2>2, <3>1, <3>2, <3>3
    <3> QED
      BY <1>1, <2>1, <2>2, <3>3, <3>4 DEF TempPhase, HasTemp, PastGet, PastUpdate
  <2> QED
    BY <2>3, <2>4
<1>8. ASSUME run[p].pc \in PastGet, run'[p].pc \in PastGet \ {"insert tsubacct"},
             run'[p].pc \in HasTemp => run[p].pc \in HasTemp,
             run'[p].got = run[p].got, UNCHANGED <<tmade, tsubacct>>
      PROVE  TempPhase(p)'
  <2>1. run'[p].pc # "getSubAccounts"
    BY <1>8 DEF PastGet, HasTemp, PastUpdate
  <2> QED
    BY <1>1, <1>8, <2>1 DEF TempPhase
<1>9. CASE Append(p) \/ DeleteGone(p) \/ UpdateAll(p)
  <2>1. run[p].pc \in HasTemp /\ UNCHANGED <<tmade, tsubacct>>
    BY <1>9 DEF Append, DeleteGone, UpdateAll, At, HasTemp
  <2>2. run'[p].pc \in {"delete", "update", "null filepasswd"} /\ run'[p].got = run[p].got
    BY <1>9, AfterGoto, AfterOther DEF Append, UpdateAll
  <2> QED
    BY <1>8, <2>1, <2>2 DEF PastGet, HasTemp, PastUpdate
<1>10. CASE \/ NullPasswd(p) \/ SetPasswd(p) \/ ScriptRead(p) \/ ScriptMv(p) \/ ScriptErr(p)
            \/ NullUuid(p) \/ SetUuid(p)
  <2>1. run[p].pc \in PastUpdate /\ UNCHANGED <<tmade, tsubacct>>
    BY <1>10 DEF NullPasswd, SetPasswd, ScriptRead, ScriptMv, ScriptErr, NullUuid, SetUuid,
                 At, PastUpdate, tables
  <2>2. run'[p].pc \in {"filepasswd", "script", "mv", "null uuid", "uuid", "domain"}
        /\ run'[p].got = run[p].got
    BY <1>10, AfterGoto, AfterGotoWith, AfterOther
       DEF SetPasswd, ScriptRead, ScriptMv, NullUuid, SetUuid
  <2> QED
    BY <1>8, <2>1, <2>2 DEF PastGet, HasTemp, PastUpdate
<1>11. ~NoTemp(p) /\ ~SetDomains(p) /\ ~Fail(p) /\ ~Start(p)
  BY AfterReturn DEF NoTemp, SetDomains, Fail, Start, At
<1> QED
  BY <1>4, <1>5, <1>6, <1>7, <1>9, <1>10, <1>11 DEF Refresh

\* The rows: those of VoIP.ms, then with all their columns
LEMMA RowStep ==
  ASSUME Typed, NEW p \in Refreshers, Refresh(p), run[p].pc # "idle",
         run'[p].pc # "idle", TempPhase(p), RowPhase(p)
  PROVE  RowPhase(p)'
<1>1. RowsTyped
  BY DEF Typed, TypeOK, RowsTyped
<1>2. ASSUME run'[p].pc \notin PastDelete \cup {"delete"}
      PROVE  RowPhase(p)'
  BY <1>2 DEF RowPhase, PastDelete, PastUpdate, PastPasswd
<1>3. CASE \/ DeleteDids(p) \/ InsertDid(p) \/ GetServers(p) \/ GetServersErr(p)
           \/ DeletePops(p) \/ InsertPop(p) \/ DropTemp(p) \/ CreateTemp(p)
           \/ GetSubAccounts(p) \/ InsertTemp(p)
  <2>1. run'[p].pc \in {"insert did", "getServersInfo", "delete pops", "insert pop", "drop",
                        "create", "getSubAccounts", "insert tsubacct", "append"}
    <3>1. CASE DeleteDids(p) \/ GetServers(p)
      BY <3>1, AfterGotoWith DEF DeleteDids, GetServers
    <3>2. CASE InsertDid(p) \/ InsertPop(p) \/ InsertTemp(p)
      BY <3>2, AfterGoto, AfterGotoWith, AfterReturn DEF InsertDid, InsertPop, InsertTemp
    <3>3. CASE DeletePops(p) \/ DropTemp(p) \/ CreateTemp(p)
      BY <3>3, AfterGoto, AfterReturn DEF DeletePops, DropTemp, CreateTemp
    <3> QED
      BY <1>3, <3>1, <3>2, <3>3, AfterOther
  <2> QED
    BY <1>2, <2>1 DEF PastDelete, PastUpdate
<1>4. CASE Append(p)
  <2>1. run[p].pc = "append" /\ run'[p].pc = "delete" /\ run'[p].got = run[p].got
    BY <1>4, AfterGoto DEF Append, At
  <2>2. tsubacct = run[p].got /\ DOMAIN subacct' = DOMAIN subacct \cup Existing(tsubacct)
    BY <1>4, <2>1 DEF Append, TempPhase, HasTemp
  <2> QED
    BY <2>1, <2>2 DEF RowPhase, PastDelete, PastUpdate, PastPasswd
<1>5. CASE DeleteGone(p)
  <2>1. run[p].pc = "delete" /\ run'[p].pc = "update" /\ run'[p].got = run[p].got
    BY <1>5, AfterOther DEF DeleteGone, At
  <2>2. tsubacct = run[p].got /\ DOMAIN subacct' = DOMAIN subacct \cap Existing(tsubacct)
    BY <1>5, <2>1 DEF DeleteGone, TempPhase, HasTemp
  <2>3. Existing(run[p].got) \subseteq DOMAIN subacct
    BY <2>1 DEF RowPhase
  <2>4. DOMAIN subacct' = Existing(run'[p].got)
    BY <2>1, <2>2, <2>3
  <2> QED
    BY <2>1, <2>4 DEF RowPhase, PastDelete, PastUpdate, PastPasswd
<1>6. CASE UpdateAll(p)
  <2>1. run[p].pc = "update" /\ run'[p].pc = "null filepasswd" /\ run'[p].got = run[p].got
    BY <1>6, AfterGoto DEF UpdateAll, At
  <2>2. tsubacct = run[p].got /\ DOMAIN subacct' = DOMAIN subacct
    BY <1>6, <2>1 DEF UpdateAll, TempPhase, HasTemp
  <2>3. DOMAIN subacct = Existing(run[p].got)
    BY <2>1 DEF RowPhase, PastDelete
  <2>4. ASSUME NEW a \in DOMAIN subacct PROVE subacct'[a].callerid = run[p].got[a]
    <3>1. tsubacct[a] # None /\ subacct[a] \in SubAcct
      BY <1>1, <2>2, <2>3 DEF Existing, RowsTyped
    <3>2. subacct'[a] = [subacct[a] EXCEPT !.callerid = tsubacct[a]]
      BY <1>6, <3>1 DEF UpdateAll
    <3> QED
      BY <2>2, <3>1, <3>2 DEF SubAcct
  <2> QED
    BY <2>1, <2>2, <2>3, <2>4 DEF RowPhase, PastDelete, PastUpdate, PastPasswd
<1>7. ASSUME run[p].pc \in PastUpdate
      PROVE  /\ DOMAIN subacct = Existing(run[p].got)
             /\ \A a \in DOMAIN subacct : subacct[a].callerid = run[p].got[a]
  BY <1>7 DEF RowPhase, PastDelete
<1>8. CASE NullPasswd(p)
  <2>1. /\ run[p].pc = "null filepasswd" /\ run'[p].pc = "filepasswd"
        /\ run'[p].got = run[p].got /\ subacct' = subacct
        /\ run'[p].list = {a \in DOMAIN subacct : ~subacct[a].filepasswd}
    BY <1>8, AfterOther DEF NullPasswd, At, tables
  <2>2. \A a \in DOMAIN subacct \ run'[p].list : subacct[a].filepasswd
    BY <2>1
  <2> QED
    BY <1>7, <2>1, <2>2 DEF RowPhase, PastDelete, PastUpdate, PastPasswd
<1>9. CASE SetPasswd(p)
  <2>1. /\ run[p].pc = "filepasswd"
        /\ \A a \in DOMAIN subacct \ run[p].list : subacct[a].filepasswd
    BY <1>9 DEF SetPasswd, At, RowPhase
  <2>2. CASE run[p].list = {}
    <3>1. /\ run'[p].pc \in {"script", "null uuid"} /\ run'[p].got = run[p].got
          /\ subacct' = subacct
      BY <1>9, <2>2, AfterGoto DEF SetPasswd
    <3>2. \A a \in DOMAIN subacct : subacct[a].filepasswd
      BY <2>1, <2>2
    <3> QED
      BY <1>7, <2>1, <3>1, <3>2 DEF RowPhase, PastDelete, PastUpdate, PastPasswd
  <2>3. CASE run[p].list # {}
    <3> DEFINE a == Least(run[p].list)
    <3>1. /\ run'[p].pc = "filepasswd" /\ run'[p].got = run[p].got
          /\ run'[p].list = run[p].list \ {a}
      BY <1>9, <2>3, AfterGotoWith DEF SetPasswd, Rest
    <3>2. subacct' = IF a \in DOMAIN subacct
                     THEN [subacct EXCEPT ![a].filepasswd = TRUE] ELSE subacct
      BY <1>9, <2>3 DEF SetPasswd
    <3> HIDE DEF a
    <3>3. /\ DOMAIN subacct' = DOMAIN subacct
          /\ \A b \in DOMAIN subacct : /\ subacct'[b].callerid = subacct[b].callerid
                                       /\ subacct[b].filepasswd \/ b = a => subacct'[b].filepasswd
      BY <1>1, <3>2 DEF RowsTyped, SubAcct
    <3>4. \A b \in DOMAIN subacct' \ run'[p].list : subacct'[b].filepasswd
      BY <2>1, <3>1, <3>3
    <3> QED
      BY <1>7, <2>1, <3>1, <3>3, <3>4 DEF RowPhase, PastDelete, PastUpdate, PastPasswd
  <2> QED
    BY <2>2, <2>3
<1>10. CASE ScriptRead(p) \/ ScriptMv(p) \/ ScriptErr(p) \/ NullUuid(p)
  <2>1. /\ run[p].pc \in {"script", "mv", "null uuid"} /\ run'[p].got = run[p].got
        /\ run'[p].pc \in {"mv", "null uuid", "uuid"} /\ subacct' = subacct
    <3>1. CASE ScriptRead(p) \/ NullUuid(p)
      <4>1. run[p].pc \in {"script", "null uuid"} /\ subacct' = subacct
        BY <3>1 DEF ScriptRead, NullUuid, At, tables
      <4>2. \/ \E list : GotoWith(p, "mv", list)
            \/ \E list : GotoWith(p, "uuid", list)
        BY <3>1 DEF ScriptRead, NullUuid
      <4> QED
        BY <4>1, <4>2, AfterGotoWith
    <3>2. CASE ScriptMv(p)
      BY <3>2, AfterGoto DEF ScriptMv, At
    <3>3. CASE ScriptErr(p)
      BY <3>3, AfterOther DEF ScriptErr, tables
    <3> QED
      BY <1>10, <3>1, <3>2, <3>3
  <2>2. \A a \in DOMAIN subacct : subacct[a].filepasswd
    BY <2>1 DEF RowPhase, PastPasswd, PastUpdate
  <2>3. \/ run'[p].pc = "mv" /\ run'[p].list = DOMAIN subacct
        \/ run'[p].pc = "null uuid"
        \/ run'[p].pc = "uuid" /\ run'[p].list = {a \in DOMAIN subacct : ~subacct[a].uuid}
    <3>1. CASE ScriptRead(p)
      <4>1. PICK list : list = DOMAIN subacct /\ GotoWith(p, "mv", list)
        BY <3>1 DEF ScriptRead
      <4>2. run'[p].pc = "mv" /\ run'[p].list = list
        BY <4>1, AfterGotoWith
      <4> QED
        BY <4>1, <4>2
    <3>2. CASE ScriptMv(p) \/ ScriptErr(p)
      BY <3>2, AfterGoto, AfterOther DEF ScriptMv
    <3>3. CASE NullUuid(p)
      <4>1. PICK list : /\ list = {a \in DOMAIN subacct : ~subacct[a].uuid}
                        /\ GotoWith(p, "uuid", list)
        BY <3>3 DEF NullUuid
      <4>2. run'[p].pc = "uuid" /\ run'[p].list = list
        BY <4>1, AfterGotoWith
      <4> QED
        BY <4>1, <4>2
    <3> QED
      BY <1>10, <3>1, <3>2, <3>3
  <2>4. run'[p].pc = "mv" => run'[p].list = DOMAIN subacct
    BY <2>3
  <2>5. run'[p].pc = "uuid" => \A a \in DOMAIN subacct \ run'[p].list : subacct[a].uuid
    BY <2>3
  <2> QED
    BY <1>7, <2>1, <2>2, <2>4, <2>5 DEF RowPhase, PastDelete, PastUpdate, PastPasswd
<1>11. CASE SetUuid(p)
  <2>1. /\ run[p].pc = "uuid"
        /\ \A a \in DOMAIN subacct \ run[p].list : subacct[a].uuid
        /\ \A a \in DOMAIN subacct : subacct[a].filepasswd
    BY <1>11 DEF SetUuid, At, RowPhase, PastPasswd, PastUpdate
  <2>2. CASE run[p].list = {}
    <3>1. /\ run'[p].pc = "domain" /\ run'[p].got = run[p].got
          /\ subacct' = subacct
      BY <1>11, <2>2, AfterGoto DEF SetUuid
    <3>2. \A a \in DOMAIN subacct : subacct[a].uuid
      BY <2>1, <2>2
    <3> QED
      BY <1>7, <2>1, <3>1, <3>2 DEF RowPhase, PastDelete, PastUpdate, PastPasswd
  <2>3. CASE run[p].list # {}
    <3> DEFINE a == Least(run[p].list)
    <3>1. /\ run'[p].pc = "uuid" /\ run'[p].got = run[p].got
          /\ run'[p].list = run[p].list \ {a}
      BY <1>11, <2>3, AfterGotoWith DEF SetUuid, Rest
    <3>2. subacct' = IF a \in DOMAIN subacct
                     THEN [subacct EXCEPT ![a].uuid = TRUE] ELSE subacct
      BY <1>11, <2>3 DEF SetUuid
    <3> HIDE DEF a
    <3>3. /\ DOMAIN subacct' = DOMAIN subacct
          /\ \A b \in DOMAIN subacct : /\ subacct'[b].callerid = subacct[b].callerid
                                       /\ subacct'[b].filepasswd = subacct[b].filepasswd
                                       /\ subacct[b].uuid \/ b = a => subacct'[b].uuid
      BY <1>1, <3>2 DEF RowsTyped, SubAcct
    <3>4. \A b \in DOMAIN subacct' \ run'[p].list : subacct'[b].uuid
      BY <2>1, <3>1, <3>3
    <3>5. \A b \in DOMAIN subacct' : subacct'[b].filepasswd
      BY <2>1, <3>3
    <3> QED
      BY <1>7, <2>1, <3>1, <3>3, <3>4, <3>5 DEF RowPhase, PastDelete, PastUpdate, PastPasswd
  <2> QED
    BY <2>2, <2>3
<1>12. ~NoTemp(p) /\ ~SetDomains(p) /\ ~Fail(p) /\ ~Start(p)
  BY AfterReturn DEF NoTemp, SetDomains, Fail, Start, At
<1> QED
  BY <1>3, <1>4, <1>5, <1>6, <1>8, <1>9, <1>10, <1>11, <1>12 DEF Refresh

\* Where a refresh starts
LEMMA StartOf ==
  ASSUME Typed, NEW p \in Refreshers, Refresh(p), run[p].pc = "idle"
  PROVE  /\ Start(p)
         /\ run'[p].pc = "delete dids"
         /\ run'[p].alone <=> Solo(p)
         /\ run'[p].met <=> ~Solo(p)
         /\ run'[p].synced <=> ~unfiled \/ htpw = {NoFile}
         /\ run'[p].newpw <=> htpw = {NoFile}
         /\ gone' = gone \/ (Solo(p) /\ gone' = Missing)
         /\ UNCHANGED <<voip, subacct, htpw, unfiled, faults>>
         /\ \A q \in Refreshers \ {p} : /\ run'[q].pc = run[q].pc /\ ~run'[q].alone
                                        /\ run[q].pc # "idle" => run'[q].met
<1>1. Start(p)
  BY DEF Refresh, Start, DeleteDids, InsertDid, GetServers, GetServersErr,
     DeletePops, InsertPop, DropTemp, CreateTemp, GetSubAccounts, InsertTemp, NoTemp,
     Append, DeleteGone, UpdateAll, NullPasswd, SetPasswd, ScriptRead, ScriptMv,
     ScriptErr, NullUuid, SetUuid, SetDomains, Fail, Failing, At
<1>2. run \in [Refreshers -> Run]
  BY DEF Typed, TypeOK
<1> DEFINE others == {q \in Refreshers \ {p} : ~At(q, "idle")}
<1>3. others = {} <=> Solo(p)
  BY DEF At, Solo
<1>4. run'[p] = [Idle EXCEPT !.pc = "delete dids", !.newpw = htpw = {NoFile},
                             !.alone = others = {}, !.met = others # {},
                             !.synced = ~unfiled \/ htpw = {NoFile}]
  BY <1>1 DEF Start
<1> HIDE DEF others
<1>5. /\ run'[p].pc = "delete dids" /\ run'[p].alone = (others = {})
      /\ run'[p].met = (others # {})
      /\ run'[p].synced = (~unfiled \/ htpw = {NoFile})
      /\ run'[p].newpw = (htpw = {NoFile})
  BY <1>4 DEF Idle
<1>6. /\ run'[p].alone <=> Solo(p)
      /\ run'[p].met <=> ~Solo(p)
      /\ run'[p].synced <=> ~unfiled \/ htpw = {NoFile}
      /\ run'[p].newpw <=> htpw = {NoFile}
  BY <1>3, <1>5
<1>7. \A q \in Refreshers \ {p} : /\ run'[q].pc = run[q].pc /\ ~run'[q].alone
                                  /\ run[q].pc # "idle" => run'[q].met
  <2>1. \A q \in Refreshers \ {p} :
            run'[q] = [run[q] EXCEPT !.alone = FALSE, !.met = ~At(q, "idle")]
    BY <1>1 DEF Start
  <2>2. ASSUME NEW q \in Refreshers \ {p}
        PROVE  /\ run'[q].pc = run[q].pc /\ ~run'[q].alone
               /\ run[q].pc # "idle" => run'[q].met
    <3>1. run'[q] = [run[q] EXCEPT !.alone = FALSE, !.met = ~At(q, "idle")]
      BY <2>1
    <3>2. run[q] \in Run
      BY <1>2
    <3>3. run'[q].pc = run[q].pc /\ ~run'[q].alone /\ run'[q].met = ~At(q, "idle")
      BY <3>1, <3>2 DEF Run
    <3> QED
      BY <3>3 DEF At
  <2> QED
    BY <2>2
<1>8. /\ gone' = gone \/ (Solo(p) /\ gone' = Missing)
      /\ UNCHANGED <<voip, subacct, htpw, unfiled, faults>>
  BY <1>1, <1>3 DEF Start, tables, others
<1> QED
  BY <1>1, <1>5, <1>6, <1>7, <1>8

LEMMA RefreshInv ==
  ASSUME Typed, AllRuns, GoneInv, NEW p \in Refreshers, Refresh(p)
  PROVE  AllRuns' /\ GoneInv'
<1>1. GoneInv'
  BY RefreshWorld DEF GoneInv, Missing, Existing
<1>2. CASE run[p].pc = "idle"
  <2>1. \A q \in Refreshers : run'[q].pc # "idle" /\ Lone(q)' => q = p /\ Solo(p)'
    BY <1>2, StartOf DEF Lone, Solo
  <2>2. ServersPhase(p)' /\ TempPhase(p)' /\ RowPhase(p)'
    BY <1>2, StartOf
    DEF ServersPhase, TempPhase, RowPhase, PastDids, PastPops, HasTemp, PastUpdate,
        PastDelete, PastGet, PastPasswd, Steps
  <2> QED
    BY <1>1, <2>1, <2>2 DEF AllRuns, RunInv
<1>3. CASE run[p].pc # "idle"
  <2>1. /\ \A q \in Refreshers \ {p} : run'[q] = run[q]
        /\ run'[p].pc # "idle" /\ Lone(p)' => Lone(p)
    BY <1>3, OwnStep DEF OwnFlags, Lone
  <2>2. ASSUME NEW q \in Refreshers, q # p, run'[q].pc # "idle", Lone(q)' PROVE FALSE
    <3>1. run[q].pc # "idle" /\ Lone(q)
      BY <2>1, <2>2 DEF Lone
    <3>2. Solo(q)
      BY <3>1 DEF AllRuns, RunInv
    <3> QED
      BY <1>3, <2>2, <3>2 DEF Solo
  <2>3. ASSUME run'[p].pc # "idle", Lone(p)'
        PROVE  Solo(p)' /\ ServersPhase(p)' /\ TempPhase(p)' /\ RowPhase(p)'
    <3>1. Lone(p)
      BY <2>1, <2>3
    <3>2. Solo(p) /\ ServersPhase(p) /\ TempPhase(p) /\ RowPhase(p)
      BY <1>3, <3>1 DEF AllRuns, RunInv
    <3>3. Solo(p)'
      BY <2>1, <3>2 DEF Solo
    <3> QED
      BY <1>3, <2>3, <3>2, <3>3, ServersStep, TempStep, RowStep
  <2> QED
    BY <1>1, <2>2, <2>3 DEF AllRuns, RunInv
<1> QED
  BY <1>2, <1>3

LEMMA NextInv == Typed /\ AllRuns /\ GoneInv /\ [Next]_vars => AllRuns' /\ GoneInv'
<1> SUFFICES ASSUME Typed, AllRuns, GoneInv, [Next]_vars PROVE AllRuns' /\ GoneInv'
  OBVIOUS
<1>1. CASE \E p \in Refreshers : Refresh(p)
  BY <1>1, RefreshInv
<1>2. CASE \E a \in Accounts, d \in CallerIds \cup {None} : ChangeVoip(a, d)
  <2>1. PICK a \in Accounts, d \in CallerIds \cup {None} : ChangeVoip(a, d)
    BY <1>2
  <2>2. run \in [Refreshers -> Run] /\ voip \in [Accounts -> CallerIds \cup {None}]
    BY DEF Typed, TypeOK
  <2>3. UNCHANGED <<dids, pops, tmade, tsubacct, subacct>>
    BY <2>1 DEF ChangeVoip, tables
  <2>4. GoneInv' /\ gone \subseteq gone'
    BY <2>1, <2>2 DEF ChangeVoip, GoneInv
  <2>5. \A p \in Refreshers : run'[p] = IF run[p].pc = "idle" THEN Idle
                                        ELSE [run[p] EXCEPT !.alone = FALSE]
    BY <2>1 DEF ChangeVoip, At
  <2>6. \A p \in Refreshers :
            /\ run'[p].pc = run[p].pc
            /\ run[p].pc # "idle" => /\ run'[p].list = run[p].list /\ run'[p].got = run[p].got
                                     /\ ~run'[p].alone /\ run'[p].met = run[p].met
                                     /\ run'[p].blind = run[p].blind
    <3> SUFFICES ASSUME NEW p \in Refreshers
                 PROVE  /\ run'[p].pc = run[p].pc
                        /\ run[p].pc # "idle" => /\ run'[p].list = run[p].list
                                                 /\ run'[p].got = run[p].got
                                                 /\ ~run'[p].alone
                                                 /\ run'[p].met = run[p].met
                                                 /\ run'[p].blind = run[p].blind
      OBVIOUS
    <3>1. CASE run[p].pc = "idle"
      <4>1. run'[p] = Idle
        BY <2>5, <3>1
      <4>2. run'[p].pc = "idle"
        BY <4>1 DEF Idle
      <4> QED
        BY <3>1, <4>2
    <3>2. CASE run[p].pc # "idle"
      <4>1. run'[p] = [run[p] EXCEPT !.alone = FALSE] /\ run[p] \in Run
        BY <2>2, <2>5, <3>2
      <4> QED
        BY <4>1 DEF Run
    <3> QED
      BY <3>1, <3>2
  <2>7. ASSUME NEW p \in Refreshers, run'[p].pc # "idle", Lone(p)'
        PROVE  Solo(p)' /\ ServersPhase(p)' /\ TempPhase(p)' /\ RowPhase(p)'
    <3>1. Solo(p) /\ ServersPhase(p) /\ TempPhase(p) /\ RowPhase(p)
      BY <2>3, <2>6, <2>7 DEF AllRuns, RunInv, Lone
    <3>2. Solo(p)'
      BY <2>6, <3>1 DEF Solo
    <3>3. ServersPhase(p)'
      BY <2>3, <2>6, <2>7, <3>1 DEF ServersPhase
    <3>4. TempPhase(p)'
      BY <2>3, <2>4, <2>6, <2>7, <3>1 DEF TempPhase
    <3>5. RowPhase(p)'
      BY <2>3, <2>6, <2>7, <3>1 DEF RowPhase
    <3> QED
      BY <3>2, <3>3, <3>4, <3>5
  <2> QED
    BY <2>4, <2>7 DEF AllRuns, RunInv
<1>3. CASE \E a \in Accounts, accept \in BOOLEAN : Apply(a, accept)
  <2>1. PICK a \in Accounts, accept \in BOOLEAN : Apply(a, accept)
    BY <1>3
  <2>2. UNCHANGED <<voip, dids, pops, tmade, tsubacct, run, gone>>
    BY <2>1 DEF Apply
  <2>3. \A b \in DOMAIN subacct : subacct[b] \in SubAcct
    BY DEF Typed, TypeOK
  <2>4. /\ DOMAIN subacct' = DOMAIN subacct
        /\ \A b \in DOMAIN subacct : /\ subacct'[b].callerid = subacct[b].callerid
                                     /\ subacct'[b].filepasswd = subacct[b].filepasswd
                                     /\ subacct'[b].uuid = subacct[b].uuid
    BY <2>1, <2>3 DEF Apply, SubAcct
  <2>5. ASSUME NEW p \in Refreshers, RunInv(p) PROVE RunInv(p)'
    <3>1. CASE run[p].pc # "idle" /\ Lone(p)
      <4>1. Solo(p)' /\ ServersPhase(p)' /\ TempPhase(p)'
        BY <2>2, <2>5, <3>1 DEF RunInv, Solo, ServersPhase, TempPhase
      <4>2. RowPhase(p)'
        BY <2>2, <2>4, <2>5, <3>1 DEF RunInv, RowPhase
      <4> QED
        BY <4>1, <4>2 DEF RunInv
    <3>2. CASE ~(run[p].pc # "idle" /\ Lone(p))
      BY <2>2, <3>2 DEF RunInv, Lone
    <3> QED
      BY <3>1, <3>2
  <2> QED
    BY <2>2, <2>5 DEF AllRuns, GoneInv
<1>4. CASE Crash
  <2>1. \A p \in Refreshers : run'[p].pc = "idle"
    BY <1>4 DEF Crash, Idle
  <2> QED
    BY <1>4, <2>1 DEF Crash, AllRuns, RunInv, GoneInv
<1>5. CASE UNCHANGED vars
  <2>1. UNCHANGED <<voip, dids, pops, tmade, tsubacct, subacct, run, gone>>
    BY <1>5 DEF vars, tables, limits
  <2>2. ASSUME NEW p \in Refreshers, RunInv(p) PROVE RunInv(p)'
    <3>1. Solo(p) <=> Solo(p)'
      BY <2>1 DEF Solo
    <3>2. TempPhase(p) <=> TempPhase(p)'
      BY <2>1 DEF TempPhase
    <3>3. RowPhase(p) <=> RowPhase(p)'
      BY <2>1 DEF RowPhase
    <3>4. ServersPhase(p) <=> ServersPhase(p)'
      BY <2>1 DEF ServersPhase
    <3> QED
      BY <2>1, <2>2, <3>1, <3>2, <3>3, <3>4 DEF RunInv, Lone
  <2> QED
    BY <2>1, <2>2 DEF AllRuns, GoneInv
<1> QED
  BY <1>1, <1>2, <1>3, <1>4, <1>5 DEF Next

LEMMA RunsCorrect == Spec => [](Typed /\ AllRuns /\ GoneInv)
<1>1. Typed /\ AllRuns /\ GoneInv /\ [Next]_vars => Typed' /\ AllRuns' /\ GoneInv'
  BY NextTyped, NextInv
<1> QED
  BY <1>1, InitTyped, InitInv, PTL DEF Spec

-----------------------------------------------------------------------------
(* Steps that the properties are about                                     *)

\* Rows go in one statement only.
LEMMA RowsStay ==
  ASSUME Typed, [Next]_vars, ~(DOMAIN subacct \subseteq DOMAIN subacct')
  PROVE  \E p \in Refreshers : DeleteGone(p)
<1>1. CASE \E p \in Refreshers : Refresh(p)
  <2>1. PICK p \in Refreshers : Refresh(p)
    BY <1>1
  <2>2. ~UNCHANGED subacct
    OBVIOUS
  <2>3. ~Append(p) /\ ~UpdateAll(p) /\ ~SetPasswd(p) /\ ~SetUuid(p) /\ ~SetDomains(p)
    BY DEF Append, UpdateAll, SetPasswd, SetUuid, SetDomains
  <2> QED
    BY <2>1, <2>2, <2>3
       DEF Refresh, Start, DeleteDids, InsertDid, GetServers, GetServersErr, DeletePops,
           InsertPop, DropTemp, CreateTemp, GetSubAccounts, InsertTemp, NoTemp, NullPasswd,
           ScriptRead, ScriptMv, ScriptErr, NullUuid, Fail, tables
<1>2. CASE \/ \E a \in Accounts, d \in CallerIds \cup {None} : ChangeVoip(a, d)
           \/ Crash \/ UNCHANGED vars
  BY <1>2 DEF ChangeVoip, Crash, vars, tables
<1>3. CASE \E a \in Accounts, accept \in BOOLEAN : Apply(a, accept)
  BY <1>3 DEF Apply
<1> QED
  BY <1>1, <1>2, <1>3 DEF Next

\* A refresh that meets no other one deletes only accounts that VoIP.ms did not
\* have at some moment since it began, and with them the administrator's choices,
\* whatever earlier refreshes left in the one temporary table.
THEOREM DeletionCorrect == Spec => OnlyGoneDeletedAlone
<1>1. Typed /\ AllRuns /\ GoneInv /\ [Next]_vars =>
        [(\A p \in Refreshers : ~run[p].met) => KeepsOthers]_vars
  <2> SUFFICES ASSUME Typed, AllRuns, GoneInv, [Next]_vars,
                      \A p \in Refreshers : ~run[p].met,
                      NEW a \in DOMAIN subacct \ DOMAIN subacct'
               PROVE  a \in gone
    BY DEF KeepsOthers
  <2>1. PICK p \in Refreshers : DeleteGone(p)
    BY RowsStay
  <2>2. run[p].pc = "delete"
    BY <2>1 DEF DeleteGone, At
  <2>3. TempPhase(p)
    BY <2>2 DEF AllRuns, RunInv, Lone
  <2>4. tsubacct = run[p].got /\ \A b \in Accounts : run[p].got[b] = None => b \in gone
    BY <2>2, <2>3 DEF TempPhase, HasTemp, PastGet
  <2>5. a \in Accounts /\ a \notin Existing(tsubacct)
    BY <2>1 DEF DeleteGone, Typed, TypeOK
  <2> QED
    BY <2>4, <2>5 DEF Existing
<1> QED
  BY <1>1, RunsCorrect, PTL DEF Spec, OnlyGoneDeletedAlone

\* The servers of the rows change in one statement only.
LEMMA DomainsStay ==
  ASSUME Typed, [Next]_vars, NEW a \in DOMAIN subacct, a \in DOMAIN subacct',
         subacct'[a].domain # subacct[a].domain
  PROVE  \E p \in Refreshers : SetDomains(p)
<1>1. \A b \in DOMAIN subacct : subacct[b] \in SubAcct
  BY DEF Typed, TypeOK
<1>2. CASE \E p \in Refreshers : Refresh(p)
  <2>1. PICK p \in Refreshers : Refresh(p)
    BY <1>2
  <2>2. ~Append(p)
    BY DEF Append
  <2>3. ~DeleteGone(p)
    BY DEF DeleteGone
  <2>4. ~UpdateAll(p)
    BY <1>1 DEF UpdateAll, SubAcct
  <2>5. ~SetPasswd(p)
    BY <1>1 DEF SetPasswd, SubAcct
  <2>6. ~SetUuid(p)
    BY <1>1 DEF SetUuid, SubAcct
  <2>7. ~UNCHANGED subacct
    OBVIOUS
  <2> QED
    BY <2>1, <2>2, <2>3, <2>4, <2>5, <2>6, <2>7
       DEF Refresh, Start, DeleteDids, InsertDid, GetServers, GetServersErr, DeletePops,
           InsertPop, DropTemp, CreateTemp, GetSubAccounts, InsertTemp, NoTemp, NullPasswd,
           ScriptRead, ScriptMv, ScriptErr, NullUuid, Fail, tables
<1>3. CASE \/ \E b \in Accounts, d \in CallerIds \cup {None} : ChangeVoip(b, d)
           \/ Crash \/ UNCHANGED vars
  BY <1>3 DEF ChangeVoip, Crash, vars, tables
<1>4. CASE \E b \in Accounts, accept \in BOOLEAN : Apply(b, accept)
  <2>1. PICK b \in Accounts, accept \in BOOLEAN : Apply(b, accept)
    BY <1>4
  <2> QED
    BY <1>1, <2>1 DEF Apply, SubAcct
<1> QED
  BY <1>2, <1>3, <1>4 DEF Next

\* What the last statement of a refresh makes of a row
LEMMA DomainsSet ==
  ASSUME Typed, NEW p \in Refreshers, SetDomains(p), ServersPhase(p),
         run[p].alone \/ ~run[p].blind, NEW a \in DOMAIN subacct
  PROVE  /\ subacct'[a] = [subacct[a] EXCEPT !.domain =
                             IF subacct[a].callerid \in Dids THEN PopOf[subacct[a].callerid]
                             ELSE None]
         /\ subacct'[a].callerid = subacct[a].callerid
         /\ subacct'[a].filepasswd = subacct[a].filepasswd
         /\ subacct'[a].uuid = subacct[a].uuid
         /\ subacct'[a].domain = IF subacct[a].callerid \in Dids
                                 THEN PopOf[subacct[a].callerid] ELSE None
<1>1. run[p].pc = "domain" /\ subacct[a] \in SubAcct
  BY DEF SetDomains, At, Typed, TypeOK
<1>2. dids = Dids /\ pops = Pops
  BY <1>1 DEF ServersPhase, PastDids, PastPops, Steps
<1>3. \A d : Domain(d) = IF d \in Dids THEN PopOf[d] ELSE None
  BY <1>2, NamesAssumption DEF Domain
<1>4. subacct'[a] = [subacct[a] EXCEPT !.domain = Domain(subacct[a].callerid)]
  BY DEF SetDomains
<1> QED
  BY <1>1, <1>3, <1>4 DEF SubAcct

\* An account that can be reached under a rented number stays so at every
\* moment of a refresh, and when it fails, if VoIP.ms tells it the servers and it
\* meets no other one.
THEOREM ReachableCorrect == Spec => StaysReachable
<1> DEFINE Stays(a) ==
      subacct[a].domain # None /\ subacct'[a].callerid \in Dids => subacct'[a].domain # None
<1>1. ASSUME Typed, AllRuns, [Next]_vars,
             \A p \in Refreshers : ~run[p].met /\ ~run[p].blind,
             NEW a \in DOMAIN subacct \cap DOMAIN subacct'
      PROVE  Stays(a)
  <2>1. CASE subacct'[a].domain = subacct[a].domain
    BY <2>1
  <2>2. CASE subacct'[a].domain # subacct[a].domain
    <3>1. PICK p \in Refreshers : SetDomains(p)
      BY <1>1, <2>2, DomainsStay
    <3>2. run[p].pc = "domain" /\ ~run[p].met /\ ~run[p].blind
      BY <1>1, <3>1 DEF SetDomains, At
    <3>3. ServersPhase(p)
      BY <1>1, <3>2 DEF AllRuns, RunInv, Lone
    <3>4. \A d \in Dids : PopOf[d] # None
      BY NamesAssumption
    <3> QED
      BY <1>1, <3>1, <3>2, <3>3, <3>4, DomainsSet
  <2> QED
    BY <2>1, <2>2
<1>2. Typed /\ AllRuns /\ GoneInv /\ [Next]_vars =>
        [(\A p \in Refreshers : ~run[p].met /\ ~run[p].blind) =>
           \A a \in DOMAIN subacct \cap DOMAIN subacct' :
               subacct[a].domain # None /\ subacct'[a].callerid \in Dids =>
                   subacct'[a].domain # None]_vars
  BY <1>1
<1> QED
  BY <1>2, RunsCorrect, PTL DEF Spec, StaysReachable

\* A refresh completes in one statement only.
LEMMA CompletesAt ==
  ASSUME Typed, [Next]_vars, NEW p \in Refreshers, Completes(p)
  PROVE  SetDomains(p) /\ run[p].pc = "domain"
<1>1. /\ run[p].pc = "domain" /\ run'[p].pc = "idle"
      /\ faults' = faults /\ crashes' = crashes
  BY DEF Completes, At
<1>2. faults \in Nat /\ crashes \in Nat /\ run \in [Refreshers -> Run]
  BY DEF Typed, TypeOK
<1>3. CASE \E q \in Refreshers : Refresh(q)
  <2>1. PICK q \in Refreshers : Refresh(q)
    BY <1>3
  <2>2. CASE q = p
    <3>1. SetDomains(p) \/ Fail(p)
      BY <1>1, <2>1, <2>2
         DEF Refresh, At, Start, DeleteDids, InsertDid, GetServers, GetServersErr, DeletePops,
             InsertPop, DropTemp, CreateTemp, GetSubAccounts, InsertTemp, NoTemp, Append,
             DeleteGone, UpdateAll, NullPasswd, SetPasswd, ScriptRead, ScriptMv, ScriptErr,
             NullUuid, SetUuid
    <3>2. ~Fail(p)
      BY <1>1, <1>2 DEF Fail
    <3> QED
      BY <1>1, <3>1, <3>2
  <2>3. CASE q # p /\ run[q].pc # "idle"
    BY <1>1, <2>1, <2>3, OwnStep
  <2>4. CASE q # p /\ run[q].pc = "idle"
    <3>1. run'[p].pc = run[p].pc
      BY <2>1, <2>4, StartOf
    <3> QED
      BY <1>1, <3>1
  <2> QED
    BY <2>2, <2>3, <2>4
<1>4. CASE \E a \in Accounts, d \in CallerIds \cup {None} : ChangeVoip(a, d)
  <2>1. run'[p] = [run[p] EXCEPT !.alone = FALSE]
    BY <1>1, <1>4 DEF ChangeVoip, At
  <2> QED
    BY <1>1, <1>2, <2>1 DEF Run
<1>5. CASE \E a \in Accounts, accept \in BOOLEAN : Apply(a, accept)
  BY <1>1, <1>5 DEF Apply
<1>6. CASE Crash
  BY <1>1, <1>2, <1>6 DEF Crash
<1>7. CASE UNCHANGED vars
  BY <1>1, <1>7 DEF vars
<1> QED
  BY <1>3, <1>4, <1>5, <1>6, <1>7 DEF Next

\* A refresh without an error that is alone leaves the tables as VoIP.ms has
\* them, whatever earlier ones left behind.
THEOREM RefreshCorrect == Spec => RefreshMakesCurrent
<1>1. ASSUME Typed, AllRuns, [Next]_vars, NEW p \in Refreshers,
             Completes(p), run[p].alone
      PROVE  Current'
  <2>1. SetDomains(p) /\ run[p].pc = "domain"
    BY <1>1, CompletesAt
  <2>2. ServersPhase(p) /\ TempPhase(p) /\ RowPhase(p)
    BY <1>1, <2>1 DEF AllRuns, RunInv, Lone
  <2>3. run[p].got = voip /\ voip' = voip
    BY <1>1, <2>1, <2>2 DEF TempPhase, PastGet, PastUpdate, SetDomains
  <2>4. /\ DOMAIN subacct = Existing(voip)
        /\ \A a \in DOMAIN subacct : /\ subacct[a].callerid = voip[a]
                                     /\ subacct[a].filepasswd /\ subacct[a].uuid
    BY <2>1, <2>2, <2>3 DEF RowPhase, PastDelete, PastUpdate, PastPasswd
  <2>5. DOMAIN subacct' = DOMAIN subacct /\ Existing(voip)' = Existing(voip)
    BY <2>1, <2>3 DEF SetDomains, Existing
  <2> QED
    BY <1>1, <2>1, <2>2, <2>3, <2>4, <2>5, DomainsSet DEF Current
<1>2. Typed /\ AllRuns /\ GoneInv /\ [Next]_vars =>
        [\A p \in Refreshers : Completes(p) /\ run[p].alone => Current']_vars
  BY <1>1
<1> QED
  BY <1>2, RunsCorrect, PTL DEF Spec, RefreshMakesCurrent

-----------------------------------------------------------------------------
(* The password file                                                       *)

LEMMA InitFile == Init => FileInv
  BY DEF Init, FileInv, FileRun, Filed, HavePw, Idle

\* The steps that leave the file and the passwords alone
LEMMA FileKept ==
  ASSUME Typed, htpw' = htpw, DOMAIN subacct' = DOMAIN subacct,
         \A a \in DOMAIN subacct : subacct'[a].filepasswd = subacct[a].filepasswd
  PROVE  HavePw' = HavePw /\ (Filed' <=> Filed) /\ (AllPw' <=> AllPw)
<1>1. HavePw' = HavePw
  BY DEF HavePw
<1> QED
  BY <1>1 DEF Filed, AllPw

LEMMA RowsKept ==
  ASSUME Typed, NEW p \in Refreshers,
         UpdateAll(p) \/ NullUuid(p) \/ SetUuid(p) \/ SetDomains(p)
  PROVE  (Filed' <=> Filed) /\ (AllPw' <=> AllPw)
<1>1. \A a \in DOMAIN subacct : subacct[a] \in SubAcct
  BY DEF Typed, TypeOK
<1>2. /\ htpw' = htpw /\ DOMAIN subacct' = DOMAIN subacct
      /\ \A a \in DOMAIN subacct : subacct'[a].filepasswd = subacct[a].filepasswd
  <2>1. CASE UpdateAll(p)
    BY <1>1, <2>1 DEF UpdateAll, SubAcct
  <2>2. CASE NullUuid(p)
    BY <2>2 DEF NullUuid, tables
  <2>3. CASE SetUuid(p)
    BY <1>1, <2>3 DEF SetUuid, SubAcct
  <2>4. CASE SetDomains(p)
    BY <1>1, <2>4 DEF SetDomains, SubAcct
  <2> QED
    BY <2>1, <2>2, <2>3, <2>4
<1> QED
  BY <1>2, FileKept

\* A new row has no password yet, and no line in the file.
LEMMA AppendKept ==
  ASSUME NEW p \in Refreshers, Append(p), Filed
  PROVE  Filed'
<1>1. \A a \in DOMAIN subacct' :
          subacct'[a].filepasswd <=> a \in DOMAIN subacct /\ subacct[a].filepasswd
  BY DEF Append
<1>2. DOMAIN subacct \subseteq DOMAIN subacct' /\ htpw' = htpw
  BY DEF Append
<1>3. HavePw' = HavePw
  BY <1>1, <1>2 DEF HavePw
<1> QED
  BY <1>2, <1>3 DEF Filed

\* The script writes what the rows have, and with no row there is nothing to have.
LEMMA MvFiled ==
  ASSUME NEW p \in Refreshers, ScriptMv(p), RowPhase(p)
  PROVE  AllPw' /\ Filed'
<1>1. run[p].pc = "mv" /\ subacct' = subacct
  BY DEF ScriptMv, At
<1>2. run[p].list = DOMAIN subacct /\ HavePw = DOMAIN subacct
  BY <1>1 DEF RowPhase, PastPasswd, PastUpdate, HavePw
<1>3. htpw' = HavePw \/ HavePw = {}
  BY <1>2 DEF ScriptMv
<1> QED
  BY <1>1, <1>2, <1>3 DEF AllPw, Filed, HavePw

\* unfiled notes everything that makes the file differ from the rows.
LEMMA FiledStep ==
  ASSUME Typed, AllRuns, ~unfiled => Filed, NEW p \in Refreshers, Refresh(p), ~unfiled'
  PROVE  Filed'
<1>1. CASE Append(p)
  BY <1>1, AppendKept DEF Append
<1>2. CASE UpdateAll(p) \/ NullUuid(p) \/ SetUuid(p) \/ SetDomains(p)
  <2>1. unfiled' = unfiled
    BY <1>2 DEF UpdateAll, NullUuid, SetUuid, SetDomains
  <2> QED
    BY <1>2, <2>1, RowsKept
<1>3. CASE DeleteGone(p)
  <2>1. /\ ~unfiled /\ htpw' = htpw /\ DOMAIN subacct' = DOMAIN subacct
        /\ \A a \in DOMAIN subacct' : subacct'[a] = subacct[a]
    BY <1>3 DEF DeleteGone
  <2> QED
    BY <2>1, FileKept
<1>4. CASE SetPasswd(p)
  <2>1. ~unfiled /\ htpw' = htpw /\ subacct' = subacct
    BY <1>4 DEF SetPasswd
  <2> QED
    BY <2>1 DEF Filed, HavePw
<1>5. CASE ScriptMv(p)
  <2>1. ~run[p].met /\ run[p].pc = "mv"
    BY <1>5 DEF ScriptMv, At
  <2>2. RowPhase(p)
    BY <2>1 DEF AllRuns, RunInv, Lone
  <2> QED
    BY <1>5, <2>2, MvFiled
<1>6. CASE UNCHANGED <<subacct, htpw, unfiled>>
  BY <1>6 DEF Filed, HavePw
<1> QED
  BY <1>1, <1>2, <1>3, <1>4, <1>5, <1>6
     DEF Refresh, Start, DeleteDids, InsertDid, GetServers, GetServersErr, DeletePops,
         InsertPop, DropTemp, CreateTemp, GetSubAccounts, InsertTemp, NoTemp, NullPasswd,
         ScriptRead, ScriptErr, Fail, tables

\* newpw notes for the script what the refresh itself has changed.
LEMMA FileStep ==
  ASSUME Typed, NEW p \in Refreshers, Refresh(p), run[p].pc # "idle", run'[p].pc # "idle",
         run'[p].synced, RowPhase(p), FilePhase(p)
  PROVE  FilePhase(p)'
<1>1. ~NoTemp(p) /\ ~Fail(p) /\ ~SetDomains(p) /\ ~Start(p) /\ ~ScriptErr(p)
  BY AfterReturn, AfterOther DEF NoTemp, Fail, SetDomains, Start, At
<1>2. \A a \in DOMAIN subacct : subacct[a] \in SubAcct
  BY DEF Typed, TypeOK
<1>3. CASE \/ DeleteDids(p) \/ InsertDid(p) \/ GetServers(p) \/ GetServersErr(p)
           \/ DeletePops(p) \/ InsertPop(p) \/ DropTemp(p) \/ CreateTemp(p)
           \/ GetSubAccounts(p) \/ InsertTemp(p)
  <2>1. UNCHANGED <<subacct, htpw>>
    BY <1>3 DEF DeleteDids, InsertDid, GetServers, GetServersErr, DeletePops, InsertPop,
                DropTemp, CreateTemp, GetSubAccounts, InsertTemp, tables
  <2>2. run[p].pc \in {"delete dids", "insert did", "getServersInfo", "delete pops",
                       "insert pop", "drop", "create", "getSubAccounts", "insert tsubacct"}
    BY <1>3 DEF DeleteDids, InsertDid, GetServers, GetServersErr, DeletePops, InsertPop,
                DropTemp, CreateTemp, GetSubAccounts, InsertTemp, At
  <2>3. /\ run'[p].pc \in {"insert did", "getServersInfo", "delete pops", "insert pop",
                           "drop", "create", "getSubAccounts", "insert tsubacct", "append"}
        /\ run'[p].newpw = run[p].newpw
    <3>1. CASE DeleteDids(p) \/ GetServers(p)
      BY <3>1, AfterGotoWith DEF DeleteDids, GetServers
    <3>2. CASE InsertDid(p) \/ InsertPop(p) \/ InsertTemp(p)
      BY <3>2, AfterGoto, AfterGotoWith, AfterReturn DEF InsertDid, InsertPop, InsertTemp
    <3>3. CASE DeletePops(p) \/ DropTemp(p) \/ CreateTemp(p)
      BY <3>3, AfterGoto, AfterReturn DEF DeletePops, DropTemp, CreateTemp
    <3> QED
      BY <1>3, <3>1, <3>2, <3>3, AfterOther
  <2>4. run[p].newpw \/ Filed
    BY <2>2 DEF FilePhase
  <2>5. run'[p].newpw \/ Filed'
    BY <2>1, <2>3, <2>4 DEF Filed, HavePw
  <2> QED
    BY <2>3, <2>5 DEF FilePhase
<1>4. CASE Append(p)
  <2>1. run[p].pc = "append" /\ run'[p].pc = "delete" /\ run'[p].newpw = run[p].newpw
    BY <1>4, AfterGoto DEF Append, At
  <2> QED
    BY <1>4, <2>1, AppendKept DEF FilePhase
<1>5. CASE DeleteGone(p)
  <2>1. /\ run[p].pc = "delete" /\ run'[p].pc = "update" /\ htpw' = htpw
        /\ run'[p].newpw = (run[p].newpw \/ DOMAIN subacct' # DOMAIN subacct)
    BY <1>5, AfterOther DEF DeleteGone, At
  <2>2. CASE DOMAIN subacct' = DOMAIN subacct
    <3>1. \A a \in DOMAIN subacct : subacct'[a].filepasswd = subacct[a].filepasswd
      BY <1>5, <2>2 DEF DeleteGone
    <3> QED
      BY <2>1, <2>2, <3>1, FileKept DEF FilePhase
  <2>3. CASE DOMAIN subacct' # DOMAIN subacct
    BY <2>1, <2>3 DEF FilePhase
  <2> QED
    BY <2>2, <2>3
<1>6. CASE UpdateAll(p)
  <2>1. /\ run[p].pc = "update" /\ run'[p].pc = "null filepasswd"
        /\ run'[p].newpw = run[p].newpw
    BY <1>6, AfterGoto DEF UpdateAll, At
  <2> QED
    BY <1>6, <2>1, RowsKept DEF FilePhase
<1>7. CASE NullPasswd(p)
  <2>1. /\ run[p].pc = "null filepasswd" /\ run'[p].pc = "filepasswd"
        /\ UNCHANGED <<subacct, htpw>>
        /\ run'[p].list = {a \in DOMAIN subacct : ~subacct[a].filepasswd}
        /\ run'[p].newpw = (run[p].newpw \/ run'[p].list # {})
    BY <1>7, AfterOther DEF NullPasswd, At, tables
  <2>2. run'[p].newpw \/ (AllPw /\ Filed)
    BY <2>1 DEF FilePhase, AllPw, HavePw
  <2>3. run'[p].newpw \/ (AllPw' /\ Filed')
    BY <2>1, <2>2 DEF AllPw, Filed, HavePw
  <2> QED
    BY <2>1, <2>3 DEF FilePhase
<1>8. CASE SetPasswd(p)
  <2>1. run[p].pc = "filepasswd" /\ htpw' = htpw
    BY <1>8 DEF SetPasswd, At
  <2>2. run[p].newpw \/ (AllPw /\ Filed)
    BY <2>1 DEF FilePhase
  <2>3. CASE run[p].list = {} /\ run[p].newpw
    <3>1. run'[p].pc = "script"
      BY <1>8, <2>3, AfterGoto DEF SetPasswd
    <3> QED
      BY <3>1 DEF FilePhase
  <2>4. CASE run[p].list = {} /\ ~run[p].newpw
    <3>1. subacct' = subacct /\ run'[p].pc = "null uuid"
      BY <1>8, <2>4, AfterGoto DEF SetPasswd
    <3>2. AllPw' /\ Filed'
      BY <2>1, <2>2, <2>4, <3>1 DEF AllPw, Filed, HavePw
    <3> QED
      BY <3>1, <3>2 DEF FilePhase
  <2>5. CASE run[p].list # {}
    <3>1. run'[p].pc = "filepasswd" /\ run'[p].newpw = run[p].newpw
      BY <1>8, <2>5, AfterGotoWith DEF SetPasswd
    <3>2. ASSUME AllPw, Filed PROVE AllPw' /\ Filed'
      <4>1. \A a \in DOMAIN subacct : subacct[a].filepasswd = TRUE
        BY <1>2, <3>2 DEF AllPw, HavePw, SubAcct
      <4>2. /\ DOMAIN subacct' = DOMAIN subacct
            /\ \A a \in DOMAIN subacct : subacct'[a].filepasswd = subacct[a].filepasswd
        BY <1>2, <1>8, <4>1 DEF SetPasswd, SubAcct
      <4> QED
        BY <2>1, <3>2, <4>2, FileKept
    <3> QED
      BY <2>2, <3>1, <3>2 DEF FilePhase
  <2> QED
    BY <2>3, <2>4, <2>5
<1>9. CASE ScriptRead(p)
  <2>1. PICK list : GotoWith(p, "mv", list)
    BY <1>9 DEF ScriptRead
  <2>2. run'[p].pc = "mv"
    BY <2>1, AfterGotoWith
  <2> QED
    BY <2>2 DEF FilePhase
<1>10. CASE ScriptMv(p)
  <2>1. run'[p].pc = "null uuid"
    BY <1>10, AfterGoto DEF ScriptMv
  <2> QED
    BY <1>10, <2>1, MvFiled DEF FilePhase
<1>11. CASE NullUuid(p) \/ SetUuid(p)
  <2>1. run[p].pc \in {"null uuid", "uuid"}
    BY <1>11 DEF NullUuid, SetUuid, At
  <2>2. AllPw' /\ Filed'
    BY <1>11, <2>1, RowsKept DEF FilePhase
  <2>3. run'[p].pc \in {"uuid", "domain"}
    <3>1. CASE NullUuid(p)
      <4>1. PICK list : GotoWith(p, "uuid", list)
        BY <3>1 DEF NullUuid
      <4> QED
        BY <4>1, AfterGotoWith
    <3>2. CASE SetUuid(p)
      BY <3>2, AfterGoto, AfterGotoWith DEF SetUuid
    <3> QED
      BY <1>11, <3>1, <3>2
  <2> QED
    BY <2>2, <2>3 DEF FilePhase
<1> QED
  BY <1>1, <1>3, <1>4, <1>5, <1>6, <1>7, <1>8, <1>9, <1>10, <1>11 DEF Refresh

\* Where no refresh moves: only flags change, or fields that are no password's.
LEMMA FileStill ==
  ASSUME Typed, FileInv, UNCHANGED <<htpw, unfiled>>,
         DOMAIN subacct' = DOMAIN subacct,
         \A a \in DOMAIN subacct : subacct'[a].filepasswd = subacct[a].filepasswd,
         \A p \in Refreshers :
             run'[p].pc # "idle" => /\ run[p].pc = run'[p].pc
                                    /\ run[p].newpw = run'[p].newpw
                                    /\ run[p].met = run'[p].met
                                    /\ run[p].synced = run'[p].synced
  PROVE  FileInv'
<1>1. (Filed' <=> Filed) /\ (AllPw' <=> AllPw)
  BY FileKept
<1>2. ASSUME NEW p \in Refreshers PROVE FileRun(p)'
  BY <1>1 DEF FileInv, FileRun, FilePhase
<1> QED
  BY <1>1, <1>2 DEF FileInv

LEMMA NextFile == Typed /\ AllRuns /\ FileInv /\ [Next]_vars => FileInv'
<1> SUFFICES ASSUME Typed, AllRuns, FileInv, [Next]_vars PROVE FileInv'
  OBVIOUS
<1>1. run \in [Refreshers -> Run] /\ \A a \in DOMAIN subacct : subacct[a] \in SubAcct
  BY DEF Typed, TypeOK
<1>2. CASE \E p \in Refreshers : Refresh(p)
  <2>1. PICK p \in Refreshers : Refresh(p)
    BY <1>2
  <2>2. ~unfiled' => Filed'
    BY <2>1, FiledStep DEF FileInv
  <2>3. CASE run[p].pc = "idle"
    <3>1. \A q \in Refreshers \ {p} : run'[q].pc # "idle" => run'[q].met
      BY <2>1, <2>3, StartOf
    <3>2. ASSUME run'[p].synced PROVE FilePhase(p)'
      <4>1. run'[p].pc = "delete dids" /\ UNCHANGED <<htpw, subacct>>
        BY <2>1, <2>3, StartOf
      <4>2. ~unfiled \/ run'[p].newpw
        BY <2>1, <2>3, <3>2, StartOf
      <4>3. Filed' \/ run'[p].newpw
        BY <4>1, <4>2 DEF FileInv, Filed, HavePw
      <4> QED
        BY <4>1, <4>3 DEF FilePhase
    <3> QED
      BY <2>2, <3>1, <3>2 DEF FileInv, FileRun
  <2>4. CASE run[p].pc # "idle"
    <3>1. /\ \A q \in Refreshers \ {p} : run'[q] = run[q]
          /\ run'[p].pc # "idle" => /\ run'[p].met = run[p].met
                                    /\ run'[p].synced => run[p].synced
      BY <2>1, <2>4, OwnStep DEF OwnFlags
    <3>2. FileRun(p)'
      <4> SUFFICES ASSUME run'[p].pc # "idle", ~run'[p].met, run'[p].synced
                   PROVE  FilePhase(p)'
        BY DEF FileRun
      <4>1. ~run[p].met /\ run[p].synced
        BY <3>1
      <4>2. RowPhase(p) /\ FilePhase(p)
        BY <2>4, <4>1 DEF AllRuns, RunInv, Lone, FileInv, FileRun
      <4> QED
        BY <2>1, <2>4, <4>2, FileStep
    <3>3. ASSUME NEW q \in Refreshers \ {p}, run'[q].pc # "idle", ~run'[q].met PROVE FALSE
      <4>1. Solo(q)
        BY <3>1, <3>3 DEF AllRuns, RunInv, Lone
      <4> QED
        BY <2>4, <4>1 DEF Solo
    <3> QED
      BY <2>2, <3>2, <3>3 DEF FileInv, FileRun
  <2> QED
    BY <2>3, <2>4
<1>3. CASE \E a \in Accounts, d \in CallerIds \cup {None} : ChangeVoip(a, d)
  <2>1. UNCHANGED <<subacct, htpw, unfiled>>
    BY <1>3 DEF ChangeVoip, tables
  <2>2. \A p \in Refreshers : run'[p] = IF run[p].pc = "idle" THEN Idle
                                        ELSE [run[p] EXCEPT !.alone = FALSE]
    BY <1>3 DEF ChangeVoip, At
  <2>3. ASSUME NEW p \in Refreshers, run'[p].pc # "idle"
        PROVE  /\ run[p].pc = run'[p].pc /\ run[p].newpw = run'[p].newpw
               /\ run[p].met = run'[p].met /\ run[p].synced = run'[p].synced
    <3>1. run[p].pc # "idle"
      <4>1. CASE run[p].pc = "idle"
        <5>1. run'[p] = Idle
          BY <2>2, <4>1
        <5> QED
          BY <2>3, <5>1 DEF Idle
      <4> QED
        BY <4>1
    <3>2. run'[p] = [run[p] EXCEPT !.alone = FALSE] /\ run[p] \in Run
      BY <1>1, <2>2, <3>1
    <3> QED
      BY <3>2 DEF Run
  <2> QED
    BY <2>1, <2>3, FileStill
<1>4. CASE \E a \in Accounts, accept \in BOOLEAN : Apply(a, accept)
  <2>1. PICK a \in Accounts, accept \in BOOLEAN : Apply(a, accept)
    BY <1>4
  <2>2. UNCHANGED <<htpw, unfiled, run>>
    BY <2>1 DEF Apply
  <2>3. /\ DOMAIN subacct' = DOMAIN subacct
        /\ \A b \in DOMAIN subacct : subacct'[b].filepasswd = subacct[b].filepasswd
    BY <1>1, <2>1 DEF Apply, SubAcct
  <2> QED
    BY <2>2, <2>3, FileStill
<1>5. CASE Crash
  <2>1. UNCHANGED <<subacct, htpw, unfiled>> /\ \A p \in Refreshers : run'[p].pc = "idle"
    BY <1>5 DEF Crash, Idle
  <2> QED
    BY <2>1, FileStill
<1>6. CASE UNCHANGED vars
  <2>1. UNCHANGED <<subacct, htpw, unfiled, run>>
    BY <1>6 DEF vars, tables
  <2> QED
    BY <2>1, FileStill
<1> QED
  BY <1>2, <1>3, <1>4, <1>5, <1>6 DEF Next

\* After a refresh that met no other one, and whose script did not fail, the
\* password file has just the accounts that have a row, whatever else failed before
\* it, if it started with a file that was right or missing (pop_subacctdb's
\* newfilepasswd, filepasswd.sh).
THEOREM PasswordsCorrect == Spec => PasswordsCurrent
<1>1. ASSUME Typed, AllRuns, FileInv, [Next]_vars, NEW p \in Refreshers,
             Completes(p), ~run[p].met, run[p].synced, DOMAIN subacct' # {}
      PROVE  htpw' = DOMAIN subacct'
  <2>1. SetDomains(p) /\ run[p].pc = "domain"
    BY <1>1, CompletesAt
  <2>2. AllPw /\ Filed
    BY <1>1, <2>1 DEF FileInv, FileRun, FilePhase
  <2>3. htpw' = htpw /\ DOMAIN subacct' = DOMAIN subacct
    BY <2>1 DEF SetDomains
  <2> QED
    BY <1>1, <2>2, <2>3 DEF AllPw, Filed
<1>2. Typed /\ AllRuns /\ FileInv /\ [Next]_vars =>
        [\A p \in Refreshers :
            Completes(p) /\ ~run[p].met /\ run[p].synced /\ DOMAIN subacct' # {} =>
                htpw' = DOMAIN subacct']_vars
  BY <1>1
<1>3. Spec => []FileInv
  BY InitFile, NextFile, RunsCorrect, PTL DEF Spec
<1> QED
  BY <1>2, <1>3, RunsCorrect, PTL DEF Spec, PasswordsCurrent
=============================================================================
