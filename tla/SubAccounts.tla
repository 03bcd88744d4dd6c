---------------------------- MODULE SubAccounts ----------------------------
(***************************************************************************)
(* pop_subacctdb of scripts/mmsgate2.go: the tables dids, pops and subacct *)
(* are brought up to date from VoIP.ms.  main runs it at startup, and each *)
(* web request for the sub account page runs it again in its own           *)
(* goroutine.  Every API call and SQL statement is a step: nothing is in a *)
(* transaction, and all runs use the one connection of the pool and hence  *)
(* the same temporary table.                                               *)
(***************************************************************************)
EXTENDS Naturals

CONSTANTS
    Accounts,       \* names that a sub account can have, as numbers
    Dids,           \* the rented phone numbers, as numbers
    Pops,           \* the servers of VoIP.ms, as numbers
    PopOf,          \* PopOf[d]: the server that DID d is set to
    Refreshers,     \* goroutines that may run pop_subacctdb
    NoDid,          \* a caller id that is none of them
    None,           \* SQL's NULL; also: no such account at VoIP.ms
    NoFile,         \* stands for a .htpasswdfile that does not exist
    MaxStarts,      \* bounds the refreshes
    MaxUpsets       \* and what may come between their steps, see Upset

ASSUME NamesAssumption ==
    /\ Accounts \subseteq Nat /\ Dids \subseteq Nat /\ Pops \subseteq Nat
    /\ PopOf \in [Dids -> Pops]
    /\ None \notin Dids \cup Pops \cup {NoDid} /\ NoDid \notin Dids
    /\ NoFile \notin Accounts
ASSUME LimitsAssumption ==
    {MaxStarts, MaxUpsets} \subseteq Nat

VARIABLES
    voip,       \* voip[a]: caller id DID of account a at VoIP.ms, None if no account
    dids, pops, \* the keys in tables dids and pops
    tmade,      \* temporary table tsubacct exists
    tsubacct,   \* its contents: account -> caller id
    subacct,    \* table subacct: account -> row
    htpw,       \* the accounts in .htpasswdfile, {NoFile} if there is none
    run,        \* what each refresher is doing
    \* history
    gone,       \* accounts that VoIP.ms did not have at some time, since a
                \* refresh last started while no other one was under way
    unfiled,    \* rows were deleted or passwords made, and no refresh that met no
                \* other one has written them to .htpasswdfile
    overlaps,   \* refreshes that started while another one was under way
    starts, faults, changes, applies, crashes

tables == <<dids, pops, tmade, tsubacct, subacct, htpw>>
limits == <<overlaps, starts, faults, changes, applies, crashes>>
vars == <<voip, tables, run, gone, unfiled, limits>>

CallerIds == Dids \cup {NoDid}

SubAcct == [accept : BOOLEAN,               \* smsmms
            set : BOOLEAN,                  \* the administrator chose smsmms
            callerid : CallerIds, domain : Pops \cup {None},
            filepasswd : BOOLEAN, uuid : BOOLEAN]      \* not NULL

Steps == {"idle", "delete dids", "insert did", "getServersInfo",
          "delete pops", "insert pop", "drop", "create", "getSubAccounts",
          "insert tsubacct", "append", "delete", "update", "null filepasswd",
          "filepasswd", "script", "mv", "null uuid", "uuid", "domain"}

\* list: the keys that a loop still has to work through; got: the accounts that
\* getSubAccounts returned.  History: alone: no error so far, no other run at the
\* same time, and VoIP.ms has not changed meanwhile; met: another run at the same
\* time; blind: getServersInfo failed; synced: the password file was as the rows
\* are, or missing, when it started, and its script has not failed.
Run == [pc : Steps, list : SUBSET Nat, got : [Accounts -> CallerIds \cup {None}],
        newpw : BOOLEAN, alone : BOOLEAN, met : BOOLEAN, blind : BOOLEAN,
        synced : BOOLEAN]

Nothing == [a \in Accounts |-> None]
Idle == [pc |-> "idle", list |-> {}, got |-> Nothing, newpw |-> FALSE,
         alone |-> FALSE, met |-> FALSE, blind |-> FALSE, synced |-> FALSE]

Existing(f) == {a \in Accounts : f[a] # None}
Missing == Accounts \ Existing(voip)

Init ==
    /\ voip \in [Accounts -> CallerIds \cup {None}]
    /\ dids = {} /\ pops = {}
    /\ tmade = FALSE /\ tsubacct = Nothing
    /\ subacct = [a \in {} |-> None]
    /\ htpw = {NoFile}
    /\ run = [p \in Refreshers |-> Idle]
    /\ gone = Missing /\ unfiled = FALSE
    /\ overlaps = 0 /\ starts = 0 /\ faults = 0 /\ changes = 0 /\ applies = 0 /\ crashes = 0

-----------------------------------------------------------------------------
(* One refresh                                                             *)

\* Another upset: an error, an overlap, a change at VoIP.ms or by the
\* administrator, a crash.
Upset == overlaps + faults + changes + applies + crashes < MaxUpsets

At(p, step) == run[p].pc = step
Goto(p, step) == run' = [run EXCEPT ![p].pc = step]
GotoWith(p, step, list) == run' = [run EXCEPT ![p].pc = step, ![p].list = list]
Return(p) == run' = [run EXCEPT ![p] = Idle]

\* The loops go through what an API call or a query returned, in its order.
Least(s) == CHOOSE x \in s : \A y \in s : x <= y
Rest(p) == run[p].list \ {Least(run[p].list)}

\* getDIDsInfo is called next, and changes nothing here.
Start(p) ==
    /\ At(p, "idle") /\ starts < MaxStarts
    /\ starts' = starts + 1
    /\ LET others == {q \in Refreshers \ {p} : ~At(q, "idle")}
       IN /\ IF others = {} THEN gone' = Missing /\ UNCHANGED overlaps
             ELSE Upset /\ overlaps' = overlaps + 1 /\ UNCHANGED gone
          /\ run' = [q \in Refreshers |->
                       IF q = p THEN [Idle EXCEPT !.pc = "delete dids",
                                                  !.newpw = htpw = {NoFile},
                                                  !.alone = others = {},
                                                  !.met = others # {},
                                                  !.synced = ~unfiled \/ htpw = {NoFile}]
                       ELSE [run[q] EXCEPT !.alone = FALSE, !.met = ~At(q, "idle")]]
    /\ UNCHANGED <<voip, tables, unfiled, faults, changes, applies, crashes>>

DeleteDids(p) ==
    /\ At(p, "delete dids")
    /\ dids' = {}
    /\ GotoWith(p, "insert did", Dids)
    /\ UNCHANGED <<voip, pops, tmade, tsubacct, subacct, htpw, gone, unfiled, limits>>

\* Column did is UNIQUE: a row that another run inserted ends this one.
InsertDid(p) ==
    /\ At(p, "insert did")
    /\ IF run[p].list = {}
       THEN /\ Goto(p, "getServersInfo")
            /\ UNCHANGED dids
       ELSE LET d == Least(run[p].list)
            IN /\ dids' = dids \cup {d}
               /\ IF d \in dids THEN Return(p) ELSE GotoWith(p, "insert did", Rest(p))
    /\ UNCHANGED <<voip, pops, tmade, tsubacct, subacct, htpw, gone, unfiled, limits>>

GetServers(p) ==
    /\ At(p, "getServersInfo")
    /\ GotoWith(p, "delete pops", Pops)
    /\ UNCHANGED <<voip, tables, gone, unfiled, limits>>

\* This error is only reported: the refresh goes on without a server.
GetServersErr(p) ==
    /\ At(p, "getServersInfo")
    /\ Upset /\ faults' = faults + 1
    /\ run' = [run EXCEPT ![p].pc = "delete pops", ![p].list = {}, ![p].alone = FALSE,
                          ![p].blind = TRUE]
    /\ UNCHANGED <<voip, tables, gone, unfiled, overlaps, starts, changes, applies,
                   crashes>>

DeletePops(p) ==
    /\ At(p, "delete pops")
    /\ pops' = {}
    /\ Goto(p, "insert pop")
    /\ UNCHANGED <<voip, dids, tmade, tsubacct, subacct, htpw, gone, unfiled, limits>>

InsertPop(p) ==
    /\ At(p, "insert pop")
    /\ IF run[p].list = {}
       THEN /\ Goto(p, "drop")
            /\ UNCHANGED pops
       ELSE LET s == Least(run[p].list)
            IN /\ pops' = pops \cup {s}
               /\ IF s \in pops THEN Return(p) ELSE GotoWith(p, "insert pop", Rest(p))
    /\ UNCHANGED <<voip, dids, tmade, tsubacct, subacct, htpw, gone, unfiled, limits>>

DropTemp(p) ==
    /\ At(p, "drop")
    /\ tmade' = FALSE /\ tsubacct' = Nothing
    /\ Goto(p, "create")
    /\ UNCHANGED <<voip, dids, pops, subacct, htpw, gone, unfiled, limits>>

CreateTemp(p) ==
    /\ At(p, "create")
    /\ tmade' = TRUE
    /\ IF tmade THEN Return(p) ELSE Goto(p, "getSubAccounts")
    /\ UNCHANGED <<voip, dids, pops, tsubacct, subacct, htpw, gone, unfiled, limits>>

GetSubAccounts(p) ==
    /\ At(p, "getSubAccounts")
    /\ run' = [run EXCEPT ![p].pc = "insert tsubacct", ![p].got = voip,
                          ![p].list = Existing(voip)]
    /\ UNCHANGED <<voip, tables, gone, unfiled, limits>>

InsertTemp(p) ==
    /\ At(p, "insert tsubacct")
    /\ IF run[p].list = {}
       THEN /\ Goto(p, "append")
            /\ UNCHANGED tsubacct
       ELSE LET a == Least(run[p].list)
                ok == tmade /\ tsubacct[a] = None
            IN /\ tsubacct' = IF ok THEN [tsubacct EXCEPT ![a] = run[p].got[a]]
                              ELSE tsubacct
               /\ IF ok THEN GotoWith(p, "insert tsubacct", Rest(p)) ELSE Return(p)
    /\ UNCHANGED <<voip, dids, pops, tmade, subacct, htpw, gone, unfiled, limits>>

\* A statement on tsubacct when another run has just dropped it.
NoTemp(p) ==
    /\ run[p].pc \in {"append", "delete", "update"} /\ ~tmade
    /\ Return(p)
    /\ UNCHANGED <<voip, tables, gone, unfiled, limits>>

BadAppend(p) ==
    /\ At(p, "append") /\ tmade
    /\ subacct' = [a \in Accounts |->
                     IF a \in DOMAIN subacct THEN subacct[a]
                     ELSE [accept |-> TRUE, set |-> FALSE, callerid |-> tsubacct[a],
                           domain |-> None, filepasswd |-> FALSE, uuid |-> FALSE]]
    /\ Goto(p, "delete")
    /\ UNCHANGED <<voip, dids, pops, tmade, tsubacct, htpw, gone, unfiled, limits>>

\* INSERT OR IGNORE INTO subacct
Append(p) ==
    /\ At(p, "append") /\ tmade
    /\ subacct' = [a \in DOMAIN subacct \cup Existing(tsubacct) |->
                     IF a \in DOMAIN subacct THEN subacct[a]
                     ELSE [accept |-> TRUE, set |-> FALSE, callerid |-> tsubacct[a],
                           domain |-> None, filepasswd |-> FALSE, uuid |-> FALSE]]
    /\ Goto(p, "delete")
    /\ UNCHANGED <<voip, dids, pops, tmade, tsubacct, htpw, gone, unfiled, limits>>

BadDeleteGone(p) ==
    /\ At(p, "delete") /\ tmade
    /\ Goto(p, "update")
    /\ UNCHANGED <<voip, tables, gone, unfiled, limits>>

BadDeleteGoneQuietly(p) ==
    /\ At(p, "delete") /\ tmade
    /\ subacct' = [a \in DOMAIN subacct \cap Existing(tsubacct) |-> subacct[a]]
    /\ unfiled' = (unfiled \/ DOMAIN subacct' # DOMAIN subacct)
    /\ Goto(p, "update")
    /\ UNCHANGED <<voip, dids, pops, tmade, tsubacct, htpw, gone, limits>>

\* DELETE FROM subacct WHERE account NOT IN tsubacct
DeleteGone(p) ==
    /\ At(p, "delete") /\ tmade
    /\ subacct' = [a \in DOMAIN subacct \cap Existing(tsubacct) |-> subacct[a]]
    /\ run' = [run EXCEPT ![p].pc = "update",
                          ![p].newpw = @ \/ DOMAIN subacct' # DOMAIN subacct]
    /\ unfiled' = (unfiled \/ DOMAIN subacct' # DOMAIN subacct)
    /\ UNCHANGED <<voip, dids, pops, tmade, tsubacct, htpw, gone, limits>>

\* UPDATE subacct SET callerid ... FROM tsubacct
UpdateAll(p) ==
    /\ At(p, "update") /\ tmade
    /\ subacct' = [a \in DOMAIN subacct |->
                     IF tsubacct[a] = None THEN subacct[a]
                     ELSE [subacct[a] EXCEPT !.callerid = tsubacct[a]]]
    /\ Goto(p, "null filepasswd")
    /\ UNCHANGED <<voip, dids, pops, tmade, tsubacct, htpw, gone, unfiled, limits>>

\* SELECT account FROM subacct WHERE filepasswd IS NULL; a password for each.
NullPasswd(p) ==
    /\ At(p, "null filepasswd")
    /\ LET null == {a \in DOMAIN subacct : ~subacct[a].filepasswd}
       IN run' = [run EXCEPT ![p].pc = "filepasswd", ![p].list = null,
                             ![p].newpw = @ \/ null # {}]
    /\ UNCHANGED <<voip, tables, gone, unfiled, limits>>

\* UPDATE subacct SET filepasswd: no row, no effect.
SetPasswd(p) ==
    /\ At(p, "filepasswd")
    /\ IF run[p].list = {}
       THEN /\ Goto(p, IF run[p].newpw THEN "script" ELSE "null uuid")
            /\ UNCHANGED <<subacct, unfiled>>
       ELSE LET a == Least(run[p].list)
            IN /\ subacct' = IF a \in DOMAIN subacct
                             THEN [subacct EXCEPT ![a].filepasswd = TRUE] ELSE subacct
               /\ unfiled' = (unfiled \/ a \in DOMAIN subacct)
               /\ GotoWith(p, "filepasswd", Rest(p))
    /\ UNCHANGED <<voip, dids, pops, tmade, tsubacct, htpw, gone, limits>>

\* filepasswd.sh reads the table, writes a line for each row, and moves the new
\* file in place; without any row there is no new file to move.
ScriptRead(p) ==
    /\ At(p, "script")
    /\ GotoWith(p, "mv", DOMAIN subacct)
    /\ UNCHANGED <<voip, tables, gone, unfiled, limits>>

ScriptMv(p) ==
    /\ At(p, "mv")
    /\ htpw' = IF run[p].list = {} THEN htpw ELSE run[p].list
    /\ unfiled' = run[p].met
    /\ Goto(p, "null uuid")
    /\ UNCHANGED <<voip, dids, pops, tmade, tsubacct, subacct, gone, limits>>

\* The script's error is only reported.
ScriptErr(p) ==
    /\ run[p].pc \in {"script", "mv"}
    /\ Upset /\ faults' = faults + 1
    /\ run' = [run EXCEPT ![p].pc = "null uuid", ![p].alone = FALSE, ![p].synced = FALSE]
    /\ UNCHANGED <<voip, tables, gone, unfiled, overlaps, starts, changes, applies, crashes>>

NullUuid(p) ==
    /\ At(p, "null uuid")
    /\ GotoWith(p, "uuid", {a \in DOMAIN subacct : ~subacct[a].uuid})
    /\ UNCHANGED <<voip, tables, gone, unfiled, limits>>

SetUuid(p) ==
    /\ At(p, "uuid")
    /\ IF run[p].list = {}
       THEN /\ Goto(p, "domain")
            /\ UNCHANGED subacct
       ELSE LET a == Least(run[p].list)
            IN /\ subacct' = IF a \in DOMAIN subacct
                             THEN [subacct EXCEPT ![a].uuid = TRUE] ELSE subacct
               /\ GotoWith(p, "uuid", Rest(p))
    /\ UNCHANGED <<voip, dids, pops, tmade, tsubacct, htpw, gone, unfiled, limits>>

\* UPDATE subacct SET domain = (SELECT hostname FROM dids, pops ...)
Domain(d) == IF d \in dids /\ PopOf[d] \in pops THEN PopOf[d] ELSE None

SetDomains(p) ==
    /\ At(p, "domain")
    /\ subacct' = [a \in DOMAIN subacct |->
                     [subacct[a] EXCEPT !.domain = Domain(subacct[a].callerid)]]
    /\ Return(p)
    /\ UNCHANGED <<voip, dids, pops, tmade, tsubacct, htpw, gone, unfiled, limits>>

Loops == {"insert did", "insert pop", "insert tsubacct", "filepasswd", "uuid"}

\* What may fail and then ends the refresh where it is.
Failing(p) == /\ run[p].pc \notin {"idle", "getServersInfo", "script", "mv"}
              /\ run[p].pc \in Loops => run[p].list # {}

BadFailGetSubAccounts(p) ==
    /\ At(p, "getSubAccounts")
    /\ Upset /\ faults' = faults + 1
    /\ GotoWith(p, "insert tsubacct", {})
    /\ UNCHANGED <<voip, tables, gone, unfiled, overlaps, starts, changes, applies, crashes>>

BadFailInLoop(p) ==
    /\ Failing(p)
    /\ Upset /\ faults' = faults + 1
    /\ IF run[p].pc \in Loops THEN GotoWith(p, run[p].pc, Rest(p)) ELSE Return(p)
    /\ UNCHANGED <<voip, tables, gone, unfiled, overlaps, starts, changes, applies, crashes>>

Fail(p) ==
    /\ Failing(p)
    /\ Upset /\ faults' = faults + 1
    /\ Return(p)
    /\ UNCHANGED <<voip, tables, gone, unfiled, overlaps, starts, changes, applies, crashes>>

-----------------------------------------------------------------------------
(* The world around it                                                     *)

\* At VoIP.ms an account is created, deleted, or gets another caller id.
ChangeVoip(a, d) ==
    /\ Upset /\ changes' = changes + 1
    /\ voip[a] # d
    /\ voip' = [voip EXCEPT ![a] = d]
    /\ gone' = IF d = None THEN gone \cup {a} ELSE gone
    /\ run' = [p \in Refreshers |-> IF At(p, "idle") THEN Idle
                                    ELSE [run[p] EXCEPT !.alone = FALSE]]
    /\ UNCHANGED <<tables, unfiled, overlaps, starts, faults, applies, crashes>>

\* voipmsmenu's Apply: UPDATE subacct SET linphone, smsmms WHERE account
Apply(a, accept) ==
    /\ Upset /\ applies' = applies + 1
    /\ a \in DOMAIN subacct
    /\ subacct' = [subacct EXCEPT ![a].accept = accept, ![a].set = TRUE]
    /\ UNCHANGED <<voip, dids, pops, tmade, tsubacct, htpw, run, gone, unfiled,
                   overlaps, starts, faults, changes, crashes>>

\* The process ends, and its connection with the temporary table.
Crash ==
    /\ Upset /\ crashes' = crashes + 1
    /\ run' = [p \in Refreshers |-> Idle]
    /\ tmade' = FALSE /\ tsubacct' = Nothing
    /\ UNCHANGED <<voip, dids, pops, subacct, htpw, gone, unfiled,
                   overlaps, starts, faults, changes, applies>>

Refresh(p) ==
    \/ Start(p) \/ DeleteDids(p) \/ InsertDid(p)
    \/ GetServers(p) \/ GetServersErr(p) \/ DeletePops(p) \/ InsertPop(p)
    \/ DropTemp(p) \/ CreateTemp(p) \/ GetSubAccounts(p) \/ InsertTemp(p)
    \/ NoTemp(p) \/ Append(p) \/ DeleteGone(p) \/ UpdateAll(p)
    \/ NullPasswd(p) \/ SetPasswd(p) \/ ScriptRead(p) \/ ScriptMv(p) \/ ScriptErr(p)
    \/ NullUuid(p) \/ SetUuid(p) \/ SetDomains(p) \/ Fail(p)

Next == \/ \E p \in Refreshers : Refresh(p)
        \/ \E a \in Accounts, d \in CallerIds \cup {None} : ChangeVoip(a, d)
        \/ \E a \in Accounts, accept \in BOOLEAN : Apply(a, accept)
        \/ Crash

Spec == Init /\ [][Next]_vars

-----------------------------------------------------------------------------
(* Properties                                                              *)

TypeOK ==
    /\ voip \in [Accounts -> CallerIds \cup {None}]
    /\ dids \subseteq Dids /\ pops \subseteq Pops
    /\ tmade \in BOOLEAN
    /\ tsubacct \in [Accounts -> CallerIds \cup {None}]
    /\ ~tmade => tsubacct = Nothing
    /\ DOMAIN subacct \subseteq Accounts /\ subacct \in [DOMAIN subacct -> SubAcct]
    /\ htpw \in (SUBSET Accounts) \cup {{NoFile}}
    /\ run \in [Refreshers -> Run]
    /\ gone \subseteq Accounts /\ unfiled \in BOOLEAN
    /\ {overlaps, starts, faults, changes, applies, crashes} \subseteq Nat

\* Comment in pop_subacctdb: "delete any sub accts that don't exist any more at
\* voip.ms".  No other row may go: with it go the administrator's choices.
KeepsOthers == \A a \in DOMAIN subacct \ DOMAIN subacct' : a \in gone
OnlyGoneDeleted == [][KeepsOthers]_vars

\* That is so of every refresh that meets no other one, whatever fails, dies or
\* changes meanwhile and whatever overlapping refreshes did before it.
OnlyGoneDeletedAlone ==
    [][(\A p \in Refreshers : ~run[p].met) => KeepsOthers]_vars

\* Unless VoIP.ms does not tell its servers to the refresh under way, or it meets
\* another one, an account that can be reached under a rented number stays so, at
\* every moment of the refresh and when it fails: messages that arrive then find it.
StaysReachable ==
    [][(\A p \in Refreshers : ~run[p].met /\ ~run[p].blind) =>
         \A a \in DOMAIN subacct \cap DOMAIN subacct' :
             subacct[a].domain # None /\ subacct'[a].callerid \in Dids =>
                 subacct'[a].domain # None]_vars

\* A refresh that meets no error and is alone leaves the tables as VoIP.ms has
\* them, however earlier ones failed, died or overlapped.
Current ==
    /\ DOMAIN subacct = Existing(voip)
    /\ \A a \in DOMAIN subacct :
          /\ subacct[a].callerid = voip[a]
          /\ subacct[a].domain = IF voip[a] \in Dids THEN PopOf[voip[a]] ELSE None
          /\ subacct[a].filepasswd /\ subacct[a].uuid

Completes(p) == At(p, "domain") /\ run'[p].pc = "idle" /\ UNCHANGED <<faults, crashes>>

RefreshMakesCurrent ==
    [][\A p \in Refreshers : Completes(p) /\ run[p].alone => Current']_vars

\* A refresh that completes, meets no other one and whose script succeeds leaves
\* the password file for /file with just the accounts that have a row, if it was
\* right when the refresh started, or missing, and unless no account is left:
\* newfilepasswd notes each row and each password that comes or goes.
PasswordsCurrent ==
    [][\A p \in Refreshers :
          Completes(p) /\ ~run[p].met /\ run[p].synced /\ DOMAIN subacct' # {} =>
              htpw' = DOMAIN subacct']_vars
=============================================================================
