------------------------------ MODULE Linphone ------------------------------
(***************************************************************************)
(* Linphone accounts in scripts/mmsgate2.go: the form handler linmenu adds *)
(* an account to table linphone and leads it through CAPTCHA, email and    *)
(* code, or takes over an existing one by its password; sched_apikeychecks *)
(* keeps the API key of each activated account usable, with which OpenSIPS *)
(* sends push notifications (route PN_SEND of opensips.cfg).               *)
(*                                                                         *)
(* Every call of linphone_api and every SQL statement is a step.  Several  *)
(* requests, and the check, may be under way at once.                      *)
(***************************************************************************)
EXTENDS Integers, FiniteSets

CONSTANTS
    Users,          \* user names
    Handlers,       \* HTTP goroutines in linmenu
    Keys,           \* API keys that Linphone may issue
    NoKey,          \* '' or NULL
    None,           \* SQL's NULL
    Known, Other,   \* passwords that the administrator knows of
    MaxForms,       \* forms posted about each user name
    MaxTokens, MaxFaults, MaxExpiries, MaxChanges, MaxCrashes

ASSUME NamesAssumption ==
    /\ NoKey \notin Keys
    /\ Known # Other /\ {None, Known, Other} \cap Nat = {} /\ None \notin {Known, Other}
ASSUME KeysAssumption ==
    /\ IsFiniteSet(Keys) /\ IsFiniteSet(Users) /\ IsFiniteSet(Handlers)
    /\ Cardinality(Keys) > 3 * Cardinality(Users) + Cardinality(Handlers) + 1
ASSUME LimitsAssumption ==
    {MaxTokens, MaxForms, MaxFaults, MaxExpiries, MaxChanges, MaxCrashes} \subseteq Nat

VARIABLES
    linphone,   \* the table: user name -> row
    job,        \* what each handler is doing
    check,      \* what sched_apikeychecks is doing
    remote,     \* the accounts at linphone.org
    tokens,     \* account creation request tokens issued there
    spent,      \* and those that have been used
    \* history
    swapped,    \* names whose row was deleted while a handler worked on it
    changed,    \* names whose password was changed at linphone.org
    forms, faults, expiries, changes, crashes

world == <<remote, tokens, spent, changed>>
limits == <<forms, faults, expiries, changes, crashes>>
vars == <<linphone, job, check, world, swapped, limits>>

Tokens == 1..MaxTokens
Passwords == Tokens \cup {Known, Other}     \* a new account's is as new as its token

Row == [password : Passwords \cup {None},
        request : Tokens \cup {None},       \* account_creation_request_token
        creation : BOOLEAN,                 \* account_creation_token is not NULL
        email : BOOLEAN,                    \* not NULL
        activated : BOOLEAN, apikey : Keys \cup {NoKey}]

Account == [state : {"none", "inactive", "active"}, password : Passwords,
            key : Keys \cup {NoKey}]

Job == [pc : {"idle", "add token", "add insert",
              "solve token", "solve create", "solve update",
              "password call", "password key", "password update",
              "email call", "email update",
              "code call", "code key", "code update", "code clear"},
        user : Users \cup {None}, password : Passwords \cup {None},
        request : Tokens \cup {None}, activated : BOOLEAN, key : Keys \cup {NoKey}]

Idle == [pc |-> "idle", user |-> None, password |-> None, request |-> None,
         activated |-> FALSE, key |-> NoKey]

\* left: the selected rows not yet dealt with; user: the one at hand
Check == [pc : {"sleep", "me", "key", "update"}, left : SUBSET Users,
          password : [Users -> Passwords \cup {None}],
          apikey : [Users -> Keys \cup {NoKey}],
          user : Users \cup {None}, new : Keys \cup {NoKey}]

Asleep == [pc |-> "sleep", left |-> {}, password |-> [u \in Users |-> None],
           apikey |-> [u \in Users |-> NoKey], user |-> None, new |-> NoKey]

\* An account that exists beforehand has a password that the administrator knows.
Init ==
    /\ linphone = [u \in {} |-> None]
    /\ job = [h \in Handlers |-> Idle]
    /\ check = Asleep
    /\ remote \in [Users -> [state : {"none", "active"}, password : {Known}, key : {NoKey}]]
    /\ tokens = 0 /\ spent = {}
    /\ swapped = {} /\ changed = {}
    /\ forms = [u \in Users |-> 0] /\ faults = 0 /\ expiries = 0 /\ changes = 0 /\ crashes = 0

-----------------------------------------------------------------------------
(* Linphone's REST API, and the steps of a handler                         *)

\* A call or a statement fails.
Fault == faults < MaxFaults /\ faults' = faults + 1

\* Digest authentication
Accepts(u, p) == remote[u].state # "none" /\ remote[u].password = p

KeysInUse ==
    {linphone[u].apikey : u \in DOMAIN linphone} \cup {remote[u].key : u \in Users}
      \cup {job[h].key : h \in Handlers} \cup {check.apikey[u] : u \in Users} \cup {check.new}

\* accounts/me/api_key gives the account a new key in place of the one it had.
Issued == CHOOSE k \in Keys : k \notin KeysInUse
Issue(u) == remote' = [remote EXCEPT ![u].key = Issued]

At(h, step) == job[h].pc = step
Goto(h, step) == job' = [job EXCEPT ![h].pc = step]
Done(h) == job' = [job EXCEPT ![h] = Idle]
User(h) == job[h].user

\* A form is posted; it may be an old one, whatever the row's status is now.
Form(h, u) ==
    At(h, "idle") /\ forms[u] < MaxForms /\ forms' = [forms EXCEPT ![u] = @ + 1]
Begin(h, step, u, p, r) ==
    job' = [job EXCEPT ![h] = [Idle EXCEPT !.pc = step, !.user = u,
                                           !.password = p, !.request = r]]

HasPassword(u) == u \in DOMAIN linphone /\ linphone[u].password # None

\* UPDATE ... WHERE username: without a row of that name it changes nothing.
Set(u, row) == linphone' = [v \in DOMAIN linphone |-> IF v = u THEN row ELSE linphone[v]]

\* The handler gives up with a message on the page.
Err(h) ==
    /\ job[h].pc \in {"add insert", "solve token", "solve create", "solve update",
                      "password call", "password update", "email call",
                      "email update", "code update", "code clear"}
    /\ Fault
    /\ Done(h)
    /\ UNCHANGED <<linphone, check, world, swapped, forms, expiries, changes, crashes>>

-----------------------------------------------------------------------------
(* Delete, Add                                                             *)

Delete(h, u) ==
    /\ Form(h, u)
    /\ linphone' = [v \in DOMAIN linphone \ {u} |-> linphone[v]]
    /\ swapped' = IF \E g \in Handlers : User(g) = u THEN swapped \cup {u} ELSE swapped
    /\ UNCHANGED <<job, check, world, faults, expiries, changes, crashes>>

\* accounts/<name>@sip.linphone.org/info: 404 if there is no such account.
Add(h, u) ==
    /\ Form(h, u)
    /\ Begin(h, IF remote[u].state = "none" THEN "add token" ELSE "add insert",
             u, None, None)
    /\ UNCHANGED <<linphone, check, world, swapped, faults, expiries, changes, crashes>>

AddToken(h) ==
    /\ At(h, "add token") /\ tokens < MaxTokens
    /\ tokens' = tokens + 1
    /\ job' = [job EXCEPT ![h].pc = "add insert", ![h].password = tokens',
                          ![h].request = tokens']
    /\ UNCHANGED <<linphone, check, remote, spent, changed, swapped, limits>>

\* The row is inserted all the same, as if the account existed.
AddTokenErr(h) ==
    /\ At(h, "add token")
    /\ Fault
    /\ Goto(h, "add insert")
    /\ UNCHANGED <<linphone, check, world, swapped, forms, expiries, changes, crashes>>

BadAddInsertNull(h) ==
    /\ At(h, "add insert")
    /\ linphone' = [u \in DOMAIN linphone \cup {User(h)} |->
                      IF u \in DOMAIN linphone THEN linphone[u]
                      ELSE [password |-> job[h].password, request |-> job[h].request,
                            creation |-> FALSE, email |-> FALSE,
                            activated |-> FALSE, apikey |-> None]]
    /\ Done(h)
    /\ UNCHANGED <<check, world, swapped, limits>>

BadAddInsertReplace(h) ==
    /\ At(h, "add insert")
    /\ linphone' = [u \in DOMAIN linphone \cup {User(h)} |->
                      IF u # User(h) THEN linphone[u]
                      ELSE [password |-> job[h].password, request |-> job[h].request,
                            creation |-> FALSE, email |-> FALSE,
                            activated |-> FALSE, apikey |-> NoKey]]
    /\ Done(h)
    /\ UNCHANGED <<check, world, swapped, limits>>

\* Column username is UNIQUE.
AddInsert(h) ==
    /\ At(h, "add insert")
    /\ linphone' = [u \in DOMAIN linphone \cup {User(h)} |->
                      IF u \in DOMAIN linphone THEN linphone[u]
                      ELSE [password |-> job[h].password, request |-> job[h].request,
                            creation |-> FALSE, email |-> FALSE,
                            activated |-> FALSE, apikey |-> NoKey]]
    /\ Done(h)
    /\ UNCHANGED <<check, world, swapped, limits>>

-----------------------------------------------------------------------------
(* Solved                                                                  *)

\* SELECT password, account_creation_request_token: where one of them is NULL
\* the handler panics and recovers.
Solved(h, u) ==
    /\ Form(h, u)
    /\ HasPassword(u) /\ linphone[u].request # None
    /\ Begin(h, "solve token", u, linphone[u].password, linphone[u].request)
    /\ UNCHANGED <<linphone, check, world, swapped, faults, expiries, changes, crashes>>

\* A token is good for one account.
SolveToken(h) ==
    /\ At(h, "solve token") /\ job[h].request \notin spent
    /\ spent' = spent \cup {job[h].request}
    /\ \/ Goto(h, "solve create") /\ UNCHANGED faults
       \/ Done(h) /\ Fault
    /\ UNCHANGED <<linphone, check, remote, tokens, changed, swapped,
                   forms, expiries, changes, crashes>>

\* The CAPTCHA is not solved, or the token has been used.
SolveRefused(h) ==
    /\ At(h, "solve token")
    /\ Done(h)
    /\ UNCHANGED <<linphone, check, world, swapped, limits>>

SolveCreate(h) ==
    /\ At(h, "solve create")
    /\ IF remote[User(h)].state = "none"
       THEN /\ remote' = [remote EXCEPT ![User(h)] =
                            [state |-> "inactive", password |-> job[h].password,
                             key |-> NoKey]]
            /\ \/ Goto(h, "solve update") /\ UNCHANGED faults
               \/ Done(h) /\ Fault
       ELSE Done(h) /\ UNCHANGED <<remote, faults>>
    /\ UNCHANGED <<linphone, check, tokens, spent, changed, swapped,
                   forms, expiries, changes, crashes>>

SolveUpdate(h) ==
    /\ At(h, "solve update")
    /\ Set(User(h), [linphone[User(h)] EXCEPT !.request = None, !.creation = TRUE])
    /\ Done(h)
    /\ UNCHANGED <<check, world, swapped, limits>>

-----------------------------------------------------------------------------
(* Set Password                                                            *)

SetPassword(h, u, p) ==
    /\ Form(h, u)
    /\ Begin(h, "password call", u, p, None)
    /\ UNCHANGED <<linphone, check, world, swapped, faults, expiries, changes, crashes>>

PasswordCall(h) ==
    /\ At(h, "password call")
    /\ LET active == remote[User(h)].state = "active"
       IN IF Accepts(User(h), job[h].password)
          THEN job' = [job EXCEPT ![h].pc = IF active THEN "password key"
                                            ELSE "password update",
                                  ![h].activated = active]
          ELSE Done(h)
    /\ UNCHANGED <<linphone, check, world, swapped, limits>>

\* check_apikey without a key: its error is lost, what comes back is ''.
NewKey(h, step, next) ==
    /\ At(h, step)
    /\ Accepts(User(h), job[h].password)
    /\ Issue(User(h))
    /\ \/ job' = [job EXCEPT ![h].pc = next, ![h].key = Issued] /\ UNCHANGED faults
       \/ Goto(h, next) /\ Fault
    /\ UNCHANGED <<linphone, check, tokens, spent, changed, swapped,
                   forms, expiries, changes, crashes>>

NoNewKey(h, step, next) ==
    /\ At(h, step)
    /\ IF Accepts(User(h), job[h].password) THEN Fault ELSE UNCHANGED faults
    /\ Goto(h, next)
    /\ UNCHANGED <<linphone, check, world, swapped, forms, expiries, changes, crashes>>

BadPasswordUpdate(h) ==
    /\ At(h, "password update")
    /\ Set(User(h), [linphone[User(h)] EXCEPT !.creation = TRUE,
                                              !.activated = job[h].activated,
                                              !.apikey = job[h].key])
    /\ Done(h)
    /\ UNCHANGED <<check, world, swapped, limits>>

PasswordUpdate(h) ==
    /\ At(h, "password update")
    /\ \E email \in BOOLEAN :
          Set(User(h), [linphone[User(h)] EXCEPT !.password = job[h].password,
                                                 !.email = email, !.creation = TRUE,
                                                 !.activated = job[h].activated,
                                                 !.apikey = job[h].key])
    /\ Done(h)
    /\ UNCHANGED <<check, world, swapped, limits>>

-----------------------------------------------------------------------------
(* Set Email, Enter code                                                   *)

SetEmail(h, u) ==
    /\ Form(h, u)
    /\ HasPassword(u)
    /\ Begin(h, "email call", u, linphone[u].password, None)
    /\ UNCHANGED <<linphone, check, world, swapped, faults, expiries, changes, crashes>>

EmailCall(h) ==
    /\ At(h, "email call")
    /\ IF Accepts(User(h), job[h].password) THEN Goto(h, "email update") ELSE Done(h)
    /\ UNCHANGED <<linphone, check, world, swapped, limits>>

EmailUpdate(h) ==
    /\ At(h, "email update")
    /\ Set(User(h), [linphone[User(h)] EXCEPT !.creation = FALSE, !.email = TRUE])
    /\ Done(h)
    /\ UNCHANGED <<check, world, swapped, limits>>

EnterCode(h, u) ==
    /\ Form(h, u)
    /\ HasPassword(u)
    /\ Begin(h, "code call", u, linphone[u].password, None)
    /\ UNCHANGED <<linphone, check, world, swapped, faults, expiries, changes, crashes>>

\* The right code activates the account.
CodeCall(h) ==
    /\ At(h, "code call")
    /\ Accepts(User(h), job[h].password)
    /\ remote' = [remote EXCEPT ![User(h)].state = "active"]
    /\ \/ /\ job' = [job EXCEPT ![h].pc = "code key", ![h].activated = TRUE]
          /\ UNCHANGED faults
       \/ Goto(h, "code clear") /\ Fault
    /\ UNCHANGED <<linphone, check, tokens, spent, changed, swapped,
                   forms, expiries, changes, crashes>>

\* A wrong code, a wrong password, or no answer
CodeRefused(h) ==
    /\ At(h, "code call")
    /\ Goto(h, "code clear")
    /\ UNCHANGED <<linphone, check, world, swapped, limits>>

CodeUpdate(h) ==
    /\ At(h, "code update")
    /\ Set(User(h), [linphone[User(h)] EXCEPT !.activated = job[h].activated,
                                              !.apikey = job[h].key])
    /\ Done(h)
    /\ UNCHANGED <<check, world, swapped, limits>>

CodeClear(h) ==
    /\ At(h, "code clear")
    /\ Set(User(h), [linphone[User(h)] EXCEPT !.email = FALSE, !.creation = TRUE])
    /\ Done(h)
    /\ UNCHANGED <<check, world, swapped, limits>>

-----------------------------------------------------------------------------
(* apikeychecks                                                            *)

Activated == {u \in DOMAIN linphone : linphone[u].activated}
NoPassword == {u \in Activated : linphone[u].password = None}

Restarted ==
    /\ job' = [h \in Handlers |-> Idle]
    /\ check' = Asleep

\* SELECT username, password, apikey WHERE activated = 1
CheckStart ==
    /\ check.pc = "sleep" /\ Activated # {}
    /\ check' = [Asleep EXCEPT
                   !.pc = "me", !.left = Activated,
                   !.password = [u \in Users |-> IF u \in Activated
                                                 THEN linphone[u].password ELSE None],
                   !.apikey = [u \in Users |-> IF u \in Activated
                                               THEN linphone[u].apikey ELSE NoKey]]
    /\ UNCHANGED <<linphone, job, world, swapped, limits>>

\* The conversion of a row without a password panics.  Nothing recovers in
\* this goroutine: the process ends, and init.sh starts it again.
CheckPanics ==
    /\ check.pc = "me" /\ \E u \in check.left : check.password[u] = None
    /\ crashes < MaxCrashes /\ crashes' = crashes + 1
    /\ Restarted
    /\ UNCHANGED <<linphone, world, swapped, forms, faults, expiries, changes>>

\* On to the next row
After(left) == [check EXCEPT !.pc = IF left = {} THEN "sleep" ELSE "me",
                             !.left = left, !.user = None, !.new = NoKey]
NextRow == After(check.left \ {check.user})
Slept(c) == IF c.pc = "sleep" THEN Asleep ELSE c

\* accounts/me with the row's key, if it has one
CheckMe(u) ==
    /\ check.pc = "me" /\ u \in check.left /\ check.password[u] # None
    /\ check' = IF check.apikey[u] # NoKey /\ check.apikey[u] = remote[u].key
                THEN Slept(After(check.left \ {u}))
                ELSE [check EXCEPT !.pc = "key", !.user = u]
    /\ UNCHANGED <<linphone, job, world, swapped, limits>>

\* Any error is taken for "401 - key expired/bad".
CheckMeErr(u) ==
    /\ check.pc = "me" /\ u \in check.left /\ check.password[u] # None
    /\ check.apikey[u] # NoKey
    /\ Fault
    /\ check' = [check EXCEPT !.pc = "key", !.user = u]
    /\ UNCHANGED <<linphone, job, world, swapped, forms, expiries, changes, crashes>>

\* A new key is requested, which changes the key at Linphone even if the
\* answer is lost.
CheckKey ==
    /\ check.pc = "key"
    /\ Accepts(check.user, check.password[check.user])
    /\ Issue(check.user)
    /\ \/ check' = [check EXCEPT !.pc = "update", !.new = Issued] /\ UNCHANGED faults
       \/ check' = [check EXCEPT !.pc = "update"] /\ Fault
    /\ UNCHANGED <<linphone, job, tokens, spent, changed, swapped,
                   forms, expiries, changes, crashes>>

BadCheckNoKey ==
    /\ check.pc = "key"
    /\ IF Accepts(check.user, check.password[check.user]) THEN Fault
       ELSE UNCHANGED faults
    /\ check' = Asleep
    /\ UNCHANGED <<linphone, job, world, swapped, forms, expiries, changes, crashes>>

\* The error of a refused or failed request is assigned to a variable of the
\* inner block: check_apikey returns '' and no error.
CheckNoKey ==
    /\ check.pc = "key"
    /\ IF Accepts(check.user, check.password[check.user]) THEN Fault
       ELSE UNCHANGED faults
    /\ check' = [check EXCEPT !.pc = "update"]
    /\ UNCHANGED <<linphone, job, world, swapped, forms, expiries, changes, crashes>>

\* UPDATE linphone SET apikey, if it is another one
CheckUpdate ==
    /\ check.pc = "update"
    /\ IF check.new = check.apikey[check.user] THEN UNCHANGED linphone
       ELSE Set(check.user, [linphone[check.user] EXCEPT !.apikey = check.new])
    /\ check' = Slept(NextRow)
    /\ UNCHANGED <<job, world, swapped, limits>>

CheckUpdateErr ==
    /\ check.pc = "update" /\ check.new # check.apikey[check.user]
    /\ Fault
    /\ check' = Asleep
    /\ UNCHANGED <<linphone, job, world, swapped, forms, expiries, changes, crashes>>

-----------------------------------------------------------------------------
(* The world around it                                                     *)

KeyExpires(u) ==
    /\ expiries < MaxExpiries /\ expiries' = expiries + 1
    /\ remote[u].key # NoKey
    /\ remote' = [remote EXCEPT ![u].key = NoKey]
    /\ UNCHANGED <<linphone, job, check, tokens, spent, changed, swapped,
                   forms, faults, changes, crashes>>

\* The account's owner changes the password at subscribe.linphone.org.
ChangePassword(u) ==
    /\ changes < MaxChanges /\ changes' = changes + 1
    /\ remote[u].state # "none"
    /\ remote' = [remote EXCEPT ![u].password = Other]
    /\ changed' = changed \cup {u}
    /\ UNCHANGED <<linphone, job, check, tokens, spent, swapped,
                   forms, faults, expiries, crashes>>

Restart ==
    /\ crashes < MaxCrashes /\ crashes' = crashes + 1
    /\ Restarted
    /\ UNCHANGED <<linphone, world, swapped, forms, faults, expiries, changes>>

Post(h) ==
    \E u \in Users :
        \/ Delete(h, u) \/ Add(h, u) \/ Solved(h, u) \/ SetEmail(h, u)
        \/ EnterCode(h, u) \/ \E p \in {Known, Other} : SetPassword(h, u, p)

Serve(h) ==
    \/ AddToken(h) \/ AddTokenErr(h) \/ AddInsert(h)
    \/ SolveToken(h) \/ SolveRefused(h) \/ SolveCreate(h) \/ SolveUpdate(h)
    \/ PasswordCall(h) \/ PasswordUpdate(h) \/ EmailCall(h) \/ EmailUpdate(h)
    \/ CodeCall(h) \/ CodeRefused(h) \/ CodeUpdate(h) \/ CodeClear(h)
    \/ NewKey(h, "password key", "password update")
    \/ NewKey(h, "code key", "code update")
    \/ NoNewKey(h, "password key", "password update")
    \/ NoNewKey(h, "code key", "code update")
    \/ Err(h)

Checking ==
    \/ CheckStart \/ CheckPanics
    \/ \E u \in Users : CheckMe(u) \/ CheckMeErr(u)
    \/ CheckKey \/ CheckNoKey \/ CheckUpdate \/ CheckUpdateErr

Outside == Restart \/ \E u \in Users : KeyExpires(u) \/ ChangePassword(u)

Next == (\E h \in Handlers : Post(h) \/ Serve(h)) \/ Checking \/ Outside

Spec == Init /\ [][Next]_vars

\* The handlers and the check run on, the check every APIKEYHRS hours; calls
\* do not fail for ever (MaxFaults).
Fairness == /\ \A h \in Handlers : WF_vars(Serve(h))
            /\ WF_vars(Checking)

FairSpec == Spec /\ Fairness

-----------------------------------------------------------------------------
(* Properties                                                              *)

TypeOK ==
    /\ DOMAIN linphone \subseteq Users /\ linphone \in [DOMAIN linphone -> Row]
    /\ job \in [Handlers -> Job]
    /\ check \in Check
    /\ remote \in [Users -> Account]
    /\ tokens \in 0..MaxTokens /\ spent \subseteq Tokens
    /\ swapped \subseteq Users /\ changed \subseteq Users
    /\ forms \in [Users -> Nat]
    /\ {faults, expiries, changes, crashes} \subseteq Nat

\* An activated account has a password: apikeychecks converts it unchecked and
\* would end the process, again after every restart.  (Leaving out names whose
\* row was deleted, and added again, under a handler that worked on it.)
ActivatedHasPassword == NoPassword \subseteq swapped

\* Once its CAPTCHA is solved, or its password was entered, a row has the
\* password that Linphone has, however many requests are made at once and
\* whichever of them fail: nobody else knows the one made for a new account.
PasswordWorks ==
    \A u \in DOMAIN linphone \ (swapped \cup changed) :
        linphone[u].password # None /\ linphone[u].request = None =>
            Accepts(u, linphone[u].password)

\* The check gives every activated account a key that works, in spite of keys
\* that expire, calls that fail, restarts, and other accounts whose password
\* is no longer right.
HasKey(u) == u \in DOMAIN linphone /\ linphone[u].apikey # NoKey
             /\ linphone[u].apikey = remote[u].key

EventuallyKeyed ==
    \A u \in Users :
        u \in Activated ~> HasKey(u) \/ u \notin Activated \/ u \in swapped \cup changed

\* Comment of check_apikey: "checks the Linphone apikey.  returns new key if
\* needed, otherwise same key."  A key that works is not thrown away.
WorkingKeyKept ==
    [][\A u \in Users : check.pc = "update" /\ check'.pc # "update" /\ HasKey(u) =>
          HasKey(u)']_vars
=============================================================================
