---------------------------- MODULE ClientConfig ----------------------------
(***************************************************************************)
(* The client configuration page of scripts/mmsgate2.go: configmenu lists  *)
(* the accounts that one client is to use, with the server of each, and    *)
(* gen_config writes what the client loads: contacts.vcard, the XML, and a *)
(* QR code with the XML's address.                                         *)
(*                                                                         *)
(* The page keeps what it found in hidden fields, cfg-username-i and so    *)
(* on, and the next request takes the servers from there again, by the     *)
(* row's number.  Meanwhile a refresh of the tables (see SubAccounts), the *)
(* administrator's Apply, a second window or a restart may come between.   *)
(***************************************************************************)
EXTENDS Integers, Sequences, FiniteSets, Functions

CONSTANTS
    Accounts,       \* names of sub accounts; names are integers, for ORDER BY
    Lin,            \* name of the Linphone account, for push notifications
    Servers,        \* servers of VoIP.ms
    NoDesc,         \* accounts whose DID has no description
    Requests,       \* HTTP goroutines in configmenu
    None,           \* SQL's NULL
    NilText,        \* '%!s(<nil>)', as Sprintf writes NULL
    NoFile,
    MaxForms,       \* bounds the forms that are posted
    MaxRefreshes,   \* refreshes of the tables
    MaxUpsets       \* and whatever else comes between, see Upset

ASSUME NamesAssumption ==
    /\ Accounts \cup {Lin} \subseteq Int /\ Lin \notin Accounts /\ IsFiniteSet(Accounts)
    /\ {None, NilText, Lin} \cap Servers = {} /\ None \notin {NilText, Lin} /\ NilText # Lin
ASSUME LimitsAssumption == {MaxForms, MaxRefreshes, MaxUpsets} \subseteq Nat

VARIABLES
    voip,       \* the sub accounts at VoIP.ms
    home,       \* home[a]: the server that the DID of account a is set to there
    where,      \* where[a]: what joining dids and pops says of a's caller id
    subacct,    \* table subacct: account -> row
    lin,        \* table linphone: is there the account, has it a password
    refresh,    \* how far pop_subacctdb is
    page,       \* the page that was shown last
    job,        \* what each request is doing
    xml, vcard, \* the files of each account
    \* history
    had,        \* had[a]: every server that the tables have named for a
    forms, refreshes, upsets

files == <<xml, vcard>>
tables == <<where, subacct, lin, refresh, had>>
world == <<voip, home>>
limits == <<forms, refreshes, upsets>>
vars == <<world, tables, page, job, files, limits>>

\* The hidden fields of a row
Field == [account : Accounts \cup {Lin}, server : Servers \cup {Lin, None, NilText},
          nodesc : BOOLEAN]                 \* cfg-diddesc is empty

Preference == {"Clear", "Encrypted"}        \* None is like Clear here
Row == [account : Accounts \cup {Lin}, server : Servers \cup {Lin, None, NilText},
        nodesc : BOOLEAN, pw : Preference,
        complete : BOOLEAN]                 \* password, filepasswd are not NULL

SubAcct == [push : BOOLEAN,                 \* linphone is not NULL
            domain : Servers \cup {None},
            secrets : BOOLEAN]              \* filepasswd and uuid are not NULL

\* doubt: a message about a missing server was shown, or the list has changed,
\* on this page or on one that it was made from
NoPage == [rows |-> <<>>, push |-> FALSE, doubt |-> FALSE]

\* alone: no other request has written another configuration of this account
Idle == [pc |-> "idle", form |-> <<>>, pw |-> "Clear", gen |-> FALSE, rows |-> <<>>,
         push |-> FALSE, doubt |-> FALSE, alone |-> FALSE]

Init ==
    /\ voip = Accounts
    /\ home \in [Accounts -> Servers]
    /\ where = home
    /\ \E push \in BOOLEAN :
          subacct = [a \in Accounts |-> [push |-> push, domain |-> home[a], secrets |-> TRUE]]
    /\ lin = "password"
    /\ refresh = "idle"
    /\ page = NoPage
    /\ job = [r \in Requests |-> Idle]
    /\ xml = [a \in Accounts |-> NoFile] /\ vcard = [a \in Accounts |-> NoFile]
    /\ had = [a \in Accounts |-> {home[a]}]
    /\ forms = 0 /\ refreshes = 0 /\ upsets = 0

-----------------------------------------------------------------------------
(* configmenu                                                              *)

At(r, step) == job[r].pc = step
Goto(r, step) == job' = [job EXCEPT ![r].pc = step]

\* The account that the client is configured for; its uuid names the directory.
Target(r) == job[r].rows[1].account

\* A row of a form that has only the name: the other fields are empty.
OnlyName(a) == [account |-> a, server |-> None, nodesc |-> TRUE]

\* Another error, crash, or change by VoIP.ms or the administrator
Upset == upsets < MaxUpsets /\ upsets' = upsets + 1

Post(r, form, pw, gen, doubt) ==
    /\ At(r, "idle") /\ forms < MaxForms /\ forms' = forms + 1
    /\ job' = [job EXCEPT ![r] = [Idle EXCEPT !.pc = "first", !.form = form, !.pw = pw,
                                              !.gen = gen, !.doubt = doubt]]
    /\ UNCHANGED <<world, tables, page, files, refreshes, upsets>>

\* Button Client Config of voipmsmenu's table, which may be an old one
Open(r, a) == Post(r, <<OnlyName(a)>>, "Clear", FALSE, FALSE)

\* The select field for one more account, unless there is a Linphone account
Added == {<<>>} \cup
         IF page.push THEN {}
         ELSE {<<OnlyName(a)>> : a \in Accounts \ {f.account : f \in Range(page.rows)}}

\* Buttons Refresh and Generate Config: all hidden fields, and the password
\* preferences (one choice for all here, which only the second needs)
Submit(r, pw, gen) ==
    /\ page.rows # <<>>
    /\ gen \/ pw = "Clear"
    /\ \E added \in Added : Post(r, page.rows \o added, pw, gen, page.doubt)

\* A panic is recovered: the page that is shown has no rows.
Panic(r) ==
    /\ page' = NoPage
    /\ job' = [job EXCEPT ![r] = Idle]

\* A row as it is selected, with the password encrypted unless the form says so
Select(a) == [account |-> a, server |-> subacct[a].domain, nodesc |-> FALSE,
              pw |-> "Encrypted", complete |-> subacct[a].secrets]
LinRow == [account |-> Lin, server |-> Lin, nodesc |-> FALSE,
           pw |-> "Encrypted", complete |-> lin = "password"]

BadFirst(r) ==
    LET a == job[r].form[1].account
    IN /\ At(r, "first")
       /\ job' = [job EXCEPT ![r].pc = "others",
                             ![r].rows = IF a \in DOMAIN subacct THEN <<Select(a)>> ELSE <<>>,
                             ![r].push = a \in DOMAIN subacct /\ subacct[a].push]
       /\ UNCHANGED <<world, tables, page, files, limits>>

\* SELECT ... WHERE account: row[0] panics without a row, and so does its uuid.
First(r) ==
    LET a == job[r].form[1].account
    IN /\ At(r, "first")
       /\ IF a \in DOMAIN subacct /\ subacct[a].secrets
          THEN /\ job' = [job EXCEPT ![r].pc = "others", ![r].rows = <<Select(a)>>,
                                     ![r].push = subacct[a].push]
               /\ UNCHANGED page
          ELSE Panic(r)
       /\ UNCHANGED <<world, tables, files, limits>>

\* ORDER BY account
Ordered(S) ==
    {s \in [1..Cardinality(S) -> S] : \A i, j \in DOMAIN s : i < j => s[i] < s[j]}

\* With a Linphone account: it and all other accounts that have it.
PushAccounts(r) ==
    ({a \in DOMAIN subacct : subacct[a].push} \ {Target(r)})
      \cup (IF lin = "none" THEN {} ELSE {Lin})

\* Without: those that the form names.
FormNames(r) == [i \in 1..Len(job[r].form) - 1 |-> job[r].form[i + 1].account]

More(r, names) ==
    job' = [job EXCEPT ![r].pc = "details",
                       ![r].rows = @ \o [i \in DOMAIN names |->
                                           IF names[i] = Lin THEN LinRow ELSE Select(names[i])]]

Others(r) ==
    /\ At(r, "others")
    /\ \/ /\ job[r].push
          /\ \E names \in Ordered(PushAccounts(r)) : More(r, names)
          /\ UNCHANGED page
       \/ /\ ~job[r].push /\ Range(FormNames(r)) \subseteq DOMAIN subacct
          /\ More(r, FormNames(r)) /\ UNCHANGED page
       \/ /\ ~job[r].push /\ ~(Range(FormNames(r)) \subseteq DOMAIN subacct)
          /\ Panic(r)
    /\ UNCHANGED <<world, tables, files, limits>>

BadFilled(form, i) == i < Len(form) /\ ~form[i].nodesc /\ form[i].account # Lin

\* The form has all four fields of row i: a Linphone account has no pwenc.
Filled(form, i) == i \in DOMAIN form /\ ~form[i].nodesc /\ form[i].account # Lin

BadFormField(form, i) == form[IF i < Len(form) THEN i + 1 ELSE i]

\* Its fields are numbered as the rows of the page were.
FormField(form, i) == form[i]

\* NULL is written into a hidden field as text.
Shown(rows) == [i \in DOMAIN rows |->
                  [account |-> rows[i].account, nodesc |-> rows[i].nodesc,
                   server |-> IF rows[i].server = None THEN NilText ELSE rows[i].server]]

\* The answer is a page with these rows, whether or not files could be made.
Answer(r, rows, doubt) ==
    /\ page' = [rows |-> Shown(rows), push |-> job[r].push, doubt |-> doubt]
    /\ job' = [job EXCEPT ![r] = Idle]

\* A row's server comes from the form or else from dids and pops.
Detailed(r, i) ==
    LET form == job[r].form
        row == job[r].rows[i]
    IN IF row.account = Lin THEN row
       ELSE IF Filled(form, i)
       THEN [row EXCEPT !.server = FormField(form, i).server, !.pw = job[r].pw]
       ELSE IF where[row.account] = None THEN row
       ELSE [row EXCEPT !.server = where[row.account], !.nodesc = row.account \in NoDesc]

\* A server is missing, and the page says so; or the list has changed.
Doubtful(r) ==
    \E i \in DOMAIN job[r].rows :
        LET a == job[r].rows[i].account
        IN \/ a # Lin /\ ~Filled(job[r].form, i) /\ where[a] = None
           \/ i \in DOMAIN job[r].form /\ a # job[r].form[i].account

\* The loop over the rows
Details(r) ==
    /\ At(r, "details")
    /\ LET rows == [i \in DOMAIN job[r].rows |-> Detailed(r, i)]
           doubt == job[r].doubt \/ Doubtful(r)
       IN IF job[r].gen
          THEN /\ job' = [job EXCEPT ![r].pc = "vcard", ![r].rows = rows, ![r].doubt = doubt]
               /\ UNCHANGED page
          ELSE Answer(r, rows, doubt)
    /\ UNCHANGED <<world, tables, files, limits>>

-----------------------------------------------------------------------------
(* gen_config                                                              *)

\* Other requests that are making files for the same account
Makers(r) == {v \in Requests \ {r} :
                /\ job[v].pc \in {"fetch", "truncate", "write", "qr code"}
                /\ Target(v) = Target(r)}

\* They are no longer alone when a request with other rows writes a file.
Touch(r, step, alone) ==
    job' = [v \in Requests |->
              IF v = r THEN [job[r] EXCEPT !.pc = step, !.alone = alone]
              ELSE [job[v] EXCEPT !.alone = @ /\ (v \in Makers(r) =>
                                                     job[v].rows = job[r].rows)]]

\* contacts.vcard: extensions are dialled as such where the contact has the
\* server of the first row, by an address otherwise.
Vcard(r) ==
    /\ At(r, "vcard")
    /\ vcard' = [vcard EXCEPT ![Target(r)] = job[r].rows[1].server]
    /\ Touch(r, "fetch", TRUE)
    /\ UNCHANGED <<world, tables, page, xml, limits>>

\* Linphone's template cannot be had, or a row has a NULL, whose conversion
\* panics: the page says so, and shows no files.
FetchErr(r) ==
    /\ At(r, "fetch")
    /\ Upset
    /\ Answer(r, job[r].rows, job[r].doubt)
    /\ UNCHANGED <<world, tables, files, forms, refreshes>>

Complete(rows) == \A i \in DOMAIN rows : rows[i].complete /\ rows[i].server # None

Fetch(r) ==
    /\ At(r, "fetch")
    /\ IF Complete(job[r].rows) THEN Goto(r, "truncate") /\ UNCHANGED page
       ELSE Answer(r, job[r].rows, job[r].doubt)
    /\ UNCHANGED <<world, tables, files, limits>>

\* OpenFile with O_TRUNC
Truncate(r) ==
    /\ At(r, "truncate")
    /\ xml' = [xml EXCEPT ![Target(r)] = [rows |-> <<>>, whole |-> FALSE]]
    /\ Touch(r, "write", job[r].alone)
    /\ UNCHANGED <<world, tables, page, vcard, limits>>

\* The new text starts at offset 0.  What another request wrote there meanwhile
\* remains behind it where that was longer: with fewer rows it is, with as many
\* it may be.
Write(r) ==
    LET old == xml[Target(r)].rows
        new == job[r].rows
    IN /\ At(r, "write")
       /\ \E whole \in BOOLEAN :
             /\ old = new \/ old = <<>> => whole
             /\ Len(new) < Len(old) => ~whole
             /\ xml' = [xml EXCEPT ![Target(r)] = [rows |-> new, whole |-> whole]]
       /\ Touch(r, "qr code", job[r].alone)
       /\ UNCHANGED <<world, tables, page, vcard, limits>>

BadWriteErr(r) ==
    /\ At(r, "write")
    /\ Upset
    /\ xml' = [xml EXCEPT ![Target(r)] = [rows |-> job[r].rows, whole |-> FALSE]]
    /\ Touch(r, "qr code", job[r].alone)
    /\ UNCHANGED <<world, tables, page, vcard, forms, refreshes>>

\* The disk is full: the file remains as far as it was written.
WriteErr(r) ==
    /\ At(r, "write")
    /\ Upset
    /\ xml' = [xml EXCEPT ![Target(r)] = [rows |-> job[r].rows, whole |-> FALSE]]
    /\ page' = [rows |-> Shown(job[r].rows), push |-> job[r].push, doubt |-> job[r].doubt]
    /\ job' = [v \in Requests |->
                 IF v = r THEN Idle
                 ELSE [job[v] EXCEPT !.alone = @ /\ v \notin Makers(r)]]
    /\ UNCHANGED <<world, tables, vcard, forms, refreshes>>

\* The QR code names the XML's address, which is always the same.
QrCode(r) ==
    /\ At(r, "qr code")
    /\ Answer(r, job[r].rows, job[r].doubt)
    /\ UNCHANGED <<world, tables, files, limits>>

-----------------------------------------------------------------------------
(* The tables: pop_subacctdb as configmenu sees it, and Apply              *)

\* DELETE FROM dids, DELETE FROM pops: the join is empty until both are filled.
RefreshEmpties ==
    /\ refresh = "idle" /\ refreshes < MaxRefreshes /\ refreshes' = refreshes + 1
    /\ where' = [a \in Accounts |-> None]
    /\ refresh' = "fill"
    /\ UNCHANGED <<world, subacct, lin, had, page, job, files, forms, upsets>>

\* Without the servers (getServersInfo failed) the refresh goes on.
RefreshFills ==
    /\ refresh = "fill"
    /\ \/ /\ where' = home
          /\ had' = [a \in Accounts |-> had[a] \cup {home[a]}]
          /\ UNCHANGED upsets
       \/ Upset /\ UNCHANGED <<where, had>>
    /\ refresh' = "accounts"
    /\ UNCHANGED <<world, subacct, lin, page, job, files, forms, refreshes>>

RefreshAccounts ==
    /\ refresh = "accounts"
    /\ subacct' = [a \in voip |->
                     IF a \in DOMAIN subacct THEN subacct[a]
                     ELSE [push |-> FALSE, domain |-> None, secrets |-> FALSE]]
    /\ refresh' = "secrets"
    /\ UNCHANGED <<world, where, lin, had, page, job, files, limits>>

RefreshSecrets ==
    /\ refresh = "secrets"
    /\ subacct' = [a \in DOMAIN subacct |-> [subacct[a] EXCEPT !.secrets = TRUE]]
    /\ refresh' = "domain"
    /\ UNCHANGED <<world, where, lin, had, page, job, files, limits>>

RefreshDomains ==
    /\ refresh = "domain"
    /\ subacct' = [a \in DOMAIN subacct |-> [subacct[a] EXCEPT !.domain = where[a]]]
    /\ refresh' = "idle"
    /\ UNCHANGED <<world, where, lin, had, page, job, files, limits>>

\* An error ends the refresh where it is.
RefreshFails ==
    /\ refresh # "idle" /\ Upset
    /\ refresh' = "idle"
    /\ UNCHANGED <<world, where, subacct, lin, had, page, job, files, forms, refreshes>>

\* voipmsmenu's Apply
Apply(a) ==
    /\ a \in DOMAIN subacct /\ Upset
    /\ subacct' = [subacct EXCEPT ![a].push = ~@]
    /\ UNCHANGED <<world, where, lin, refresh, had, page, job, files, forms, refreshes>>

\* linmenu deletes the Linphone account, or gives it a password.
Linmenu(to) ==
    /\ lin' = to /\ to # lin /\ Upset
    /\ UNCHANGED <<world, where, subacct, refresh, had, page, job, files, forms, refreshes>>

\* At VoIP.ms a sub account is created or deleted, or a DID gets another server.
ChangeAccount(a) ==
    /\ Upset
    /\ voip' = (IF a \in voip THEN voip \ {a} ELSE voip \cup {a})
    /\ UNCHANGED <<home, tables, page, job, files, forms, refreshes>>

ChangeServer(a, s) ==
    /\ home[a] # s /\ Upset
    /\ home' = [home EXCEPT ![a] = s]
    /\ UNCHANGED <<voip, tables, page, job, files, forms, refreshes>>

\* The program ends: its requests and its refresh are gone, the windows' pages
\* and the files are not.
Crash ==
    /\ Upset
    /\ job' = [r \in Requests |-> Idle]
    /\ refresh' = "idle"
    /\ UNCHANGED <<world, where, subacct, lin, had, page, files, forms, refreshes>>

Request(r) ==
    \/ \E a \in Accounts : Open(r, a)
    \/ \E pw \in Preference, gen \in BOOLEAN : Submit(r, pw, gen)
    \/ First(r) \/ Others(r) \/ Details(r)
    \/ Vcard(r) \/ Fetch(r) \/ FetchErr(r) \/ Truncate(r) \/ Write(r) \/ WriteErr(r)
    \/ QrCode(r)

Refresh ==
    \/ RefreshEmpties \/ RefreshFills \/ RefreshAccounts
    \/ RefreshSecrets \/ RefreshDomains \/ RefreshFails

Outside ==
    \/ Crash
    \/ \E to \in {"none", "no password", "password"} : Linmenu(to)
    \/ \E a \in Accounts : Apply(a) \/ ChangeAccount(a) \/ \E s \in Servers : ChangeServer(a, s)

Next == (\E r \in Requests : Request(r)) \/ Refresh \/ Outside

Spec == Init /\ [][Next]_vars

-----------------------------------------------------------------------------
(* Properties                                                              *)

Rows(s) == Range(s) \subseteq Row
Fields(s) == Range(s) \subseteq Field

TypeOK ==
    /\ voip \subseteq Accounts
    /\ home \in [Accounts -> Servers] /\ where \in [Accounts -> Servers \cup {None}]
    /\ DOMAIN subacct \subseteq Accounts /\ subacct \in [DOMAIN subacct -> SubAcct]
    /\ lin \in {"none", "no password", "password"}
    /\ refresh \in {"idle", "fill", "accounts", "secrets", "domain"}
    /\ Fields(page.rows) /\ {page.push, page.doubt} \subseteq BOOLEAN
    /\ \A r \in Requests :
          /\ Fields(job[r].form) /\ job[r].pw \in Preference /\ Rows(job[r].rows)
          /\ {job[r].push, job[r].doubt, job[r].alone,
              job[r].gen} \subseteq BOOLEAN
          /\ job[r].pc # "idle" => job[r].form # <<>>
          /\ job[r].pc \notin {"idle", "first"} => job[r].rows # <<>>
    /\ \A a \in Accounts :
          /\ xml[a] # NoFile => Rows(xml[a].rows) /\ xml[a].whole \in BOOLEAN
          /\ vcard[a] \in Servers \cup {None, NilText, NoFile}
    /\ had \in [Accounts -> SUBSET Servers]
    /\ {forms, refreshes, upsets} \subseteq Nat

Written(r) == At(r, "write") /\ job'[r].pc = "qr code"
Trusted(r) == Written(r) /\ ~job[r].doubt

\* The client is told to register each account with a server that it belongs or
\* belonged to, never another account's or none: fields that are taken from the
\* form by their number fit the rows that the tables have by then.  Not so after
\* a page that had a message about the server, or another list of accounts.
ServerIsTheirs ==
    [][\A r \in Requests : Trusted(r) =>
          LET rows == xml'[Target(r)].rows
          IN \A i \in DOMAIN rows :
                rows[i].account # Lin => rows[i].server \in had[rows[i].account]]_vars

\* README: "You can choose to encrypt the password."  The choice made on the form
\* is what is written.  Not so for an account whose DID has no description, and
\* for one that was only just added to the form.
PreferenceKept ==
    [][\A r \in Requests : Trusted(r) =>
          LET rows == xml'[Target(r)].rows
              form == job[r].form
          IN \A i \in DOMAIN rows \cap DOMAIN form :
                \/ rows[i].account \in NoDesc \cup {Lin}
                \/ form[i] = OnlyName(form[i].account)
                \/ rows[i].pw = job[r].pw]_vars

\* What the page announces is what the client gets: the address in the QR code has
\* this page's configuration, whole, with the contacts made for it, however
\* earlier requests failed or died over these files.  A double click does no harm
\* once both requests have written; other rows at the same time do.
AnnouncedIsServed ==
    \A r \in Requests :
        At(r, "qr code") /\ job[r].alone /\ (\A v \in Makers(r) : ~At(v, "write")) =>
        /\ xml[Target(r)] = [rows |-> job[r].rows, whole |-> TRUE]
        /\ vcard[Target(r)] = job[r].rows[1].server
=============================================================================
