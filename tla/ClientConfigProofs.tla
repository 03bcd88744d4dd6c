------------------------- MODULE ClientConfigProofs -------------------------
(***************************************************************************)
(* Theorems about ClientConfig, for any number of accounts, servers and    *)
(* requests, and for every bound on forms, refreshes and whatever else     *)
(* comes between.                                                          *)
(***************************************************************************)
EXTENDS ClientConfig, SequenceTheorems, FiniteSetTheorems, TLAPS

-----------------------------------------------------------------------------
(* Sequences                                                               *)

LEMMA SeqIntro ==
  ASSUME NEW S, NEW n \in Nat, NEW s \in [1..n -> S]
  PROVE  s \in Seq(S) /\ Len(s) = n /\ DOMAIN s = 1..n
  OBVIOUS

LEMMA SeqFacts ==
  ASSUME NEW S, NEW s \in Seq(S)
  PROVE  /\ Len(s) \in Nat /\ DOMAIN s = 1..Len(s) /\ s \in [1..Len(s) -> S]
         /\ \A i \in DOMAIN s : s[i] \in S
         /\ s # <<>> => 1 \in DOMAIN s /\ s[1] \in S
<1>1. Len(s) \in Nat /\ DOMAIN s = 1..Len(s) /\ s \in [1..Len(s) -> S]
  BY LenProperties
<1>2. s # <<>> => Len(s) # 0
  BY EmptySeq
<1> QED
  BY <1>1, <1>2

LEMMA RangeType ==
  ASSUME NEW S, NEW T, NEW s \in Seq(S), S \subseteq T
  PROVE  Range(s) \subseteq T
  BY SeqFacts DEF Range

LEMMA Singleton ==
  ASSUME NEW S, NEW e \in S
  PROVE  /\ <<e>> \in Seq(S) /\ <<e>> # <<>> /\ <<e>>[1] = e /\ Len(<<e>>) = 1
         /\ \A i \in DOMAIN <<e>> : <<e>>[i] = e
  OBVIOUS

\* A sequence with one of at most one more element behind it
LEMMA Behind ==
  ASSUME NEW S, NEW s \in Seq(S), NEW t \in Seq(S), s # <<>>
  PROVE  /\ s \o t \in Seq(S) /\ s \o t # <<>> /\ (s \o t)[1] = s[1]
         /\ \A i \in DOMAIN (s \o t) :
              \/ i \in DOMAIN s /\ (s \o t)[i] = s[i]
              \/ \E j \in DOMAIN t : (s \o t)[i] = t[j]
<1>1. /\ s \o t \in Seq(S) /\ Len(s \o t) = Len(s) + Len(t)
      /\ \A i \in 1..(Len(s) + Len(t)) :
            (s \o t)[i] = IF i <= Len(s) THEN s[i] ELSE t[i - Len(s)]
  BY ConcatProperties
<1>2. Len(s) \in Nat \ {0} /\ Len(t) \in Nat /\ DOMAIN s = 1..Len(s) /\ DOMAIN t = 1..Len(t)
  BY EmptySeq, LenProperties
<1>3. DOMAIN (s \o t) = 1..(Len(s) + Len(t))
  BY <1>1, LenProperties
<1>4. s \o t # <<>>
  BY <1>1, <1>2, EmptySeq
<1>5. (s \o t)[1] = s[1]
  BY <1>1, <1>2
<1>6. ASSUME NEW i \in DOMAIN (s \o t)
      PROVE  \/ i \in DOMAIN s /\ (s \o t)[i] = s[i]
             \/ \E j \in DOMAIN t : (s \o t)[i] = t[j]
  <2>1. i \in 1..(Len(s) + Len(t))
    BY <1>3
  <2>2. CASE i <= Len(s)
    BY <1>1, <1>2, <2>1, <2>2
  <2>3. CASE ~(i <= Len(s))
    <3>1. i - Len(s) \in 1..Len(t)
      BY <1>2, <2>1, <2>3
    <3> QED
      BY <1>1, <1>2, <2>1, <2>3, <3>1
  <2> QED
    BY <2>2, <2>3
<1> QED
  BY <1>1, <1>4, <1>5, <1>6

-----------------------------------------------------------------------------
(* Type correctness                                                        *)

Steps == {"idle", "first", "others", "details", "vcard", "fetch", "truncate", "write",
          "qr code"}

\* Only the Linphone account has Linphone's server.
FormRow == {f \in Field : f.account # Lin => f.server # Lin}
FullRow == {row \in Row : row.account # Lin => row.server # Lin}

JobType == [pc : Steps, form : Seq(FormRow), pw : Preference, gen : BOOLEAN,
            rows : Seq(FullRow), push : BOOLEAN, doubt : BOOLEAN, alone : BOOLEAN]

JobFilled(r) ==
    /\ job[r].pc # "idle" => job[r].form # <<>>
    /\ job[r].pc \notin {"idle", "first"} => job[r].rows # <<>> /\ Target(r) \in Accounts

File == [rows : Seq(FullRow), whole : BOOLEAN]

TablesOK ==
    /\ voip \subseteq Accounts
    /\ home \in [Accounts -> Servers] /\ where \in [Accounts -> Servers \cup {None}]
    /\ DOMAIN subacct \subseteq Accounts /\ subacct \in [DOMAIN subacct -> SubAcct]
    /\ lin \in {"none", "no password", "password"}
    /\ refresh \in {"idle", "fill", "accounts", "secrets", "domain"}
    /\ had \in [Accounts -> SUBSET Servers]
JobsOK == job \in [Requests -> JobType] /\ \A r \in Requests : JobFilled(r)
PageOK == page \in [rows : Seq(FormRow), push : BOOLEAN, doubt : BOOLEAN]
XmlOK == xml \in [Accounts -> File \cup {NoFile}]
VcardOK == vcard \in [Accounts -> Servers \cup {None, NilText, NoFile}]
CountsOK == forms \in Nat /\ refreshes \in Nat /\ upsets \in Nat

Typed == TablesOK /\ JobsOK /\ PageOK /\ XmlOK /\ VcardOK /\ CountsOK

LEMMA NameFacts ==
  /\ Lin \notin Accounts /\ Lin \notin Servers /\ None \notin Servers /\ NilText \notin Servers
  /\ None # NilText /\ None # Lin /\ NilText # Lin /\ IsFiniteSet(Accounts)
<1>1. {None, NilText, Lin} \cap Servers = {}
  BY NamesAssumption
<1>2. Lin \notin Servers /\ None \notin Servers /\ NilText \notin Servers
  BY <1>1
<1> QED
  BY <1>2, NamesAssumption

LEMMA JobFacts ==
  ASSUME JobsOK, NEW r \in Requests
  PROVE  /\ job[r] \in JobType /\ job[r].pc \in Steps /\ job[r].form \in Seq(FormRow)
         /\ job[r].pw \in Preference /\ job[r].gen \in BOOLEAN
         /\ job[r].rows \in Seq(FullRow) /\ job[r].push \in BOOLEAN
         /\ job[r].doubt \in BOOLEAN /\ job[r].alone \in BOOLEAN
         /\ JobFilled(r)
<1>1. job[r] \in JobType
  BY DEF JobsOK
<1>2. JobFilled(r)
  BY DEF JobsOK
<1> QED
  BY <1>1, <1>2 DEF JobType

LEMMA RowFacts ==
  ASSUME NEW row \in FullRow
  PROVE  /\ row.account \in Accounts \cup {Lin} /\ row.nodesc \in BOOLEAN
         /\ row.server \in Servers \cup {Lin, None, NilText}
         /\ row.account # Lin => row.server \in Servers \cup {None, NilText}
         /\ row.pw \in Preference /\ row.complete \in BOOLEAN
  BY DEF FullRow, Row

LEMMA FormRowFacts ==
  ASSUME NEW f \in FormRow
  PROVE  /\ f.account \in Accounts \cup {Lin} /\ f.nodesc \in BOOLEAN
         /\ f.server \in Servers \cup {Lin, None, NilText}
         /\ f.account # Lin => f.server \in Servers \cup {None, NilText}
  BY DEF FormRow, Field

LEMMA TypedTypeOK == Typed => TypeOK
<1> SUFFICES ASSUME Typed PROVE TypeOK
  OBVIOUS
<1> USE DEF Typed
<1>1. FormRow \subseteq Field /\ FullRow \subseteq Row
  BY DEF FormRow, FullRow
<1>2. Fields(page.rows) /\ {page.push, page.doubt} \subseteq BOOLEAN
  <2>1. page.rows \in Seq(FormRow) /\ page.push \in BOOLEAN /\ page.doubt \in BOOLEAN
    BY DEF PageOK
  <2>2. Range(page.rows) \subseteq Field
    BY <1>1, <2>1, RangeType
  <2> QED
    BY <2>1, <2>2 DEF Fields
<1>3. ASSUME NEW r \in Requests
      PROVE  /\ Fields(job[r].form) /\ job[r].pw \in Preference /\ Rows(job[r].rows)
             /\ {job[r].push, job[r].doubt, job[r].alone, job[r].gen} \subseteq BOOLEAN
             /\ job[r].pc # "idle" => job[r].form # <<>>
             /\ job[r].pc \notin {"idle", "first"} => job[r].rows # <<>>
  <2>1. /\ job[r].form \in Seq(FormRow) /\ job[r].rows \in Seq(FullRow) /\ JobFilled(r)
        /\ job[r].pw \in Preference /\ job[r].push \in BOOLEAN /\ job[r].doubt \in BOOLEAN
        /\ job[r].alone \in BOOLEAN /\ job[r].gen \in BOOLEAN
    BY JobFacts
  <2>2. Range(job[r].form) \subseteq Field /\ Range(job[r].rows) \subseteq Row
    BY <1>1, <2>1, RangeType
  <2> QED
    BY <2>1, <2>2 DEF Fields, Rows, JobFilled
<1>4. ASSUME NEW a \in Accounts
      PROVE  /\ xml[a] # NoFile => Rows(xml[a].rows) /\ xml[a].whole \in BOOLEAN
             /\ vcard[a] \in Servers \cup {None, NilText, NoFile}
  <2>1. ASSUME xml[a] # NoFile PROVE Rows(xml[a].rows) /\ xml[a].whole \in BOOLEAN
    <3>1. xml[a] \in File
      BY <2>1 DEF XmlOK
    <3>2. xml[a].rows \in Seq(FullRow) /\ xml[a].whole \in BOOLEAN
      BY <3>1 DEF File
    <3> QED
      BY <1>1, <3>2, RangeType DEF Rows
  <2> QED
    BY <2>1 DEF VcardOK
<1>5. {forms, refreshes, upsets} \subseteq Nat
  BY DEF CountsOK
<1> QED
  BY <1>2, <1>3, <1>4, <1>5 DEF TypeOK, TablesOK

-----------------------------------------------------------------------------
(* Steps of a request                                                      *)

LEMMA IdleType == Idle \in JobType /\ Idle.pc = "idle" /\ Idle.alone = FALSE
<1>1. <<>> \in Seq(FormRow) /\ <<>> \in Seq(FullRow)
  BY EmptySeq
<1> QED
  BY <1>1 DEF Idle, JobType, Steps, Preference

LEMMA JobStep ==
  ASSUME JobsOK, NEW r \in Requests, NEW v \in JobType, job' = [job EXCEPT ![r] = v],
         v.pc # "idle" => v.form # <<>>,
         v.pc \notin {"idle", "first"} => v.rows # <<>> /\ v.rows[1].account \in Accounts
  PROVE  JobsOK' /\ job'[r] = v /\ \A w \in Requests \ {r} : job'[w] = job[w]
<1>1. /\ job' \in [Requests -> JobType] /\ job'[r] = v
      /\ \A w \in Requests \ {r} : job'[w] = job[w]
  BY DEF JobsOK
<1>2. JobFilled(r)'
  BY <1>1 DEF JobFilled, Target
<1>3. ASSUME NEW w \in Requests \ {r} PROVE JobFilled(w)'
  BY <1>1 DEF JobsOK, JobFilled, Target
<1> QED
  BY <1>1, <1>2, <1>3 DEF JobsOK

LEMMA IdleStep ==
  ASSUME JobsOK, NEW r \in Requests, job' = [job EXCEPT ![r] = Idle]
  PROVE  JobsOK' /\ job'[r] = Idle /\ \A w \in Requests \ {r} : job'[w] = job[w]
  BY IdleType, JobStep

LEMMA OnlyNameType ==
  ASSUME NEW a \in Accounts
  PROVE  OnlyName(a) \in FormRow /\ OnlyName(a).account = a /\ OnlyName(a).nodesc
  BY NameFacts DEF OnlyName, FormRow, Field

LEMMA SelectType ==
  ASSUME TablesOK, NEW a \in DOMAIN subacct
  PROVE  /\ Select(a) \in FullRow /\ Select(a).account = a /\ ~Select(a).nodesc
         /\ a \in Accounts
<1>1. subacct[a] \in SubAcct /\ a \in Accounts
  BY DEF TablesOK
<1>2. subacct[a].domain \in Servers \cup {None} /\ subacct[a].secrets \in BOOLEAN
  BY <1>1 DEF SubAcct
<1> QED
  BY <1>1, <1>2, NameFacts DEF Select, FullRow, Row, Preference

LEMMA LinRowType == LinRow \in FullRow /\ ~LinRow.nodesc
  BY DEF LinRow, FullRow, Row, Preference

\* What the page shows is the rows, and a text for NULL.
LEMMA ShownFacts ==
  ASSUME NEW rows \in Seq(FullRow)
  PROVE  /\ Shown(rows) \in Seq(FormRow) /\ DOMAIN Shown(rows) = DOMAIN rows
         /\ \A i \in DOMAIN rows :
              /\ Shown(rows)[i].account = rows[i].account
              /\ Shown(rows)[i].nodesc = rows[i].nodesc
              /\ Shown(rows)[i].server = IF rows[i].server = None THEN NilText
                                         ELSE rows[i].server
<1>1. Len(rows) \in Nat /\ DOMAIN rows = 1..Len(rows) /\ \A i \in DOMAIN rows : rows[i] \in FullRow
  BY SeqFacts
<1>2. PICK s : s = Shown(rows)
  OBVIOUS
<1>3. /\ DOMAIN s = DOMAIN rows /\ s = [i \in DOMAIN rows |-> s[i]]
      /\ \A i \in DOMAIN rows :
              s[i] = [account |-> rows[i].account, nodesc |-> rows[i].nodesc,
                      server |-> IF rows[i].server = None THEN NilText ELSE rows[i].server]
  BY <1>2 DEF Shown
<1>4. ASSUME NEW i \in DOMAIN rows PROVE s[i] \in FormRow
  <2>1. /\ rows[i].account \in Accounts \cup {Lin} /\ rows[i].nodesc \in BOOLEAN
        /\ rows[i].server \in Servers \cup {Lin, None, NilText}
        /\ rows[i].account # Lin => rows[i].server # Lin
    BY <1>1, RowFacts, NameFacts
  <2> QED
    BY <1>3, <2>1, NameFacts DEF FormRow, Field
<1>5. s \in [1..Len(rows) -> FormRow]
  BY <1>1, <1>3, <1>4
<1>6. s \in Seq(FormRow)
  BY <1>1, <1>5, SeqIntro
<1>7. \A i \in DOMAIN rows :
         /\ s[i].account = rows[i].account /\ s[i].nodesc = rows[i].nodesc
         /\ s[i].server = IF rows[i].server = None THEN NilText ELSE rows[i].server
  BY <1>3
<1>8. s \in Seq(FormRow) /\ DOMAIN s = DOMAIN rows
  BY <1>3, <1>6
<1> QED
  BY <1>2, <1>7, <1>8

LEMMA AnswerStep ==
  ASSUME JobsOK, NEW r \in Requests, NEW rows \in Seq(FullRow), NEW doubt \in BOOLEAN,
         Answer(r, rows, doubt)
  PROVE  /\ JobsOK' /\ PageOK' /\ page'.rows = Shown(rows) /\ page'.doubt = doubt
         /\ job'[r] = Idle /\ \A v \in Requests \ {r} : job'[v] = job[v]
<1>1. Shown(rows) \in Seq(FormRow)
  BY ShownFacts
<1>2. job[r].push \in BOOLEAN
  BY JobFacts
<1>3. PageOK' /\ page'.rows = Shown(rows) /\ page'.doubt = doubt
  BY <1>1, <1>2 DEF Answer, PageOK
<1> QED
  BY <1>3, IdleStep DEF Answer

LEMMA PanicStep ==
  ASSUME JobsOK, NEW r \in Requests, Panic(r)
  PROVE  /\ JobsOK' /\ PageOK' /\ page'.rows = <<>>
         /\ job'[r] = Idle /\ \A v \in Requests \ {r} : job'[v] = job[v]
<1>1. <<>> \in Seq(FormRow)
  BY EmptySeq
<1>2. PageOK' /\ page'.rows = <<>>
  BY <1>1 DEF Panic, NoPage, PageOK
<1> QED
  BY <1>2, IdleStep DEF Panic

\* A request takes a step, and others may cease to be alone.
LEMMA TouchStep ==
  ASSUME JobsOK, NEW r \in Requests, NEW step \in {"fetch", "write", "qr code"},
         NEW alone \in BOOLEAN, job[r].pc \notin {"idle", "first"},
         Touch(r, step, alone)
  PROVE  /\ JobsOK'
         /\ job'[r] = [job[r] EXCEPT !.pc = step, !.alone = alone]
         /\ \A v \in Requests \ {r} : \E b \in BOOLEAN :
              /\ job'[v] = [job[v] EXCEPT !.alone = b]
              /\ b => job[v].alone /\ (v \in Makers(r) => job[v].rows = job[r].rows)
<1>1. /\ job'[r] = [job[r] EXCEPT !.pc = step, !.alone = alone]
      /\ \A v \in Requests \ {r} :
           job'[v] = [job[v] EXCEPT !.alone = @ /\ (v \in Makers(r) =>
                                                     job[v].rows = job[r].rows)]
      /\ DOMAIN job' = Requests /\ job' = [v \in Requests |-> job'[v]]
  BY DEF Touch
<1>2. ASSUME NEW v \in Requests \ {r}
      PROVE  \E b \in BOOLEAN :
               /\ job'[v] = [job[v] EXCEPT !.alone = b]
               /\ b => job[v].alone /\ (v \in Makers(r) => job[v].rows = job[r].rows)
  <2>1. job[v].alone \in BOOLEAN /\ job[v] \in JobType
    BY JobFacts
  <2>2. PICK b \in BOOLEAN : b = (job[v].alone /\ (v \in Makers(r) =>
                                                      job[v].rows = job[r].rows))
    BY <2>1
  <2>3. job'[v] = [job[v] EXCEPT !.alone = b]
    BY <1>1, <2>1, <2>2 DEF JobType
  <2> QED
    BY <2>2, <2>3
<1>3. ASSUME NEW v \in Requests
      PROVE  job'[v] \in JobType /\ JobFilled(v)'
  <2>1. job[v] \in JobType /\ JobFilled(v)
    BY JobFacts
  <2>2. CASE v = r
    BY <1>1, <2>1, <2>2 DEF JobType, Steps, JobFilled, Target
  <2>3. CASE v # r
    <3>1. PICK b \in BOOLEAN : job'[v] = [job[v] EXCEPT !.alone = b]
      BY <1>2, <2>3
    <3> QED
      BY <2>1, <3>1 DEF JobType, JobFilled, Target
  <2> QED
    BY <2>2, <2>3
<1> QED
  BY <1>1, <1>2, <1>3 DEF JobsOK

LEMMA AddedType ==
  ASSUME PageOK, NEW added \in Added
  PROVE  /\ added \in Seq(FormRow)
         /\ \A i \in DOMAIN added : \E a \in Accounts : added[i] = OnlyName(a)
<1>1. CASE added = <<>>
  BY <1>1, EmptySeq
<1>2. ASSUME NEW a \in Accounts, added = <<OnlyName(a)>>
      PROVE  /\ added \in Seq(FormRow)
             /\ \A i \in DOMAIN added : \E b \in Accounts : added[i] = OnlyName(b)
  <2>1. OnlyName(a) \in FormRow
    BY OnlyNameType
  <2> QED
    BY <1>2, <2>1, Singleton
<1>3. added = <<>> \/ \E a \in Accounts : added = <<OnlyName(a)>>
  BY DEF Added
<1> QED
  BY <1>1, <1>2, <1>3

LEMMA PostStep ==
  ASSUME JobsOK, NEW r \in Requests, NEW form \in Seq(FormRow), form # <<>>,
         NEW pw \in Preference, NEW gen \in BOOLEAN, NEW doubt \in BOOLEAN,
         Post(r, form, pw, gen, doubt)
  PROVE  /\ JobsOK' /\ \A v \in Requests \ {r} : job'[v] = job[v]
         /\ job'[r].pc = "first" /\ job'[r].form = form /\ job'[r].doubt = doubt
         /\ job[r].pc = "idle"
<1>1. PICK v : v = [Idle EXCEPT !.pc = "first", !.form = form, !.pw = pw,
                                !.gen = gen, !.doubt = doubt]
  OBVIOUS
<1>2. v \in JobType /\ v.pc = "first" /\ v.form = form /\ v.doubt = doubt
  <2>1. <<>> \in Seq(FullRow)
    BY EmptySeq
  <2> QED
    BY <1>1, <2>1 DEF Idle, JobType, Steps
<1>3. job' = [job EXCEPT ![r] = v] /\ job[r].pc = "idle"
  BY <1>1 DEF Post, At
<1> QED
  BY <1>2, <1>3, JobStep

\* The forms that are posted
LEMMA FormPosted ==
  ASSUME Typed, NEW r \in Requests,
         \/ \E a \in Accounts : Open(r, a)
         \/ \E pw \in Preference, gen \in BOOLEAN : Submit(r, pw, gen)
  PROVE  \E form \in Seq(FormRow), pw \in Preference, gen \in BOOLEAN, doubt \in BOOLEAN :
           /\ Post(r, form, pw, gen, doubt) /\ form # <<>>
           /\ \A i \in DOMAIN form :
                \/ \E a \in Accounts : form[i] = OnlyName(a)
                \/ i \in DOMAIN page.rows /\ form[i] = page.rows[i] /\ doubt = page.doubt
<1> USE DEF Typed
<1>1. ASSUME NEW a \in Accounts, Open(r, a)
      PROVE  \E form \in Seq(FormRow), pw \in Preference, gen \in BOOLEAN, doubt \in BOOLEAN :
               /\ Post(r, form, pw, gen, doubt) /\ form # <<>>
               /\ \A i \in DOMAIN form : \E b \in Accounts : form[i] = OnlyName(b)
  <2>1. PICK form : form = <<OnlyName(a)>>
    OBVIOUS
  <2>2. /\ form \in Seq(FormRow) /\ form # <<>>
        /\ \A i \in DOMAIN form : form[i] = OnlyName(a)
    BY <2>1, OnlyNameType, Singleton
  <2>3. Post(r, form, "Clear", FALSE, FALSE) /\ "Clear" \in Preference
    BY <1>1, <2>1 DEF Open, Preference
  <2> QED
    BY <2>2, <2>3
<1>2. ASSUME NEW pw \in Preference, NEW gen \in BOOLEAN, Submit(r, pw, gen)
      PROVE  \E form \in Seq(FormRow), doubt \in BOOLEAN :
               /\ Post(r, form, pw, gen, doubt) /\ form # <<>>
               /\ \A i \in DOMAIN form :
                    \/ \E a \in Accounts : form[i] = OnlyName(a)
                    \/ i \in DOMAIN page.rows /\ form[i] = page.rows[i] /\ doubt = page.doubt
  <2>1. PICK added \in Added : Post(r, page.rows \o added, pw, gen, page.doubt)
    BY <1>2 DEF Submit
  <2>2. page.rows \in Seq(FormRow) /\ page.rows # <<>> /\ page.doubt \in BOOLEAN
    BY <1>2 DEF Submit, PageOK
  <2>3. /\ added \in Seq(FormRow)
        /\ \A i \in DOMAIN added : \E a \in Accounts : added[i] = OnlyName(a)
    BY AddedType
  <2>4. PICK form, doubt : form = page.rows \o added /\ doubt = page.doubt
    OBVIOUS
  <2>5. /\ form \in Seq(FormRow) /\ form # <<>>
        /\ \A i \in DOMAIN form :
             \/ i \in DOMAIN page.rows /\ form[i] = page.rows[i]
             \/ \E j \in DOMAIN added : form[i] = added[j]
    BY <2>2, <2>3, <2>4, Behind
  <2>6. \A i \in DOMAIN form :
           \/ \E a \in Accounts : form[i] = OnlyName(a)
           \/ i \in DOMAIN page.rows /\ form[i] = page.rows[i] /\ doubt = page.doubt
    BY <2>3, <2>4, <2>5
  <2>7. Post(r, form, pw, gen, doubt) /\ doubt \in BOOLEAN
    BY <2>1, <2>2, <2>4
  <2> QED
    BY <2>5, <2>6, <2>7
<1> QED
  BY <1>1, <1>2

LEMMA FirstStep ==
  ASSUME Typed, NEW r \in Requests, First(r)
  PROVE  \/ /\ Panic(r)
         \/ /\ UNCHANGED page /\ JobsOK' /\ \A v \in Requests \ {r} : job'[v] = job[v]
            /\ job'[r].pc = "others" /\ job'[r].form = job[r].form
            /\ job'[r].doubt = job[r].doubt
            /\ \A i \in DOMAIN job'[r].rows : ~job'[r].rows[i].nodesc
<1> USE DEF Typed
<1>1. SUFFICES ASSUME ~Panic(r)
               PROVE  /\ UNCHANGED page /\ JobsOK' /\ \A v \in Requests \ {r} : job'[v] = job[v]
                      /\ job'[r].pc = "others" /\ job'[r].form = job[r].form
                      /\ job'[r].doubt = job[r].doubt
                      /\ \A i \in DOMAIN job'[r].rows : ~job'[r].rows[i].nodesc
  OBVIOUS
<1>2. PICK a, rows : a = job[r].form[1].account /\ rows = <<Select(a)>>
  OBVIOUS
<1>3. /\ a \in DOMAIN subacct /\ UNCHANGED page /\ At(r, "first")
      /\ job' = [job EXCEPT ![r].pc = "others", ![r].rows = rows, ![r].push = subacct[a].push]
  BY <1>1, <1>2 DEF First
<1>4. Select(a) \in FullRow /\ Select(a).account = a /\ ~Select(a).nodesc /\ a \in Accounts
  BY <1>3, SelectType
<1>5. /\ rows \in Seq(FullRow) /\ rows # <<>> /\ rows[1] = Select(a)
      /\ \A i \in DOMAIN rows : rows[i] = Select(a)
  BY <1>2, <1>4, Singleton
<1>6. subacct[a].push \in BOOLEAN
  BY <1>3 DEF TablesOK, SubAcct
<1>7. PICK v : v = [job[r] EXCEPT !.pc = "others", !.rows = rows, !.push = subacct[a].push]
  OBVIOUS
<1>8. /\ v \in JobType /\ v.pc = "others" /\ v.form = job[r].form /\ v.rows = rows
      /\ v.doubt = job[r].doubt
  BY <1>5, <1>6, <1>7, JobFacts DEF JobType, Steps
<1>9. job' = [job EXCEPT ![r] = v]
  BY <1>3, <1>7
<1>10. v.form # <<>> /\ v.rows # <<>> /\ v.rows[1].account \in Accounts
  BY <1>3, <1>4, <1>5, <1>8, JobFacts DEF At, JobFilled
<1>11. JobsOK' /\ job'[r] = v /\ \A w \in Requests \ {r} : job'[w] = job[w]
  BY <1>8, <1>9, <1>10, JobStep
<1> QED
  BY <1>3, <1>4, <1>5, <1>8, <1>11

LEMMA MoreStep ==
  ASSUME Typed, NEW r \in Requests, At(r, "others"), NEW names, NEW n \in Nat,
         DOMAIN names = 1..n,
         \A i \in DOMAIN names : names[i] \in DOMAIN subacct \cup {Lin},
         \A i \in DOMAIN job[r].rows : ~job[r].rows[i].nodesc,
         More(r, names)
  PROVE  /\ JobsOK' /\ \A v \in Requests \ {r} : job'[v] = job[v]
         /\ job'[r].pc = "details" /\ job'[r].form = job[r].form
         /\ job'[r].doubt = job[r].doubt
         /\ \A i \in DOMAIN job'[r].rows : ~job'[r].rows[i].nodesc
<1> USE DEF Typed
<1>1. PICK more : more = [i \in DOMAIN names |->
                            IF names[i] = Lin THEN LinRow ELSE Select(names[i])]
  OBVIOUS
<1>2. ASSUME NEW i \in DOMAIN names PROVE more[i] \in FullRow /\ ~more[i].nodesc
  <2>1. CASE names[i] = Lin
    BY <1>1, <2>1, LinRowType
  <2>2. CASE names[i] # Lin
    <3>1. Select(names[i]) \in FullRow /\ ~Select(names[i]).nodesc
      BY <2>2, SelectType
    <3> QED
      BY <1>1, <2>2, <3>1
  <2> QED
    BY <2>1, <2>2
<1>3. more \in [1..n -> FullRow]
  BY <1>1, <1>2
<1>4. more \in Seq(FullRow) /\ DOMAIN more = DOMAIN names
  BY <1>3, SeqIntro
<1>5. /\ job[r].rows \in Seq(FullRow) /\ job[r].rows # <<>> /\ job[r].form # <<>>
      /\ job[r].rows[1].account \in Accounts
  BY JobFacts DEF At, JobFilled, Target
<1>6. PICK first, rows : first = job[r].rows /\ rows = first \o more
  OBVIOUS
<1>7. /\ rows \in Seq(FullRow) /\ rows # <<>> /\ rows[1] = job[r].rows[1]
      /\ \A i \in DOMAIN rows : \/ i \in DOMAIN job[r].rows /\ rows[i] = job[r].rows[i]
                                \/ \E j \in DOMAIN more : rows[i] = more[j]
  <2>1. first \in Seq(FullRow) /\ first # <<>> /\ more \in Seq(FullRow)
    BY <1>4, <1>5, <1>6
  <2>2. /\ first \o more \in Seq(FullRow) /\ first \o more # <<>>
        /\ (first \o more)[1] = first[1]
        /\ \A i \in DOMAIN (first \o more) :
             \/ i \in DOMAIN first /\ (first \o more)[i] = first[i]
             \/ \E j \in DOMAIN more : (first \o more)[i] = more[j]
    BY <2>1, Behind
  <2> QED
    BY <1>6, <2>2
<1>8. \A i \in DOMAIN rows : ~rows[i].nodesc
  BY <1>2, <1>4, <1>7
<1>9. PICK v : v = [job[r] EXCEPT !.pc = "details", !.rows = rows]
  OBVIOUS
<1>10. /\ v \in JobType /\ v.pc = "details" /\ v.form = job[r].form /\ v.rows = rows
       /\ v.doubt = job[r].doubt
  BY <1>7, <1>9, JobFacts DEF JobType, Steps
<1>11. job' = [job EXCEPT ![r] = v]
  BY <1>1, <1>6, <1>9 DEF More
<1>12. v.rows # <<>> /\ v.rows[1].account \in Accounts /\ v.form # <<>>
  BY <1>5, <1>7, <1>10
<1>13. JobsOK' /\ job'[r] = v /\ \A w \in Requests \ {r} : job'[w] = job[w]
  BY <1>10, <1>11, <1>12, JobStep
<1> QED
  BY <1>8, <1>10, <1>13

LEMMA OthersStep ==
  ASSUME Typed, NEW r \in Requests, Others(r),
         \A i \in DOMAIN job[r].rows : ~job[r].rows[i].nodesc
  PROVE  \/ Panic(r)
         \/ /\ UNCHANGED page /\ JobsOK' /\ \A v \in Requests \ {r} : job'[v] = job[v]
            /\ job'[r].pc = "details" /\ job'[r].form = job[r].form
            /\ job'[r].doubt = job[r].doubt
            /\ \A i \in DOMAIN job'[r].rows : ~job'[r].rows[i].nodesc
<1> USE DEF Typed
<1>0. At(r, "others")
  BY DEF Others
<1>1. ASSUME NEW names \in Ordered(PushAccounts(r)), More(r, names), UNCHANGED page
      PROVE  /\ JobsOK' /\ \A v \in Requests \ {r} : job'[v] = job[v]
             /\ job'[r].pc = "details" /\ job'[r].form = job[r].form
             /\ job'[r].doubt = job[r].doubt
             /\ \A i \in DOMAIN job'[r].rows : ~job'[r].rows[i].nodesc
  <2>1. PICK S : S = PushAccounts(r)
    OBVIOUS
  <2>2. S \subseteq DOMAIN subacct \cup {Lin}
    BY <2>1 DEF PushAccounts
  <2>3. IsFiniteSet(Accounts \cup {Lin}) /\ S \in SUBSET (Accounts \cup {Lin})
    BY <2>2, NameFacts, FS_AddElement DEF TablesOK
  <2>4. Cardinality(S) \in Nat
    BY <2>3, FS_Subset, FS_CardinalityType
  <2>5. names \in [1..Cardinality(S) -> S]
    BY <1>1, <2>1 DEF Ordered
  <2>6. DOMAIN names = 1..Cardinality(S) /\ \A i \in DOMAIN names : names[i] \in S
    BY <2>5
  <2>7. \A i \in DOMAIN names : names[i] \in DOMAIN subacct \cup {Lin}
    BY <2>2, <2>6
  <2> QED
    BY <1>0, <1>1, <2>4, <2>6, <2>7, MoreStep
<1>2. ASSUME Range(FormNames(r)) \subseteq DOMAIN subacct, More(r, FormNames(r))
      PROVE  /\ JobsOK' /\ \A v \in Requests \ {r} : job'[v] = job[v]
             /\ job'[r].pc = "details" /\ job'[r].form = job[r].form
             /\ job'[r].doubt = job[r].doubt
             /\ \A i \in DOMAIN job'[r].rows : ~job'[r].rows[i].nodesc
  <2>1. Len(job[r].form) \in Nat /\ Len(job[r].form) # 0
    BY <1>0, JobFacts, EmptySeq DEF At, JobFilled
  <2>2. PICK names, n : names = FormNames(r) /\ n = Len(job[r].form) - 1
    OBVIOUS
  <2>3. n \in Nat /\ DOMAIN names = 1..n
    BY <2>1, <2>2 DEF FormNames
  <2>4. \A i \in DOMAIN names : names[i] \in DOMAIN subacct \cup {Lin}
    BY <1>2, <2>2 DEF Range
  <2>5. More(r, names)
    BY <1>2, <2>2
  <2> QED
    BY <1>0, <2>3, <2>4, <2>5, MoreStep
<1> QED
  BY <1>1, <1>2 DEF Others

LEMMA DetailedType ==
  ASSUME Typed, NEW r \in Requests, NEW i \in DOMAIN job[r].rows
  PROVE  /\ Detailed(r, i) \in FullRow
         /\ Detailed(r, i).account = job[r].rows[i].account
<1> USE DEF Typed
<1>1. job[r].rows[i] \in FullRow /\ job[r].pw \in Preference
  BY JobFacts, SeqFacts
<1>2. PICK row : row = job[r].rows[i]
  OBVIOUS
<1>3. CASE row.account = Lin
  BY <1>1, <1>2, <1>3 DEF Detailed
<1>4. CASE row.account # Lin /\ Filled(job[r].form, i)
  <2>1. job[r].form[i] \in FormRow /\ job[r].form[i].account # Lin
    BY <1>4, JobFacts, SeqFacts DEF Filled
  <2>2. PICK server : server = job[r].form[i].server
    OBVIOUS
  <2>3. server \in Servers \cup {None, NilText}
    BY <2>1, <2>2, FormRowFacts
  <2>4. Detailed(r, i) = [row EXCEPT !.server = server, !.pw = job[r].pw]
    BY <1>2, <1>4, <2>2 DEF Detailed, FormField
  <2>5. [row EXCEPT !.server = server, !.pw = job[r].pw] \in FullRow
    BY <1>1, <1>2, <2>3, NameFacts DEF FullRow, Row
  <2>6. [row EXCEPT !.server = server, !.pw = job[r].pw].account = row.account
    BY <1>1, <1>2 DEF FullRow, Row
  <2> QED
    BY <1>2, <2>4, <2>5, <2>6
<1>5. CASE row.account # Lin /\ ~Filled(job[r].form, i) /\ where[row.account] = None
  BY <1>1, <1>2, <1>5 DEF Detailed
<1>6. CASE row.account # Lin /\ ~Filled(job[r].form, i) /\ where[row.account] # None
  <2>1. row.account \in Accounts
    BY <1>1, <1>2, <1>6, RowFacts
  <2>2. PICK server, nodesc : server = where[row.account] /\ nodesc = (row.account \in NoDesc)
    OBVIOUS
  <2>3. server \in Servers /\ nodesc \in BOOLEAN
    <3>1. server \in Servers
      BY <1>6, <2>1, <2>2 DEF TablesOK
    <3>2. nodesc \in BOOLEAN
      BY <2>2
    <3> QED
      BY <3>1, <3>2
  <2>4. Detailed(r, i) = [row EXCEPT !.server = server, !.nodesc = nodesc]
    BY <1>2, <1>6, <2>2 DEF Detailed
  <2>5. [row EXCEPT !.server = server, !.nodesc = nodesc] \in FullRow
    BY <1>1, <1>2, <2>3, NameFacts DEF FullRow, Row
  <2>6. [row EXCEPT !.server = server, !.nodesc = nodesc].account = row.account
    BY <1>1, <1>2 DEF FullRow, Row
  <2> QED
    BY <1>2, <2>4, <2>5, <2>6
<1> QED
  BY <1>3, <1>4, <1>5, <1>6

LEMMA DetailsStep ==
  ASSUME Typed, NEW r \in Requests, Details(r)
  PROVE  \E rows \in Seq(FullRow), doubt \in BOOLEAN :
           /\ doubt <=> job[r].doubt \/ Doubtful(r)
           /\ DOMAIN rows = DOMAIN job[r].rows
           /\ \A i \in DOMAIN rows : rows[i] = Detailed(r, i)
           /\ \/ Answer(r, rows, doubt)
              \/ /\ UNCHANGED page /\ JobsOK' /\ \A v \in Requests \ {r} : job'[v] = job[v]
                 /\ job'[r] = [job[r] EXCEPT !.pc = "vcard", !.rows = rows, !.doubt = doubt]
<1> USE DEF Typed
<1>1. PICK rows, doubt : /\ rows = [i \in DOMAIN job[r].rows |-> Detailed(r, i)]
                         /\ doubt = (job[r].doubt \/ Doubtful(r))
  OBVIOUS
<1>2. /\ job[r].rows \in Seq(FullRow) /\ job[r].rows # <<>> /\ job[r].doubt \in BOOLEAN
      /\ job[r].rows[1].account \in Accounts /\ job[r].form # <<>>
  BY JobFacts DEF Details, At, JobFilled, Target
<1>3. Len(job[r].rows) \in Nat /\ DOMAIN job[r].rows = 1..Len(job[r].rows)
      /\ 1 \in DOMAIN job[r].rows
  BY <1>2, SeqFacts
<1>4. /\ DOMAIN rows = DOMAIN job[r].rows
      /\ \A i \in DOMAIN rows : rows[i] = Detailed(r, i)
  BY <1>1
<1>5. \A i \in DOMAIN rows : rows[i] \in FullRow /\ rows[i].account = job[r].rows[i].account
  BY <1>4, DetailedType
<1>6. rows \in [1..Len(job[r].rows) -> FullRow]
  BY <1>1, <1>3, <1>5
<1>7. rows \in Seq(FullRow) /\ Len(rows) = Len(job[r].rows)
  BY <1>3, <1>6, SeqIntro
<1>8. rows # <<>> /\ rows[1].account \in Accounts
  BY <1>2, <1>3, <1>4, <1>5
<1>9. doubt \in BOOLEAN
  BY <1>1
<1>10. ASSUME job' = [job EXCEPT ![r].pc = "vcard", ![r].rows = rows, ![r].doubt = doubt]
       PROVE  /\ JobsOK' /\ \A v \in Requests \ {r} : job'[v] = job[v]
              /\ job'[r] = [job[r] EXCEPT !.pc = "vcard", !.rows = rows, !.doubt = doubt]
  <2>1. PICK v : v = [job[r] EXCEPT !.pc = "vcard", !.rows = rows, !.doubt = doubt]
    OBVIOUS
  <2>2. v \in JobType /\ v.form = job[r].form /\ v.rows = rows
    BY <1>7, <1>9, <2>1, JobFacts DEF JobType, Steps
  <2>3. job' = [job EXCEPT ![r] = v]
    BY <1>10, <2>1
  <2>4. JobsOK' /\ job'[r] = v /\ \A w \in Requests \ {r} : job'[w] = job[w]
    BY <1>2, <1>8, <2>2, <2>3, JobStep
  <2> QED
    BY <2>1, <2>4
<1>11. \/ Answer(r, rows, doubt)
       \/ /\ job' = [job EXCEPT ![r].pc = "vcard", ![r].rows = rows, ![r].doubt = doubt]
          /\ UNCHANGED page
  BY <1>1 DEF Details
<1>12. doubt <=> job[r].doubt \/ Doubtful(r)
  BY <1>1
<1> QED
  BY <1>4, <1>7, <1>9, <1>10, <1>11, <1>12

LEMMA RequestTyped ==
  ASSUME Typed, NEW r \in Requests, Request(r),
         job[r].pc \in {"others", "details"} =>
             \A i \in DOMAIN job[r].rows : ~job[r].rows[i].nodesc
  PROVE  Typed'
<1> USE DEF Typed
<1>f. ASSUME NEW rows \in Seq(FullRow), NEW whole \in BOOLEAN
      PROVE  [rows |-> rows, whole |-> whole] \in File
  BY DEF File
<1>u. ASSUME Upset PROVE upsets' \in Nat
  BY <1>u DEF Upset, CountsOK
<1>r. /\ job[r].rows \in Seq(FullRow) /\ job[r].doubt \in BOOLEAN /\ job[r].alone \in BOOLEAN
      /\ job[r].pc \notin {"idle", "first"} =>
           /\ Target(r) \in Accounts /\ job[r].rows # <<>> /\ job[r].rows[1] \in FullRow
           /\ job[r].rows[1].server \in Servers \cup {None, NilText}
  <2>1. job[r].rows \in Seq(FullRow) /\ JobFilled(r)
    BY JobFacts
  <2>2. ASSUME job[r].pc \notin {"idle", "first"}
        PROVE  /\ Target(r) \in Accounts /\ job[r].rows # <<>> /\ job[r].rows[1] \in FullRow
               /\ job[r].rows[1].server \in Servers \cup {None, NilText}
    <3>1. Target(r) \in Accounts /\ job[r].rows # <<>>
      BY <2>1, <2>2 DEF JobFilled
    <3>2. job[r].rows[1] \in FullRow
      BY <2>1, <3>1, SeqFacts
    <3>3. job[r].rows[1].account # Lin
      BY <3>1, NameFacts DEF Target
    <3> QED
      BY <3>1, <3>2, <3>3, RowFacts
  <2> QED
    BY <2>1, <2>2, JobFacts
<1>1. CASE \/ \E a \in Accounts : Open(r, a)
           \/ \E pw \in Preference, gen \in BOOLEAN : Submit(r, pw, gen)
  <2>1. PICK form \in Seq(FormRow), pw \in Preference, gen \in BOOLEAN, doubt \in BOOLEAN :
               Post(r, form, pw, gen, doubt) /\ form # <<>>
    BY <1>1, FormPosted
  <2>2. JobsOK'
    BY <2>1, PostStep
  <2>3. UNCHANGED <<world, tables, page, files, refreshes, upsets>> /\ forms' = forms + 1
    BY <2>1 DEF Post
  <2>4. CountsOK'
    BY <2>3 DEF CountsOK
  <2> QED
    BY <2>2, <2>3, <2>4 DEF world, tables, files, TablesOK, PageOK, XmlOK, VcardOK
<1>2. CASE First(r)
  <2>1. JobsOK' /\ PageOK'
    BY <1>2, FirstStep, PanicStep DEF PageOK
  <2> QED
    BY <1>2, <2>1 DEF First, world, tables, files, limits, TablesOK, XmlOK, VcardOK, CountsOK
<1>3. CASE Others(r)
  <2>1. At(r, "others")
    BY <1>3 DEF Others
  <2>2. JobsOK' /\ PageOK'
    BY <1>3, <2>1, OthersStep, PanicStep DEF PageOK, At
  <2> QED
    BY <1>3, <2>2 DEF Others, world, tables, files, limits, TablesOK, XmlOK, VcardOK, CountsOK
<1>4. CASE Details(r)
  <2>1. JobsOK' /\ PageOK'
    BY <1>4, DetailsStep, AnswerStep DEF PageOK
  <2> QED
    BY <1>4, <2>1 DEF Details, world, tables, files, limits, TablesOK, XmlOK, VcardOK, CountsOK
<1>5. CASE Vcard(r)
  <2>1. job[r].pc = "vcard" /\ Touch(r, "fetch", TRUE)
        /\ vcard' = [vcard EXCEPT ![Target(r)] = job[r].rows[1].server]
    BY <1>5 DEF Vcard, At
  <2>2. JobsOK'
    BY <2>1, TouchStep
  <2>3. VcardOK'
    BY <1>r, <2>1 DEF VcardOK
  <2> QED
    BY <1>5, <2>2, <2>3 DEF Vcard, world, tables, limits, TablesOK, PageOK, XmlOK, CountsOK
<1>6. CASE FetchErr(r)
  <2>1. JobsOK' /\ PageOK'
    BY <1>6, <1>r, AnswerStep DEF FetchErr
  <2> QED
    BY <1>6, <1>u, <2>1 DEF FetchErr, world, tables, files, TablesOK, XmlOK, VcardOK, CountsOK
<1>7. CASE Fetch(r)
  <2>1. JobsOK' /\ PageOK'
    <3>1. CASE Answer(r, job[r].rows, job[r].doubt)
      BY <1>r, <3>1, AnswerStep
    <3>2. CASE Goto(r, "truncate") /\ UNCHANGED page
      <4>1. PICK v : v = [job[r] EXCEPT !.pc = "truncate"]
        OBVIOUS
      <4>2. v \in JobType /\ v.form = job[r].form /\ v.rows = job[r].rows
        BY <4>1, JobFacts DEF JobType, Steps
      <4>3. job' = [job EXCEPT ![r] = v]
        BY <3>2, <4>1 DEF Goto
      <4>4. job[r].form # <<>> /\ job[r].rows # <<>> /\ job[r].rows[1].account \in Accounts
        BY <1>7, JobFacts DEF Fetch, At, JobFilled, Target
      <4> QED
        BY <3>2, <4>2, <4>3, <4>4, JobStep DEF PageOK
    <3> QED
      BY <1>7, <3>1, <3>2 DEF Fetch
  <2> QED
    BY <1>7, <2>1 DEF Fetch, world, tables, files, limits, TablesOK, XmlOK, VcardOK, CountsOK
<1>8. CASE Truncate(r)
  <2>1. /\ job[r].pc = "truncate" /\ Touch(r, "write", job[r].alone)
        /\ xml' = [xml EXCEPT ![Target(r)] = [rows |-> <<>>, whole |-> FALSE]]
    BY <1>8 DEF Truncate, At
  <2>2. JobsOK'
    BY <1>r, <2>1, TouchStep
  <2>3. [rows |-> <<>>, whole |-> FALSE] \in File
    BY <1>f, EmptySeq
  <2>4. XmlOK'
    BY <2>1, <2>3 DEF XmlOK
  <2> QED
    BY <1>8, <2>2, <2>4 DEF Truncate, world, tables, limits, TablesOK, PageOK, VcardOK, CountsOK
<1>9. CASE Write(r)
  <2>1. job[r].pc = "write" /\ Touch(r, "qr code", job[r].alone)
    BY <1>9 DEF Write, At
  <2>2. PICK whole \in BOOLEAN :
               xml' = [xml EXCEPT ![Target(r)] = [rows |-> job[r].rows, whole |-> whole]]
    BY <1>9 DEF Write
  <2>3. JobsOK'
    BY <1>r, <2>1, TouchStep
  <2>4. XmlOK'
    BY <1>f, <1>r, <2>2 DEF XmlOK
  <2> QED
    BY <1>9, <2>3, <2>4 DEF Write, world, tables, limits, TablesOK, PageOK, VcardOK, CountsOK
<1>10. CASE WriteErr(r)
  <2>1. /\ page' = [rows |-> Shown(job[r].rows), push |-> job[r].push, doubt |-> job[r].doubt]
        /\ job' = [v \in Requests |->
                     IF v = r THEN Idle
                     ELSE [job[v] EXCEPT !.alone = @ /\ v \notin Makers(r)]]
        /\ xml' = [xml EXCEPT ![Target(r)] = [rows |-> job[r].rows, whole |-> FALSE]]
    BY <1>10 DEF WriteErr
  <2>2. PageOK'
    BY <1>r, <2>1, ShownFacts, JobFacts DEF PageOK
  <2>3. ASSUME NEW v \in Requests PROVE job'[v] \in JobType /\ JobFilled(v)'
    <3>1. job[v] \in JobType /\ JobFilled(v)
      BY JobFacts
    <3>2. CASE v = r
      BY <2>1, <3>2, IdleType DEF JobFilled
    <3>3. CASE v # r
      BY <2>1, <3>1, <3>3 DEF JobType, JobFilled, Target
    <3> QED
      BY <3>2, <3>3
  <2>4. JobsOK'
    BY <2>1, <2>3 DEF JobsOK
  <2>5. XmlOK'
    BY <1>f, <1>r, <2>1 DEF XmlOK
  <2> QED
    BY <1>10, <1>u, <2>2, <2>4, <2>5
    DEF WriteErr, world, tables, TablesOK, VcardOK, CountsOK
<1>11. CASE QrCode(r)
  <2>1. JobsOK' /\ PageOK'
    BY <1>11, <1>r, AnswerStep DEF QrCode
  <2> QED
    BY <1>11, <2>1 DEF QrCode, world, tables, files, limits, TablesOK, XmlOK, VcardOK, CountsOK
<1> QED
  BY <1>1, <1>2, <1>3, <1>4, <1>5, <1>6, <1>7, <1>8, <1>9, <1>10, <1>11 DEF Request

LEMMA QuietTyped ==
  ASSUME Typed, UNCHANGED <<page, files>>
  PROVE  /\ PageOK' /\ XmlOK' /\ VcardOK'
         /\ UNCHANGED job => JobsOK'
  BY DEF Typed, PageOK, XmlOK, VcardOK, files, JobsOK, JobFilled, Target

LEMMA RefreshTyped ==
  ASSUME Typed, Refresh
  PROVE  Typed' /\ UNCHANGED <<job, page, files>> /\ \A a \in Accounts : had[a] \subseteq had'[a]
<1> USE DEF Typed
<1>1. UNCHANGED <<job, page, files>>
  BY DEF Refresh, RefreshEmpties, RefreshFills, RefreshAccounts, RefreshSecrets,
         RefreshDomains, RefreshFails
<1>2. CountsOK'
  BY DEF Refresh, RefreshEmpties, RefreshFills, RefreshAccounts, RefreshSecrets,
         RefreshDomains, RefreshFails, Upset, CountsOK, limits
<1>3. TablesOK' /\ \A a \in Accounts : had[a] \subseteq had'[a]
  <2>1. CASE RefreshEmpties
    BY <2>1 DEF RefreshEmpties, TablesOK, world
  <2>2. CASE RefreshFills
    <3>1. CASE UNCHANGED <<where, had>>
      BY <2>2, <3>1 DEF RefreshFills, TablesOK, world
    <3>2. CASE where' = home /\ had' = [a \in Accounts |-> had[a] \cup {home[a]}]
      <4>1. where' \in [Accounts -> Servers \cup {None}]
        BY <3>2 DEF TablesOK
      <4>2. /\ had' \in [Accounts -> SUBSET Servers]
            /\ \A a \in Accounts : had[a] \subseteq had'[a]
        BY <3>2 DEF TablesOK
      <4> QED
        BY <2>2, <4>1, <4>2 DEF RefreshFills, TablesOK, world
    <3> QED
      BY <2>2, <3>1, <3>2 DEF RefreshFills
  <2>3. CASE RefreshAccounts
    <3>1. [push |-> FALSE, domain |-> None, secrets |-> FALSE] \in SubAcct
      BY DEF SubAcct
    <3>2. DOMAIN subacct' \subseteq Accounts /\ subacct' \in [DOMAIN subacct' -> SubAcct]
      BY <2>3, <3>1 DEF RefreshAccounts, TablesOK
    <3> QED
      BY <2>3, <3>2 DEF RefreshAccounts, TablesOK, world
  <2>4. CASE RefreshSecrets
    <3>1. \A a \in DOMAIN subacct : [subacct[a] EXCEPT !.secrets = TRUE] \in SubAcct
      BY DEF SubAcct, TablesOK
    <3>2. DOMAIN subacct' \subseteq Accounts /\ subacct' \in [DOMAIN subacct' -> SubAcct]
      BY <2>4, <3>1 DEF RefreshSecrets, TablesOK
    <3> QED
      BY <2>4, <3>2 DEF RefreshSecrets, TablesOK, world
  <2>5. CASE RefreshDomains
    <3>1. \A a \in DOMAIN subacct : [subacct[a] EXCEPT !.domain = where[a]] \in SubAcct
      BY DEF SubAcct, TablesOK
    <3>2. DOMAIN subacct' \subseteq Accounts /\ subacct' \in [DOMAIN subacct' -> SubAcct]
      BY <2>5, <3>1 DEF RefreshDomains, TablesOK
    <3> QED
      BY <2>5, <3>2 DEF RefreshDomains, TablesOK, world
  <2>6. CASE RefreshFails
    BY <2>6 DEF RefreshFails, TablesOK, world
  <2> QED
    BY <2>1, <2>2, <2>3, <2>4, <2>5, <2>6 DEF Refresh
<1> QED
  BY <1>1, <1>2, <1>3, QuietTyped

LEMMA OutsideTyped ==
  ASSUME Typed, Outside
  PROVE  /\ Typed' /\ UNCHANGED <<page, files, where, had>>
         /\ UNCHANGED job \/ \A r \in Requests : job'[r] = Idle
<1> USE DEF Typed
<1>u. ASSUME Upset, UNCHANGED forms, UNCHANGED refreshes PROVE CountsOK'
  BY <1>u DEF Upset, CountsOK
<1>1. CASE Crash
  <2>1. job' = [r \in Requests |-> Idle]
    BY <1>1 DEF Crash
  <2>2. \A r \in Requests : job'[r] = Idle /\ JobFilled(r)'
    BY <2>1, IdleType DEF JobFilled
  <2>3. JobsOK'
    BY <2>1, <2>2, IdleType DEF JobsOK
  <2>4. TablesOK' /\ UNCHANGED <<page, files, where, had>>
    BY <1>1 DEF Crash, world, TablesOK
  <2>5. CountsOK'
    BY <1>1 DEF Crash, Upset, CountsOK
  <2> QED
    BY <2>2, <2>3, <2>4, <2>5, QuietTyped
<1>2. ASSUME NEW to \in {"none", "no password", "password"}, Linmenu(to)
      PROVE  Typed' /\ UNCHANGED <<page, files, where, had, job>>
  <2>1. TablesOK' /\ UNCHANGED <<page, files, where, had, job>>
    BY <1>2 DEF Linmenu, world, TablesOK
  <2>2. CountsOK'
    <3>1. UNCHANGED forms /\ UNCHANGED refreshes /\ Upset
      BY <1>2 DEF Linmenu
    <3> QED
      BY <1>u, <3>1
  <2> QED
    BY <2>1, <2>2, QuietTyped
<1>3. ASSUME NEW a \in Accounts, Apply(a)
      PROVE  Typed' /\ UNCHANGED <<page, files, where, had, job>>
  <2>1. TablesOK'
    BY <1>3 DEF Apply, world, TablesOK, SubAcct
  <2> QED
    BY <1>3, <2>1, QuietTyped DEF Apply, Upset, CountsOK
<1>4. ASSUME NEW a \in Accounts, ChangeAccount(a)
      PROVE  Typed' /\ UNCHANGED <<page, files, where, had, job>>
  <2>1. voip' \subseteq Accounts
    BY <1>4 DEF ChangeAccount, TablesOK
  <2>2. TablesOK' /\ UNCHANGED <<page, files, where, had, job>>
    BY <1>4, <2>1 DEF ChangeAccount, tables, TablesOK
  <2>3. CountsOK'
    BY <1>4 DEF ChangeAccount, Upset, CountsOK
  <2> QED
    BY <2>2, <2>3, QuietTyped
<1>5. ASSUME NEW a \in Accounts, NEW s \in Servers, ChangeServer(a, s)
      PROVE  Typed' /\ UNCHANGED <<page, files, where, had, job>>
  <2>1. home' \in [Accounts -> Servers]
    BY <1>5 DEF ChangeServer, TablesOK
  <2>2. TablesOK' /\ UNCHANGED <<page, files, where, had, job>>
    BY <1>5, <2>1 DEF ChangeServer, tables, TablesOK
  <2>3. CountsOK'
    BY <1>5 DEF ChangeServer, Upset, CountsOK
  <2> QED
    BY <2>2, <2>3, QuietTyped
<1> QED
  BY <1>1, <1>2, <1>3, <1>4, <1>5 DEF Outside

LEMMA InitTyped == Init => Typed
<1> SUFFICES ASSUME Init PROVE Typed
  OBVIOUS
<1>1. PICK push \in BOOLEAN :
        subacct = [a \in Accounts |-> [push |-> push, domain |-> home[a], secrets |-> TRUE]]
  BY DEF Init
<1>2. home \in [Accounts -> Servers] /\ where = home /\ had = [a \in Accounts |-> {home[a]}]
      /\ voip = Accounts /\ lin = "password" /\ refresh = "idle"
  BY DEF Init
<1>3. \A a \in Accounts : [push |-> push, domain |-> home[a], secrets |-> TRUE] \in SubAcct
  BY <1>2 DEF SubAcct
<1>4. TablesOK
  BY <1>1, <1>2, <1>3 DEF TablesOK
<1>5. JobsOK
  BY IdleType DEF Init, JobsOK, JobFilled
<1>6. PageOK
  BY EmptySeq DEF Init, NoPage, PageOK
<1>7. XmlOK /\ VcardOK /\ CountsOK
  BY DEF Init, XmlOK, VcardOK, CountsOK
<1> QED
  BY <1>4, <1>5, <1>6, <1>7 DEF Typed

-----------------------------------------------------------------------------
(* The invariant                                                           *)

Making == {"fetch", "truncate", "write", "qr code"}

\* A row with a server of its own
Good(f) ==
    f.account # Lin => f.server \in had[f.account] /\ (f.nodesc => f.account \in NoDesc)

WhereInv == \A a \in Accounts : where[a] = None \/ where[a] \in had[a]

\* As long as no server was missing and the list stayed, pages and forms are good.
PageInv == ~page.doubt => \A i \in DOMAIN page.rows : Good(page.rows[i])

FormInv(r) ==
    ~job[r].doubt =>
        \A i \in DOMAIN job[r].form :
            Good(job[r].form[i]) \/ \E a \in Accounts : job[r].form[i] = OnlyName(a)

\* What the form says is in the rows.
Preferred(r, i) ==
    i \in DOMAIN job[r].form =>
        \/ job[r].rows[i].account \in NoDesc \cup {Lin}
        \/ job[r].form[i] = OnlyName(job[r].form[i].account)
        \/ job[r].rows[i].pw = job[r].pw

RowsInv(r) ==
    /\ job[r].pc \in {"others", "details"} =>
           \A i \in DOMAIN job[r].rows : ~job[r].rows[i].nodesc
    /\ job[r].pc \in Making \cup {"vcard"} /\ ~job[r].doubt =>
           \A i \in DOMAIN job[r].rows : Good(job[r].rows[i]) /\ Preferred(r, i)

\* A request that is alone finds its contacts, and in the XML nothing but its rows,
\* all of them unless a request with the same rows has emptied the file.
FileInv(r) ==
    job[r].alone =>
        /\ job[r].pc \in Making => vcard[Target(r)] = job[r].rows[1].server
        /\ job[r].pc \in {"write", "qr code"} => xml[Target(r)].rows \in {<<>>, job[r].rows}
        /\ job[r].pc = "qr code" /\ (\A v \in Makers(r) : ~At(v, "write")) =>
               xml[Target(r)] = [rows |-> job[r].rows, whole |-> TRUE]

JobInv(r) == FormInv(r) /\ RowsInv(r) /\ FileInv(r)

IInv == Typed /\ WhereInv /\ PageInv /\ \A r \in Requests : JobInv(r)

-----------------------------------------------------------------------------
(* Servers and preferences                                                 *)

HadGrows == \A a \in Accounts : had[a] \subseteq had'[a]

LEMMA SameHad == UNCHANGED had => HadGrows
  BY DEF HadGrows

LEMMA PageKept ==
  ASSUME Typed, PageInv, HadGrows, UNCHANGED page
  PROVE  PageInv'
<1>1. page.rows \in Seq(FormRow)
  BY DEF Typed, PageOK
<1>2. \A i \in DOMAIN page.rows : page.rows[i] \in FormRow
  BY <1>1, SeqFacts
<1>3. ASSUME ~page.doubt, NEW i \in DOMAIN page.rows PROVE Good(page.rows[i])'
  <2>1. Good(page.rows[i]) /\ page.rows[i] \in FormRow
    BY <1>2, <1>3 DEF PageInv
  <2>2. had[page.rows[i].account] \subseteq had'[page.rows[i].account] \/ page.rows[i].account = Lin
    BY <2>1, FormRowFacts DEF HadGrows
  <2> QED
    BY <2>1, <2>2 DEF Good
<1> QED
  BY <1>3 DEF PageInv

\* A request whose variables stay, except that it may cease to be alone
LEMMA JobKept ==
  ASSUME Typed, NEW r \in Requests, FormInv(r), RowsInv(r), HadGrows,
         job'[r].form = job[r].form, job'[r].doubt = job[r].doubt,
         job'[r].rows = job[r].rows, job'[r].pw = job[r].pw,
         \/ job'[r].pc = job[r].pc
         \/ job[r].pc \in Making \cup {"vcard"} /\ job'[r].pc \in Making
  PROVE  FormInv(r)' /\ RowsInv(r)'
<1>1. job[r].form \in Seq(FormRow) /\ job[r].rows \in Seq(FullRow)
  BY JobFacts DEF Typed
<1>2. /\ \A i \in DOMAIN job[r].form : job[r].form[i] \in FormRow
      /\ \A i \in DOMAIN job[r].rows : job[r].rows[i] \in FullRow
  BY <1>1, SeqFacts
<1>3. ASSUME NEW i \in DOMAIN job[r].form, Good(job[r].form[i])
      PROVE  Good(job[r].form[i])'
  <2>1. \/ had[job[r].form[i].account] \subseteq had'[job[r].form[i].account]
        \/ job[r].form[i].account = Lin
    BY <1>2, FormRowFacts DEF HadGrows
  <2> QED
    BY <1>3, <2>1 DEF Good
<1>4. ASSUME NEW i \in DOMAIN job[r].rows, Good(job[r].rows[i])
      PROVE  Good(job[r].rows[i])'
  <2>1. \/ had[job[r].rows[i].account] \subseteq had'[job[r].rows[i].account]
        \/ job[r].rows[i].account = Lin
    BY <1>2, RowFacts DEF HadGrows
  <2> QED
    BY <1>4, <2>1 DEF Good
<1>5. FormInv(r)'
  BY <1>3 DEF FormInv
<1>6. RowsInv(r)'
  <2>1. ASSUME job'[r].pc \in Making \cup {"vcard"}, ~job'[r].doubt,
               NEW i \in DOMAIN job'[r].rows
        PROVE  Good(job[r].rows[i])' /\ Preferred(r, i)'
    <3>1. Good(job[r].rows[i]) /\ Preferred(r, i)
      BY <2>1 DEF RowsInv
    <3> QED
      BY <1>4, <2>1, <3>1 DEF Preferred
  <2>2. job'[r].pc \in {"others", "details"} =>
           \A i \in DOMAIN job'[r].rows : ~job'[r].rows[i].nodesc
    BY DEF RowsInv, Making
  <2> QED
    BY <2>1, <2>2 DEF RowsInv
<1> QED
  BY <1>5, <1>6

\* What the page then shows is good.
LEMMA PageShown ==
  ASSUME Typed, NEW rows \in Seq(FullRow), NEW doubt \in BOOLEAN,
         page'.rows = Shown(rows), page'.doubt = doubt, UNCHANGED had,
         ~doubt => \A i \in DOMAIN rows : Good(rows[i])
  PROVE  PageInv'
<1>1. /\ DOMAIN Shown(rows) = DOMAIN rows
      /\ \A i \in DOMAIN rows :
           /\ Shown(rows)[i].account = rows[i].account
           /\ Shown(rows)[i].nodesc = rows[i].nodesc
           /\ Shown(rows)[i].server = IF rows[i].server = None THEN NilText
                                      ELSE rows[i].server
  BY ShownFacts
<1>2. \A i \in DOMAIN rows : rows[i].account \in Accounts \cup {Lin}
  BY SeqFacts, RowFacts
<1>3. \A a \in Accounts : None \notin had[a]
  BY NameFacts DEF Typed, TablesOK
<1>4. ASSUME ~doubt, NEW i \in DOMAIN rows PROVE Good(page.rows[i])'
  <2>1. Good(rows[i])
    BY <1>4
  <2>2. rows[i].account # Lin => rows[i].server \in had[rows[i].account]
                                 /\ rows[i].server # None
    BY <1>2, <1>3, <2>1 DEF Good
  <2>3. rows[i].account # Lin =>
          page'.rows[i].server \in had[rows[i].account]
          /\ (page'.rows[i].nodesc => rows[i].account \in NoDesc)
    BY <1>1, <2>1, <2>2 DEF Good
  <2> QED
    BY <1>1, <2>3 DEF Good
<1> QED
  BY <1>1, <1>4 DEF PageInv

\* A row as the loop leaves it, on a page without a message about its server
LEMMA DetailedGood ==
  ASSUME Typed, NEW r \in Requests, WhereInv, FormInv(r), ~job[r].doubt, ~Doubtful(r),
         NEW i \in DOMAIN job[r].rows, ~job[r].rows[i].nodesc
  PROVE  /\ Good(Detailed(r, i))
         /\ i \in DOMAIN job[r].form =>
              \/ Detailed(r, i).account \in NoDesc \cup {Lin}
              \/ job[r].form[i] = OnlyName(job[r].form[i].account)
              \/ Detailed(r, i).pw = job[r].pw
<1> USE DEF Typed
<1>1. job[r].rows[i] \in FullRow /\ job[r].pw \in Preference
  BY JobFacts, SeqFacts
<1>2. PICK row : row = job[r].rows[i]
  OBVIOUS
<1>3. /\ row.account # Lin /\ ~Filled(job[r].form, i) => where[row.account] # None
      /\ i \in DOMAIN job[r].form => row.account = job[r].form[i].account
  BY <1>2 DEF Doubtful
<1>4. ASSUME NEW a \in Accounts PROVE OnlyName(a).account = a /\ OnlyName(a).nodesc
  BY <1>4, OnlyNameType
<1>5. ASSUME i \in DOMAIN job[r].form
      PROVE  \/ Good(job[r].form[i])
             \/ /\ job[r].form[i] = OnlyName(job[r].form[i].account)
                /\ job[r].form[i].nodesc
  <2>1. CASE Good(job[r].form[i])
    BY <2>1
  <2>2. ASSUME NEW a \in Accounts, job[r].form[i] = OnlyName(a)
        PROVE  /\ job[r].form[i] = OnlyName(job[r].form[i].account)
               /\ job[r].form[i].nodesc
    BY <1>4, <2>2
  <2> QED
    BY <1>5, <2>1, <2>2 DEF FormInv
<1>6. CASE row.account = Lin
  <2>1. Detailed(r, i) = row
    BY <1>2, <1>6 DEF Detailed
  <2> QED
    BY <1>6, <2>1 DEF Good
<1>7. CASE row.account # Lin /\ Filled(job[r].form, i)
  <2>1. PICK server : server = job[r].form[i].server
    OBVIOUS
  <2>2. Detailed(r, i) = [row EXCEPT !.server = server, !.pw = job[r].pw]
    BY <1>2, <1>7, <2>1 DEF Detailed, FormField
  <2>3. /\ i \in DOMAIN job[r].form /\ ~job[r].form[i].nodesc
        /\ job[r].form[i].account = row.account
    BY <1>3, <1>7 DEF Filled
  <2>4. server \in had[row.account]
    BY <1>5, <1>7, <2>1, <2>3 DEF Good
  <2>5. PICK d : d = [row EXCEPT !.server = server, !.pw = job[r].pw]
    OBVIOUS
  <2>6. d.account = row.account /\ d.server = server /\ d.pw = job[r].pw
        /\ d.nodesc = row.nodesc
    BY <1>1, <1>2, <2>5 DEF FullRow, Row
  <2>7. Good(d) /\ d.pw = job[r].pw
    BY <1>2, <2>4, <2>6 DEF Good
  <2> QED
    BY <2>2, <2>5, <2>7
<1>8. CASE row.account # Lin /\ ~Filled(job[r].form, i)
  <2>1. row.account \in Accounts
    BY <1>1, <1>2, <1>8, RowFacts
  <2>2. where[row.account] \in had[row.account] /\ where[row.account] # None
    BY <1>3, <1>8, <2>1 DEF WhereInv
  <2>3. PICK server, nodesc : server = where[row.account] /\ nodesc = (row.account \in NoDesc)
    OBVIOUS
  <2>4. Detailed(r, i) = [row EXCEPT !.server = server, !.nodesc = nodesc]
    BY <1>2, <1>8, <2>2, <2>3 DEF Detailed
  <2>5. PICK d : d = [row EXCEPT !.server = server, !.nodesc = nodesc]
    OBVIOUS
  <2>6. d.account = row.account /\ d.server = server /\ d.nodesc = nodesc
    BY <1>1, <1>2, <2>5 DEF FullRow, Row
  <2>7. nodesc => row.account \in NoDesc
    BY <2>3
  <2>8. Good(d)
    BY <2>2, <2>3, <2>6, <2>7 DEF Good
  <2>9. i \in DOMAIN job[r].form =>
          \/ row.account \in NoDesc \cup {Lin}
          \/ job[r].form[i] = OnlyName(job[r].form[i].account)
    <3> SUFFICES ASSUME i \in DOMAIN job[r].form
                 PROVE  \/ row.account \in NoDesc \cup {Lin}
                        \/ job[r].form[i] = OnlyName(job[r].form[i].account)
      OBVIOUS
    <3>1. job[r].form[i].nodesc /\ job[r].form[i].account = row.account
      <4>1. job[r].form[i] \in FormRow /\ job[r].form[i].nodesc \in BOOLEAN
        BY JobFacts, SeqFacts, FormRowFacts
      <4> QED
        BY <1>3, <1>8, <4>1 DEF Filled
    <3> QED
      BY <1>5, <1>8, <3>1 DEF Good
  <2> QED
    BY <2>4, <2>5, <2>6, <2>8, <2>9
<1> QED
  BY <1>6, <1>7, <1>8

ServersInv == WhereInv /\ PageInv /\ \A r \in Requests : FormInv(r) /\ RowsInv(r)

LEMMA IdleInv ==
  ASSUME NEW r \in Requests, job'[r] = Idle
  PROVE  FormInv(r)' /\ RowsInv(r)'
<1>1. job'[r].form = <<>> /\ job'[r].pc = "idle"
  BY DEF Idle
<1>2. DOMAIN job'[r].form = {}
  BY <1>1
<1> QED
  BY <1>1, <1>2 DEF FormInv, RowsInv, Making

\* The form of a request that goes on
LEMMA FormKept ==
  ASSUME NEW r \in Requests, FormInv(r), UNCHANGED had, job'[r].form = job[r].form,
         ~job'[r].doubt => ~job[r].doubt
  PROVE  FormInv(r)'
  BY DEF FormInv, Good

\* A request that answers with its rows, which are good by then
LEMMA AnswerServers ==
  ASSUME Typed, ServersInv, NEW r \in Requests, UNCHANGED had,
         NEW rows \in Seq(FullRow), NEW doubt \in BOOLEAN, Answer(r, rows, doubt),
         ~doubt => \A i \in DOMAIN rows : Good(rows[i])
  PROVE  PageInv' /\ \A v \in Requests : FormInv(v)' /\ RowsInv(v)'
<1>1. /\ page'.rows = Shown(rows) /\ page'.doubt = doubt
      /\ job'[r] = Idle /\ \A v \in Requests \ {r} : job'[v] = job[v]
  BY AnswerStep DEF Typed
<1>2. PageInv'
  BY <1>1, PageShown
<1>3. ASSUME NEW v \in Requests \ {r} PROVE FormInv(v)' /\ RowsInv(v)'
  BY <1>1, JobKept, SameHad DEF ServersInv
<1> QED
  BY <1>1, <1>2, <1>3, IdleInv

LEMMA PanicServers ==
  ASSUME Typed, ServersInv, NEW r \in Requests, UNCHANGED had, Panic(r)
  PROVE  PageInv' /\ \A v \in Requests : FormInv(v)' /\ RowsInv(v)'
<1>1. /\ page'.rows = <<>>
      /\ job'[r] = Idle /\ \A v \in Requests \ {r} : job'[v] = job[v]
  BY PanicStep DEF Typed
<1>2. PageInv'
  <2>1. DOMAIN page'.rows = {}
    BY <1>1
  <2> QED
    BY <2>1 DEF PageInv
<1>3. ASSUME NEW v \in Requests \ {r} PROVE FormInv(v)' /\ RowsInv(v)'
  BY <1>1, JobKept, SameHad DEF ServersInv
<1> QED
  BY <1>1, <1>2, <1>3, IdleInv

\* A request makes its files: no request's form or rows change.
LEMMA TouchServers ==
  ASSUME Typed, ServersInv, NEW r \in Requests, UNCHANGED had, UNCHANGED page,
         NEW step \in {"fetch", "write", "qr code"}, NEW alone \in BOOLEAN,
         job[r].pc \in Making \cup {"vcard"}, Touch(r, step, alone)
  PROVE  PageInv' /\ \A v \in Requests : FormInv(v)' /\ RowsInv(v)'
<1>1. job[r].pc \notin {"idle", "first"} /\ step \in Making
  BY DEF Making
<1>2. /\ job'[r] = [job[r] EXCEPT !.pc = step, !.alone = alone]
      /\ \A v \in Requests \ {r} : \E b \in BOOLEAN :
           /\ job'[v] = [job[v] EXCEPT !.alone = b]
           /\ b => job[v].alone /\ (v \in Makers(r) => job[v].rows = job[r].rows)
  BY <1>1, TouchStep DEF Typed
<1>3. ASSUME NEW v \in Requests
      PROVE  /\ job'[v].form = job[v].form /\ job'[v].doubt = job[v].doubt
             /\ job'[v].rows = job[v].rows /\ job'[v].pw = job[v].pw
             /\ \/ job'[v].pc = job[v].pc
                \/ job[v].pc \in Making \cup {"vcard"} /\ job'[v].pc \in Making
  <2>1. job[v] \in JobType
    BY JobFacts DEF Typed
  <2>2. CASE v = r
    BY <1>1, <1>2, <2>1, <2>2 DEF JobType
  <2>3. CASE v # r
    <3>1. PICK b \in BOOLEAN : job'[v] = [job[v] EXCEPT !.alone = b]
      BY <1>2, <2>3
    <3> QED
      BY <2>1, <3>1 DEF JobType
  <2> QED
    BY <2>2, <2>3
<1>4. ASSUME NEW v \in Requests PROVE FormInv(v)' /\ RowsInv(v)'
  <2>1. FormInv(v) /\ RowsInv(v)
    BY DEF ServersInv
  <2> QED
    BY <1>3, <2>1, JobKept, SameHad
<1> QED
  BY <1>4, PageKept, SameHad DEF ServersInv

LEMMA RequestServers ==
  ASSUME Typed, ServersInv, NEW r \in Requests, Request(r)
  PROVE  ServersInv'
<1>1. UNCHANGED where /\ UNCHANGED had
  BY DEF Request, Open, Submit, Post, First, Others, Details, Vcard, Fetch, FetchErr,
         Truncate, Write, WriteErr, QrCode, tables
<1>2. WhereInv'
  BY <1>1 DEF ServersInv, WhereInv
<1>3. /\ FormInv(r) /\ RowsInv(r) /\ PageInv /\ WhereInv
      /\ job[r].rows \in Seq(FullRow) /\ job[r].doubt \in BOOLEAN /\ job[r].alone \in BOOLEAN
  BY JobFacts DEF ServersInv, Typed
<1>4. SUFFICES PageInv' /\ \A v \in Requests : FormInv(v)' /\ RowsInv(v)'
  BY <1>2 DEF ServersInv
<1>5. ASSUME UNCHANGED page, \A v \in Requests \ {r} : job'[v] = job[v],
             FormInv(r)', RowsInv(r)'
      PROVE  PageInv' /\ \A v \in Requests : FormInv(v)' /\ RowsInv(v)'
  <2>1. ASSUME NEW v \in Requests \ {r} PROVE FormInv(v)' /\ RowsInv(v)'
    BY <1>1, <1>5, JobKept, SameHad DEF ServersInv
  <2> QED
    BY <1>1, <1>3, <1>5, <2>1, PageKept, SameHad
<1>6. CASE \/ \E a \in Accounts : Open(r, a)
           \/ \E pw \in Preference, gen \in BOOLEAN : Submit(r, pw, gen)
  <2>1. PICK form \in Seq(FormRow), pw \in Preference, gen \in BOOLEAN, doubt \in BOOLEAN :
           /\ Post(r, form, pw, gen, doubt) /\ form # <<>>
           /\ \A i \in DOMAIN form :
                \/ \E a \in Accounts : form[i] = OnlyName(a)
                \/ i \in DOMAIN page.rows /\ form[i] = page.rows[i] /\ doubt = page.doubt
    BY <1>6, FormPosted
  <2>2. /\ \A v \in Requests \ {r} : job'[v] = job[v]
        /\ job'[r].pc = "first" /\ job'[r].form = form /\ job'[r].doubt = doubt
    BY <2>1, PostStep DEF Typed
  <2>3. ASSUME ~doubt, NEW i \in DOMAIN form
        PROVE  Good(form[i])' \/ \E a \in Accounts : form[i] = OnlyName(a)
    <3>1. Good(form[i]) \/ \E a \in Accounts : form[i] = OnlyName(a)
      BY <1>3, <2>1, <2>3 DEF PageInv
    <3> QED
      BY <1>1, <3>1 DEF Good
  <2>4. FormInv(r)'
    BY <2>2, <2>3 DEF FormInv, Good
  <2>5. RowsInv(r)'
    BY <2>2 DEF RowsInv, Making
  <2>6. UNCHANGED page
    BY <2>1 DEF Post
  <2> QED
    BY <1>5, <2>2, <2>4, <2>5, <2>6
<1>7. CASE First(r)
  <2>1. CASE Panic(r)
    BY <1>1, <2>1, PanicServers
  <2>2. CASE ~Panic(r)
    <3>1. /\ UNCHANGED page /\ \A v \in Requests \ {r} : job'[v] = job[v]
          /\ job'[r].pc = "others" /\ job'[r].form = job[r].form
          /\ job'[r].doubt = job[r].doubt
          /\ \A i \in DOMAIN job'[r].rows : ~job'[r].rows[i].nodesc
      BY <1>7, <2>2, FirstStep
    <3>2. FormInv(r)'
      BY <1>1, <1>3, <3>1, FormKept
    <3>3. RowsInv(r)'
      BY <3>1 DEF RowsInv, Making
    <3> QED
      BY <1>5, <3>1, <3>2, <3>3
  <2> QED
    BY <2>1, <2>2
<1>8. CASE Others(r)
  <2>1. CASE Panic(r)
    BY <1>1, <2>1, PanicServers
  <2>2. CASE ~Panic(r)
    <3>1. \A i \in DOMAIN job[r].rows : ~job[r].rows[i].nodesc
      BY <1>3, <1>8 DEF Others, At, RowsInv
    <3>2. /\ UNCHANGED page /\ \A v \in Requests \ {r} : job'[v] = job[v]
          /\ job'[r].pc = "details" /\ job'[r].form = job[r].form
          /\ job'[r].doubt = job[r].doubt
          /\ \A i \in DOMAIN job'[r].rows : ~job'[r].rows[i].nodesc
      BY <1>8, <2>2, <3>1, OthersStep
    <3>3. FormInv(r)'
      BY <1>1, <1>3, <3>2, FormKept
    <3>4. RowsInv(r)'
      BY <3>2 DEF RowsInv, Making
    <3> QED
      BY <1>5, <3>2, <3>3, <3>4
  <2> QED
    BY <2>1, <2>2
<1>9. CASE Details(r)
  <2>1. PICK rows \in Seq(FullRow), doubt \in BOOLEAN :
           /\ doubt <=> job[r].doubt \/ Doubtful(r)
           /\ DOMAIN rows = DOMAIN job[r].rows
           /\ \A i \in DOMAIN rows : rows[i] = Detailed(r, i)
           /\ \/ Answer(r, rows, doubt)
              \/ /\ UNCHANGED page /\ JobsOK' /\ \A v \in Requests \ {r} : job'[v] = job[v]
                 /\ job'[r] = [job[r] EXCEPT !.pc = "vcard", !.rows = rows, !.doubt = doubt]
    BY <1>9, DetailsStep
  <2>2. \A i \in DOMAIN job[r].rows : ~job[r].rows[i].nodesc
    BY <1>3, <1>9 DEF Details, At, RowsInv
  <2>3. ASSUME ~doubt, NEW i \in DOMAIN rows
        PROVE  /\ Good(rows[i])
               /\ i \in DOMAIN job[r].form =>
                    \/ rows[i].account \in NoDesc \cup {Lin}
                    \/ job[r].form[i] = OnlyName(job[r].form[i].account)
                    \/ rows[i].pw = job[r].pw
    <3>1. ~job[r].doubt /\ ~Doubtful(r) /\ i \in DOMAIN job[r].rows
      BY <2>1, <2>3
    <3>2. rows[i] = Detailed(r, i) /\ ~job[r].rows[i].nodesc
      BY <2>1, <2>2, <2>3
    <3> QED
      BY <1>3, <3>1, <3>2, DetailedGood
  <2>4. CASE Answer(r, rows, doubt)
    <3>1. ~doubt => \A i \in DOMAIN rows : Good(rows[i])
      BY <2>3
    <3> QED
      BY <1>1, <2>4, <3>1, AnswerServers
  <2>5. CASE /\ UNCHANGED page /\ \A v \in Requests \ {r} : job'[v] = job[v]
             /\ job'[r] = [job[r] EXCEPT !.pc = "vcard", !.rows = rows, !.doubt = doubt]
    <3>1. job[r] \in JobType
      BY JobFacts DEF Typed
    <3>2. /\ job'[r].pc = "vcard" /\ job'[r].rows = rows /\ job'[r].doubt = doubt
          /\ job'[r].form = job[r].form /\ job'[r].pw = job[r].pw
      BY <2>5, <3>1 DEF JobType
    <3>3. FormInv(r)'
      BY <1>1, <1>3, <2>1, <3>2, FormKept
    <3>4. ASSUME ~job'[r].doubt, NEW i \in DOMAIN job'[r].rows
          PROVE  Good(job[r].rows[i])' /\ Preferred(r, i)'
      <4>1. ~doubt /\ i \in DOMAIN rows
        BY <3>2, <3>4
      <4>2. /\ Good(rows[i])
            /\ i \in DOMAIN job[r].form =>
                 \/ rows[i].account \in NoDesc \cup {Lin}
                 \/ job[r].form[i] = OnlyName(job[r].form[i].account)
                 \/ rows[i].pw = job[r].pw
        BY <2>3, <4>1
      <4>3. Good(job[r].rows[i])'
        BY <1>1, <3>2, <4>2 DEF Good
      <4>4. Preferred(r, i)'
        BY <3>2, <4>2 DEF Preferred, OnlyName
      <4> QED
        BY <4>3, <4>4
    <3>5. RowsInv(r)'
      BY <3>2, <3>4 DEF RowsInv
    <3> QED
      BY <1>5, <2>5, <3>3, <3>5
  <2> QED
    BY <2>1, <2>4, <2>5
<1>10. CASE Vcard(r)
  <2>1. Touch(r, "fetch", TRUE) /\ job[r].pc = "vcard" /\ UNCHANGED page
    BY <1>10 DEF Vcard, At
  <2> QED
    BY <1>1, <2>1, TouchServers
<1>11. CASE Truncate(r)
  <2>1. Touch(r, "write", job[r].alone) /\ job[r].pc \in Making /\ UNCHANGED page
    BY <1>11 DEF Truncate, At, Making
  <2> QED
    BY <1>1, <1>3, <2>1, TouchServers
<1>12. CASE Write(r)
  <2>1. Touch(r, "qr code", job[r].alone) /\ job[r].pc \in Making /\ UNCHANGED page
    BY <1>12 DEF Write, At, Making
  <2> QED
    BY <1>1, <1>3, <2>1, TouchServers
<1>13. ASSUME Answer(r, job[r].rows, job[r].doubt), job[r].pc \in Making
       PROVE  PageInv' /\ \A v \in Requests : FormInv(v)' /\ RowsInv(v)'
  <2>1. ~job[r].doubt => \A i \in DOMAIN job[r].rows : Good(job[r].rows[i])
    BY <1>3, <1>13 DEF RowsInv
  <2> QED
    BY <1>1, <1>3, <1>13, <2>1, AnswerServers
<1>14. CASE FetchErr(r) \/ QrCode(r)
  <2>1. Answer(r, job[r].rows, job[r].doubt) /\ job[r].pc \in Making
    BY <1>14 DEF FetchErr, QrCode, At, Making
  <2> QED
    BY <1>13, <2>1
<1>15. CASE Fetch(r)
  <2>1. job[r].pc = "fetch" /\ "fetch" \in Making /\ "truncate" \in Making
    BY <1>15 DEF Fetch, At, Making
  <2>2. CASE Answer(r, job[r].rows, job[r].doubt)
    BY <1>13, <2>1, <2>2
  <2>3. CASE Goto(r, "truncate") /\ UNCHANGED page
    <3>1. job[r] \in JobType /\ job \in [Requests -> JobType]
      BY JobFacts DEF Typed, JobsOK
    <3>2. /\ job'[r] = [job[r] EXCEPT !.pc = "truncate"]
          /\ \A v \in Requests \ {r} : job'[v] = job[v]
      BY <2>3, <3>1 DEF Goto
    <3>3. /\ job'[r].form = job[r].form /\ job'[r].doubt = job[r].doubt
          /\ job'[r].rows = job[r].rows /\ job'[r].pw = job[r].pw
          /\ job'[r].pc = "truncate"
      BY <3>1, <3>2 DEF JobType
    <3>4. FormInv(r)' /\ RowsInv(r)'
      BY <1>1, <1>3, <2>1, <3>3, JobKept, SameHad
    <3> QED
      BY <1>5, <2>3, <3>2, <3>4
  <2> QED
    BY <1>15, <2>2, <2>3 DEF Fetch
<1>16. CASE WriteErr(r)
  <2>1. /\ page' = [rows |-> Shown(job[r].rows), push |-> job[r].push, doubt |-> job[r].doubt]
        /\ job' = [v \in Requests |->
                     IF v = r THEN Idle
                     ELSE [job[v] EXCEPT !.alone = @ /\ v \notin Makers(r)]]
        /\ job[r].pc \in Making
    BY <1>16 DEF WriteErr, At, Making
  <2>2. PageInv'
    <3>1. ~job[r].doubt => \A i \in DOMAIN job[r].rows : Good(job[r].rows[i])
      BY <1>3, <2>1 DEF RowsInv
    <3>2. page'.rows = Shown(job[r].rows) /\ page'.doubt = job[r].doubt
      BY <2>1
    <3> QED
      BY <1>1, <1>3, <3>1, <3>2, PageShown
  <2>3. FormInv(r)' /\ RowsInv(r)'
    BY <2>1, IdleInv
  <2>4. ASSUME NEW v \in Requests \ {r} PROVE FormInv(v)' /\ RowsInv(v)'
    <3>1. /\ job'[v].form = job[v].form /\ job'[v].doubt = job[v].doubt
          /\ job'[v].rows = job[v].rows /\ job'[v].pw = job[v].pw
          /\ job'[v].pc = job[v].pc
      <4>1. job[v] \in JobType
        BY JobFacts DEF Typed
      <4>2. PICK b : job'[v] = [job[v] EXCEPT !.alone = b]
        BY <2>1
      <4> QED
        BY <4>1, <4>2 DEF JobType
    <3>2. FormInv(v) /\ RowsInv(v)
      BY DEF ServersInv
    <3> QED
      BY <1>1, <3>1, <3>2, JobKept, SameHad
  <2> QED
    BY <2>2, <2>3, <2>4
<1> QED
  BY <1>6, <1>7, <1>8, <1>9, <1>10, <1>11, <1>12, <1>14, <1>15, <1>16 DEF Request

LEMMA RefreshServers ==
  ASSUME Typed, ServersInv, Refresh
  PROVE  ServersInv'
<1>1. UNCHANGED job /\ UNCHANGED page /\ HadGrows
  BY RefreshTyped DEF HadGrows
<1>2. WhereInv'
  <2>1. CASE RefreshEmpties
    BY <2>1 DEF RefreshEmpties, WhereInv
  <2>2. CASE RefreshFills
    <3>1. CASE where' = home /\ had' = [a \in Accounts |-> had[a] \cup {home[a]}]
      BY <3>1 DEF WhereInv
    <3> QED
      BY <2>2, <3>1 DEF RefreshFills, WhereInv, ServersInv
  <2>3. CASE RefreshAccounts \/ RefreshSecrets \/ RefreshDomains \/ RefreshFails
    <3>1. UNCHANGED <<where, had>>
      BY <2>3 DEF RefreshAccounts, RefreshSecrets, RefreshDomains, RefreshFails
    <3> QED
      BY <3>1 DEF WhereInv, ServersInv
  <2> QED
    BY <2>1, <2>2, <2>3 DEF Refresh
<1>3. ASSUME NEW v \in Requests PROVE FormInv(v)' /\ RowsInv(v)'
  BY <1>1, JobKept DEF ServersInv
<1> QED
  BY <1>1, <1>2, <1>3, PageKept DEF ServersInv

LEMMA OutsideServers ==
  ASSUME Typed, ServersInv, Outside
  PROVE  ServersInv'
<1>1. /\ UNCHANGED page /\ UNCHANGED where /\ UNCHANGED had
      /\ UNCHANGED job \/ \A r \in Requests : job'[r] = Idle
  BY OutsideTyped
<1>2. WhereInv' /\ PageInv'
  BY <1>1, PageKept, SameHad DEF ServersInv, WhereInv
<1>3. ASSUME NEW v \in Requests PROVE FormInv(v)' /\ RowsInv(v)'
  <2>1. CASE UNCHANGED job
    BY <1>1, <2>1, JobKept, SameHad DEF ServersInv
  <2>2. CASE job'[v] = Idle
    BY <2>2, IdleInv
  <2> QED
    BY <1>1, <2>1, <2>2
<1> QED
  BY <1>2, <1>3 DEF ServersInv

-----------------------------------------------------------------------------
(* The files                                                               *)

FilesInv == \A r \in Requests : FileInv(r)

\* Another request r takes a step that leaves the files of v as they are.
LEMMA FileKept ==
  ASSUME Typed, NEW r \in Requests, NEW v \in Requests \ {r}, FileInv(v),
         job'[v].pc = job[v].pc, job'[v].rows = job[v].rows, job'[v].alone => job[v].alone,
         \A w \in Requests \ {r} : job'[w].pc = job[w].pc /\ job'[w].rows = job[w].rows,
         job[v].pc \in Making => r \notin Makers(v) \/ ~At(r, "write"),
         job[v].pc \in Making /\ job'[v].alone =>
             /\ vcard'[Target(v)] = vcard[Target(v)] /\ xml'[Target(v)] = xml[Target(v)]
  PROVE  FileInv(v)'
<1>1. SUFFICES ASSUME job'[v].alone, job[v].pc \in Making PROVE FileInv(v)'
  BY DEF FileInv, Making
<1>2. Target(v)' = Target(v)
  BY DEF Target
<1>3. ASSUME \A w \in Makers(v)' : ~At(w, "write")'
      PROVE  \A w \in Makers(v) : ~At(w, "write")
  <2>1. ASSUME NEW w \in Makers(v), w # r PROVE ~At(w, "write")
    <3>1. w \in Requests \ {r} /\ w # v
      BY <2>1 DEF Makers
    <3>2. job'[w].pc = job[w].pc /\ job'[w].rows = job[w].rows
      BY <3>1
    <3>3. w \in Makers(v)'
      BY <1>2, <2>1, <3>1, <3>2 DEF Makers, Target
    <3> QED
      BY <1>3, <3>2, <3>3 DEF At
  <2>2. r \in Makers(v) => ~At(r, "write")
    BY <1>1
  <2> QED
    BY <2>1, <2>2
<1>4. /\ vcard'[Target(v)] = vcard[Target(v)] /\ xml'[Target(v)] = xml[Target(v)]
      /\ job[v].alone
  BY <1>1
<1>5. /\ vcard[Target(v)] = job[v].rows[1].server
      /\ job[v].pc \in {"write", "qr code"} => xml[Target(v)].rows \in {<<>>, job[v].rows}
      /\ job[v].pc = "qr code" /\ (\A w \in Makers(v) : ~At(w, "write")) =>
             xml[Target(v)] = [rows |-> job[v].rows, whole |-> TRUE]
  BY <1>1, <1>4 DEF FileInv
<1> QED
  BY <1>2, <1>3, <1>4, <1>5 DEF FileInv

\* A step of one request that writes no file
LEMMA QuietFiles ==
  ASSUME Typed, FilesInv, NEW r \in Requests, UNCHANGED <<xml, vcard>>, job[r].pc # "write",
         \A v \in Requests \ {r} : job'[v] = job[v], FileInv(r)'
  PROVE  FilesInv'
<1>1. UNCHANGED xml /\ UNCHANGED vcard
  OBVIOUS
<1>2. ASSUME NEW v \in Requests \ {r} PROVE FileInv(v)'
  <2>1. FileInv(v) /\ job'[v] = job[v] /\ ~At(r, "write")
    BY DEF FilesInv, At
  <2> QED
    BY <1>1, <2>1, FileKept
<1> QED
  BY <1>2 DEF FilesInv

LEMMA NotMaking ==
  ASSUME NEW r \in Requests, job'[r].pc \notin Making
  PROVE  FileInv(r)'
  BY DEF FileInv, Making

LEMMA IdleFiles ==
  ASSUME NEW r \in Requests, job'[r] = Idle
  PROVE  FileInv(r)'
  BY IdleType DEF FileInv

LEMMA AnswerFiles ==
  ASSUME Typed, FilesInv, NEW r \in Requests, UNCHANGED <<xml, vcard>>, job[r].pc # "write",
         job' = [job EXCEPT ![r] = Idle]
  PROVE  FilesInv'
<1>1. job'[r] = Idle /\ \A v \in Requests \ {r} : job'[v] = job[v]
  BY IdleStep DEF Typed
<1> QED
  BY <1>1, IdleFiles, QuietFiles

\* What Touch leaves of the requests, field by field
LEMMA TouchFacts ==
  ASSUME Typed, NEW r \in Requests, NEW step \in {"fetch", "write", "qr code"},
         NEW alone \in BOOLEAN, job[r].pc \notin {"idle", "first"}, Touch(r, step, alone)
  PROVE  /\ job'[r].pc = step /\ job'[r].alone = alone /\ job'[r].rows = job[r].rows
         /\ \A v \in Requests \ {r} :
              /\ job'[v].pc = job[v].pc /\ job'[v].rows = job[v].rows
              /\ job'[v].alone => job[v].alone
              /\ job'[v].alone /\ v \in Makers(r) => job[v].rows = job[r].rows
<1>1. /\ job'[r] = [job[r] EXCEPT !.pc = step, !.alone = alone]
      /\ \A v \in Requests \ {r} : \E b \in BOOLEAN :
           /\ job'[v] = [job[v] EXCEPT !.alone = b]
           /\ b => job[v].alone /\ (v \in Makers(r) => job[v].rows = job[r].rows)
  BY TouchStep DEF Typed
<1>2. job'[r].pc = step /\ job'[r].alone = alone /\ job'[r].rows = job[r].rows
  BY <1>1, JobFacts DEF Typed, JobType
<1>3. ASSUME NEW v \in Requests \ {r}
      PROVE  /\ job'[v].pc = job[v].pc /\ job'[v].rows = job[v].rows
             /\ job'[v].alone => job[v].alone
             /\ job'[v].alone /\ v \in Makers(r) => job[v].rows = job[r].rows
  <2>1. PICK b \in BOOLEAN :
           /\ job'[v] = [job[v] EXCEPT !.alone = b]
           /\ b => job[v].alone /\ (v \in Makers(r) => job[v].rows = job[r].rows)
    BY <1>1
  <2>2. /\ job'[v].pc = job[v].pc /\ job'[v].rows = job[v].rows /\ job'[v].alone = b
    BY <2>1, JobFacts DEF Typed, JobType
  <2> QED
    BY <2>1, <2>2
<1> QED
  BY <1>2, <1>3

LEMMA VcardFiles ==
  ASSUME Typed, FilesInv, NEW r \in Requests, Vcard(r)
  PROVE  FilesInv'
<1>1. /\ job[r].pc = "vcard" /\ Touch(r, "fetch", TRUE) /\ UNCHANGED xml
      /\ vcard' = [vcard EXCEPT ![Target(r)] = job[r].rows[1].server]
  BY DEF Vcard, At
<1>2. /\ job'[r].pc = "fetch" /\ job'[r].rows = job[r].rows
      /\ \A v \in Requests \ {r} :
           /\ job'[v].pc = job[v].pc /\ job'[v].rows = job[v].rows
           /\ job'[v].alone => job[v].alone
           /\ job'[v].alone /\ v \in Makers(r) => job[v].rows = job[r].rows
  BY <1>1, TouchFacts
<1>3. Target(r) \in Accounts
  BY <1>1, JobFacts DEF Typed, JobFilled
<1>4. vcard'[Target(r)] = job[r].rows[1].server
      /\ \A a \in Accounts : a # Target(r) => vcard'[a] = vcard[a]
  BY <1>1, <1>3 DEF Typed, VcardOK
<1>5. FileInv(r)'
  BY <1>2, <1>4 DEF FileInv, Target
<1>6. ASSUME NEW v \in Requests \ {r} PROVE FileInv(v)'
  <2>1. ~At(r, "write") /\ FileInv(v)
    BY <1>1 DEF At, FilesInv
  <2>2. ASSUME job[v].pc \in Making, job'[v].alone
        PROVE  vcard'[Target(v)] = vcard[Target(v)]
    <3>1. Target(v) \in Accounts
      BY <2>2, JobFacts DEF Typed, JobFilled, Making
    <3>2. CASE Target(v) = Target(r)
      <4>1. v \in Makers(r)
        BY <2>2, <3>2 DEF Makers, Making
      <4>2. job[v].rows = job[r].rows /\ job[v].alone
        BY <1>2, <2>2, <4>1
      <4>3. vcard[Target(v)] = job[v].rows[1].server
        BY <2>1, <2>2, <4>2 DEF FileInv
      <4> QED
        BY <1>4, <3>2, <4>2, <4>3
    <3>3. CASE Target(v) # Target(r)
      BY <1>4, <3>1, <3>3
    <3> QED
      BY <3>2, <3>3
  <2> QED
    BY <1>1, <1>2, <2>1, <2>2, FileKept
<1> QED
  BY <1>5, <1>6 DEF FilesInv

LEMMA TruncateFiles ==
  ASSUME Typed, FilesInv, NEW r \in Requests, Truncate(r)
  PROVE  FilesInv'
<1>1. /\ job[r].pc = "truncate" /\ Touch(r, "write", job[r].alone) /\ UNCHANGED vcard
      /\ xml' = [xml EXCEPT ![Target(r)] = [rows |-> <<>>, whole |-> FALSE]]
  BY DEF Truncate, At
<1>2. job[r].alone \in BOOLEAN /\ JobFilled(r) /\ FileInv(r)
  BY JobFacts DEF Typed, FilesInv
<1>3. /\ job'[r].pc = "write" /\ job'[r].rows = job[r].rows /\ job'[r].alone = job[r].alone
      /\ \A v \in Requests \ {r} :
           /\ job'[v].pc = job[v].pc /\ job'[v].rows = job[v].rows
           /\ job'[v].alone => job[v].alone
           /\ job'[v].alone /\ v \in Makers(r) => job[v].rows = job[r].rows
  BY <1>1, <1>2, TouchFacts
<1>4. Target(r) \in Accounts
  BY <1>1, <1>2 DEF JobFilled
<1>5. xml'[Target(r)].rows = <<>> /\ \A a \in Accounts : a # Target(r) => xml'[a] = xml[a]
  BY <1>1, <1>4 DEF Typed, XmlOK
<1>6. FileInv(r)'
  <2>1. job[r].alone => vcard[Target(r)] = job[r].rows[1].server
    BY <1>1, <1>2 DEF FileInv, Making
  <2>2. Target(r)' = Target(r)
    BY <1>3 DEF Target
  <2> QED
    BY <1>1, <1>3, <1>5, <2>1, <2>2 DEF FileInv
<1>7. ASSUME NEW v \in Requests \ {r} PROVE FileInv(v)'
  <2>1. ~At(r, "write") /\ FileInv(v)
    BY <1>1 DEF At, FilesInv
  <2>2. CASE job[v].pc \in Making /\ Target(v) = Target(r) /\ job'[v].alone
    <3>1. Target(v)' = Target(r) /\ Target(r)' = Target(r)
      BY <1>3, <2>2 DEF Target
    <3>2. r \in Makers(v)' /\ At(r, "write")'
      BY <1>3, <3>1 DEF Makers, At, Target
    <3>3. job[v].alone /\ vcard[Target(v)] = job[v].rows[1].server
      BY <1>3, <2>1, <2>2 DEF FileInv
    <3> QED
      BY <1>1, <1>3, <1>5, <2>2, <3>1, <3>2, <3>3 DEF FileInv
  <2>3. CASE ~(job[v].pc \in Making /\ Target(v) = Target(r) /\ job'[v].alone)
    <3>1. ASSUME job[v].pc \in Making, job'[v].alone
          PROVE  xml'[Target(v)] = xml[Target(v)]
      <4>1. Target(v) \in Accounts
        BY <3>1, JobFacts DEF Typed, JobFilled, Making
      <4> QED
        BY <1>5, <2>3, <3>1, <4>1
    <3> QED
      BY <1>1, <1>3, <2>1, <3>1, FileKept
  <2> QED
    BY <2>2, <2>3
<1> QED
  BY <1>6, <1>7 DEF FilesInv

LEMMA FileRows ==
  ASSUME NEW file, NEW rows, NEW whole, file = [rows |-> rows, whole |-> whole]
  PROVE  file.rows = rows
  OBVIOUS

LEMMA WriteFiles ==
  ASSUME Typed, FilesInv, NEW r \in Requests, Write(r)
  PROVE  FilesInv'
<1>1. PICK whole \in BOOLEAN :
        /\ xml[Target(r)].rows = job[r].rows \/ xml[Target(r)].rows = <<>> => whole
        /\ xml' = [xml EXCEPT ![Target(r)] = [rows |-> job[r].rows, whole |-> whole]]
  BY DEF Write
<1>2. job[r].pc = "write" /\ Touch(r, "qr code", job[r].alone) /\ UNCHANGED vcard
  BY DEF Write, At
<1>3. job[r].alone \in BOOLEAN /\ JobFilled(r) /\ FileInv(r)
  BY JobFacts DEF Typed, FilesInv
<1>4. /\ job'[r].pc = "qr code" /\ job'[r].rows = job[r].rows /\ job'[r].alone = job[r].alone
      /\ \A v \in Requests \ {r} :
           /\ job'[v].pc = job[v].pc /\ job'[v].rows = job[v].rows
           /\ job'[v].alone => job[v].alone
           /\ job'[v].alone /\ v \in Makers(r) => job[v].rows = job[r].rows
  BY <1>2, <1>3, TouchFacts
<1>5. Target(r) \in Accounts
  BY <1>2, <1>3 DEF JobFilled
<1>6. /\ xml'[Target(r)] = [rows |-> job[r].rows, whole |-> whole]
      /\ \A a \in Accounts : a # Target(r) => xml'[a] = xml[a]
  BY <1>1, <1>5 DEF Typed, XmlOK
<1>7. FileInv(r)'
  <2>1. job[r].alone => /\ vcard[Target(r)] = job[r].rows[1].server
                        /\ xml[Target(r)].rows \in {<<>>, job[r].rows}
    BY <1>2, <1>3 DEF FileInv, Making
  <2>2. Target(r)' = Target(r)
    BY <1>4 DEF Target
  <2>3. job[r].alone => xml'[Target(r)] = [rows |-> job[r].rows, whole |-> TRUE]
    BY <1>1, <1>6, <2>1
  <2>4. xml'[Target(r)].rows = job[r].rows
    BY <1>6, FileRows
  <2> QED
    BY <1>2, <1>4, <2>1, <2>2, <2>3, <2>4 DEF FileInv
<1>8. ASSUME NEW v \in Requests \ {r} PROVE FileInv(v)'
  <2>1. FileInv(v)
    BY DEF FilesInv
  <2>2. CASE job[v].pc \in Making /\ Target(v) = Target(r) /\ job'[v].alone
    <3>1. v \in Makers(r)
      BY <2>2 DEF Makers, Making
    <3>2. job[v].rows = job[r].rows /\ job[v].alone
      BY <1>4, <2>2, <3>1
    <3>3. /\ vcard[Target(v)] = job[v].rows[1].server
          /\ job[v].pc \in {"write", "qr code"} => xml[Target(v)].rows \in {<<>>, job[v].rows}
      BY <2>1, <2>2, <3>2 DEF FileInv
    <3>4. job[v].pc \in {"write", "qr code"} =>
             xml'[Target(v)] = [rows |-> job[v].rows, whole |-> TRUE]
      BY <1>1, <1>6, <2>2, <3>2, <3>3
    <3>5. Target(v)' = Target(v) /\ job'[v].pc = job[v].pc /\ job'[v].rows = job[v].rows
      BY <1>4 DEF Target
    <3>6. job[v].pc \in {"write", "qr code"} => xml'[Target(v)].rows = job[v].rows
      BY <3>4, FileRows
    <3> QED
      BY <1>2, <3>3, <3>4, <3>5, <3>6 DEF FileInv
  <2>3. CASE ~(job[v].pc \in Making /\ Target(v) = Target(r) /\ job'[v].alone)
    <3>1. SUFFICES ASSUME job[v].pc \in Making, job'[v].alone, Target(v) # Target(r)
                   PROVE  FileInv(v)'
      BY <1>4, <2>3 DEF FileInv, Making
    <3>2. r \notin Makers(v)
      BY <3>1 DEF Makers
    <3>3. Target(v) \in Accounts
      BY <3>1, JobFacts DEF Typed, JobFilled, Making
    <3>4. xml'[Target(v)] = xml[Target(v)]
      BY <1>6, <3>1, <3>3
    <3> QED
      BY <1>2, <1>4, <2>1, <3>2, <3>4, FileKept
  <2> QED
    BY <2>2, <2>3
<1> QED
  BY <1>7, <1>8 DEF FilesInv

LEMMA WriteErrFiles ==
  ASSUME Typed, FilesInv, NEW r \in Requests, WriteErr(r)
  PROVE  FilesInv'
<1>1. /\ job[r].pc = "write" /\ UNCHANGED vcard
      /\ xml' = [xml EXCEPT ![Target(r)] = [rows |-> job[r].rows, whole |-> FALSE]]
      /\ job' = [v \in Requests |->
                   IF v = r THEN Idle
                   ELSE [job[v] EXCEPT !.alone = @ /\ v \notin Makers(r)]]
  BY DEF WriteErr, At, tables, world
<1>2. Target(r) \in Accounts
  BY <1>1, JobFacts DEF Typed, JobFilled
<1>3. \A a \in Accounts : a # Target(r) => xml'[a] = xml[a]
  BY <1>1, <1>2 DEF Typed, XmlOK
<1>4. FileInv(r)'
  BY <1>1, IdleFiles
<1>5. ASSUME NEW v \in Requests \ {r}
      PROVE  /\ job'[v].pc = job[v].pc /\ job'[v].rows = job[v].rows
             /\ job'[v].alone => job[v].alone /\ v \notin Makers(r)
  <2>1. job[v] \in JobType /\ job[v].alone \in BOOLEAN
    BY JobFacts DEF Typed
  <2>2. PICK b : b = (job[v].alone /\ v \notin Makers(r))
    OBVIOUS
  <2>3. job'[v] = [job[v] EXCEPT !.alone = b]
    BY <1>1, <2>2
  <2>4. job'[v].pc = job[v].pc /\ job'[v].rows = job[v].rows /\ job'[v].alone = b
    BY <2>1, <2>3 DEF JobType
  <2> QED
    BY <2>2, <2>4
<1>6. ASSUME NEW v \in Requests \ {r} PROVE FileInv(v)'
  <2>1. FileInv(v)
    BY DEF FilesInv
  <2>2. SUFFICES ASSUME job[v].pc \in Making, job'[v].alone PROVE FileInv(v)'
    BY <1>5 DEF FileInv, Making
  <2>3. Target(v) # Target(r)
    BY <1>5, <2>2 DEF Makers, Making
  <2>4. r \notin Makers(v)
    BY <2>3 DEF Makers
  <2>5. Target(v) \in Accounts
    BY <2>2, JobFacts DEF Typed, JobFilled, Making
  <2>6. xml'[Target(v)] = xml[Target(v)]
    BY <1>3, <2>3, <2>5
  <2> QED
    BY <1>1, <1>5, <2>1, <2>4, <2>6, FileKept
<1> QED
  BY <1>4, <1>6 DEF FilesInv

LEMMA RequestFiles ==
  ASSUME Typed, ServersInv, FilesInv, NEW r \in Requests, Request(r)
  PROVE  FilesInv'
<1>1. CASE \/ \E a \in Accounts : Open(r, a)
           \/ \E pw \in Preference, gen \in BOOLEAN : Submit(r, pw, gen)
  <2>1. PICK form \in Seq(FormRow), pw \in Preference, gen \in BOOLEAN, doubt \in BOOLEAN :
           Post(r, form, pw, gen, doubt) /\ form # <<>>
    BY <1>1, FormPosted
  <2>2. /\ \A v \in Requests \ {r} : job'[v] = job[v]
        /\ job'[r].pc = "first" /\ job[r].pc = "idle"
    BY <2>1, PostStep DEF Typed
  <2>3. UNCHANGED <<xml, vcard>>
    BY <2>1 DEF Post, files
  <2>4. FileInv(r)'
    BY <2>2, NotMaking DEF Making
  <2> QED
    BY <2>2, <2>3, <2>4, QuietFiles
<1>2. CASE First(r)
  <2>1. job[r].pc = "first" /\ UNCHANGED <<xml, vcard>>
    BY <1>2 DEF First, At, files
  <2>2. CASE Panic(r)
    BY <2>1, <2>2, AnswerFiles DEF Panic
  <2>3. CASE ~Panic(r)
    <3>1. job'[r].pc = "others" /\ \A v \in Requests \ {r} : job'[v] = job[v]
      BY <1>2, <2>3, FirstStep
    <3>2. FileInv(r)'
      BY <3>1, NotMaking DEF Making
    <3> QED
      BY <2>1, <3>1, <3>2, QuietFiles
  <2> QED
    BY <2>2, <2>3
<1>3. CASE Others(r)
  <2>1. job[r].pc = "others" /\ UNCHANGED <<xml, vcard>>
    BY <1>3 DEF Others, At, files
  <2>2. CASE Panic(r)
    BY <2>1, <2>2, AnswerFiles DEF Panic
  <2>3. CASE ~Panic(r)
    <3>1. \A i \in DOMAIN job[r].rows : ~job[r].rows[i].nodesc
      BY <2>1 DEF ServersInv, RowsInv
    <3>2. job'[r].pc = "details" /\ \A v \in Requests \ {r} : job'[v] = job[v]
      BY <1>3, <2>3, <3>1, OthersStep
    <3>3. FileInv(r)'
      BY <3>2, NotMaking DEF Making
    <3> QED
      BY <2>1, <3>2, <3>3, QuietFiles
  <2> QED
    BY <2>2, <2>3
<1>4. CASE Details(r)
  <2>1. job[r].pc = "details" /\ UNCHANGED <<xml, vcard>>
    BY <1>4 DEF Details, At, files
  <2>2. PICK rows \in Seq(FullRow), doubt \in BOOLEAN :
           /\ doubt <=> job[r].doubt \/ Doubtful(r)
           /\ DOMAIN rows = DOMAIN job[r].rows
           /\ \A i \in DOMAIN rows : rows[i] = Detailed(r, i)
           /\ \/ Answer(r, rows, doubt)
              \/ /\ UNCHANGED page /\ JobsOK' /\ \A v \in Requests \ {r} : job'[v] = job[v]
                 /\ job'[r] = [job[r] EXCEPT !.pc = "vcard", !.rows = rows, !.doubt = doubt]
    BY <1>4, DetailsStep
  <2>3. CASE Answer(r, rows, doubt)
    BY <2>1, <2>3, AnswerFiles DEF Answer
  <2>4. CASE /\ \A v \in Requests \ {r} : job'[v] = job[v]
             /\ job'[r] = [job[r] EXCEPT !.pc = "vcard", !.rows = rows, !.doubt = doubt]
    <3>1. job'[r].pc = "vcard"
      BY <2>4, JobFacts DEF Typed, JobType
    <3>2. FileInv(r)'
      BY <3>1, NotMaking DEF Making
    <3> QED
      BY <2>1, <2>4, <3>2, QuietFiles
  <2> QED
    BY <2>2, <2>3, <2>4
<1>5. CASE FetchErr(r) \/ QrCode(r)
  <2>1. job[r].pc # "write" /\ UNCHANGED <<xml, vcard>> /\ job' = [job EXCEPT ![r] = Idle]
    BY <1>5 DEF FetchErr, QrCode, At, files, Answer
  <2> QED
    BY <2>1, AnswerFiles
<1>6. CASE Fetch(r)
  <2>1. job[r].pc = "fetch" /\ UNCHANGED <<xml, vcard>>
    BY <1>6 DEF Fetch, At, files
  <2>2. CASE Answer(r, job[r].rows, job[r].doubt)
    BY <2>1, <2>2, AnswerFiles DEF Answer
  <2>3. CASE Goto(r, "truncate")
    <3>1. job[r] \in JobType /\ job \in [Requests -> JobType]
      BY JobFacts DEF Typed, JobsOK
    <3>2. /\ job'[r] = [job[r] EXCEPT !.pc = "truncate"]
          /\ \A v \in Requests \ {r} : job'[v] = job[v]
      BY <2>3, <3>1 DEF Goto
    <3>3. /\ job'[r].pc = "truncate" /\ job'[r].rows = job[r].rows
          /\ job'[r].alone = job[r].alone
      BY <3>1, <3>2 DEF JobType
    <3>4. job[r].alone => vcard[Target(r)] = job[r].rows[1].server
      BY <2>1 DEF FilesInv, FileInv, Making
    <3>5. FileInv(r)'
      BY <2>1, <3>3, <3>4 DEF FileInv, Target
    <3> QED
      BY <2>1, <3>2, <3>5, QuietFiles
  <2> QED
    BY <1>6, <2>2, <2>3 DEF Fetch
<1> QED
  BY <1>1, <1>2, <1>3, <1>4, <1>5, <1>6, VcardFiles, TruncateFiles, WriteFiles, WriteErrFiles
  DEF Request

\* Nothing but a request writes the files; a restart ends all requests.
LEMMA OtherFiles ==
  ASSUME Typed, FilesInv, UNCHANGED <<xml, vcard>>,
         UNCHANGED job \/ \A r \in Requests : job'[r] = Idle
  PROVE  FilesInv'
<1>1. CASE UNCHANGED job
  BY <1>1 DEF FilesInv, FileInv, Target, Makers, At
<1>2. CASE \A r \in Requests : job'[r] = Idle
  BY <1>2, IdleFiles DEF FilesInv
<1> QED
  BY <1>1, <1>2

-----------------------------------------------------------------------------
(* The theorems                                                            *)

LEMMA IInvParts == IInv <=> Typed /\ ServersInv /\ FilesInv
  BY DEF IInv, ServersInv, FilesInv, JobInv

LEMMA InitServers == Init => ServersInv /\ FilesInv
<1> SUFFICES ASSUME Init PROVE ServersInv /\ FilesInv
  OBVIOUS
<1>1. \A r \in Requests : job[r] = Idle
  BY DEF Init
<1>2. Idle.form = <<>> /\ Idle.pc = "idle" /\ Idle.alone = FALSE /\ DOMAIN Idle.form = {}
  BY DEF Idle
<1>3. \A r \in Requests : FormInv(r) /\ RowsInv(r) /\ FileInv(r)
  BY <1>1, <1>2 DEF FormInv, RowsInv, FileInv, Making
<1>4. page.rows = <<>> /\ DOMAIN page.rows = {}
  BY DEF Init, NoPage
<1>5. PageInv
  BY <1>4 DEF PageInv
<1>6. where = home /\ had = [a \in Accounts |-> {home[a]}]
  BY DEF Init
<1>7. WhereInv
  BY <1>6 DEF WhereInv
<1> QED
  BY <1>3, <1>5, <1>7 DEF ServersInv, FilesInv

LEMMA StepCorrect == IInv /\ [Next]_vars => IInv'
<1> SUFFICES ASSUME Typed, ServersInv, FilesInv, [Next]_vars
             PROVE  Typed' /\ ServersInv' /\ FilesInv'
  <2>1. IInv' <=> Typed' /\ ServersInv' /\ FilesInv'
    BY DEF IInv, ServersInv, FilesInv, JobInv
  <2> QED
    BY <2>1, IInvParts
<1>1. ASSUME NEW r \in Requests, Request(r)
      PROVE  Typed' /\ ServersInv' /\ FilesInv'
  <2>1. job[r].pc \in {"others", "details"} =>
           \A i \in DOMAIN job[r].rows : ~job[r].rows[i].nodesc
    BY DEF ServersInv, RowsInv
  <2>2. Typed'
    BY <1>1, <2>1, RequestTyped
  <2> QED
    BY <1>1, <2>2, RequestServers, RequestFiles
<1>2. CASE Refresh
  <2>1. Typed' /\ UNCHANGED job /\ UNCHANGED <<xml, vcard>>
    BY <1>2, RefreshTyped DEF files
  <2>2. FilesInv'
    BY <2>1, OtherFiles
  <2> QED
    BY <1>2, <2>1, <2>2, RefreshServers
<1>3. CASE Outside
  <2>1. /\ Typed' /\ UNCHANGED <<xml, vcard>>
        /\ UNCHANGED job \/ \A r \in Requests : job'[r] = Idle
    BY <1>3, OutsideTyped DEF files
  <2>2. FilesInv'
    BY <2>1, OtherFiles
  <2> QED
    BY <1>3, <2>1, <2>2, OutsideServers
<1>4. CASE UNCHANGED vars
  <2>1. /\ UNCHANGED page /\ UNCHANGED where /\ UNCHANGED had /\ UNCHANGED job
        /\ UNCHANGED <<xml, vcard>>
    BY <1>4 DEF vars, tables, files
  <2>2. Typed'
    BY <1>4 DEF vars, world, tables, files, limits, Typed, TablesOK, JobsOK, JobFilled,
                Target, PageOK, XmlOK, VcardOK, CountsOK
  <2>3. WhereInv' /\ PageInv'
    BY <2>1, PageKept, SameHad DEF ServersInv, WhereInv
  <2>4. \A v \in Requests : FormInv(v)' /\ RowsInv(v)'
    BY <2>1, JobKept, SameHad DEF ServersInv
  <2>5. FilesInv'
    BY <2>1, OtherFiles
  <2> QED
    BY <2>2, <2>3, <2>4, <2>5 DEF ServersInv
<1> QED
  BY <1>1, <1>2, <1>3, <1>4 DEF Next

LEMMA InvCorrect == Spec => []IInv
<1>1. Init => IInv
  BY InitTyped, InitServers, IInvParts
<1> QED
  BY <1>1, StepCorrect, PTL DEF Spec

\* Every variable keeps its type, the accounts of forms and pages included.
THEOREM TypeCorrect == Spec => []TypeOK
<1>1. IInv => TypeOK
  BY TypedTypeOK DEF IInv
<1> QED
  BY <1>1, InvCorrect, PTL

\* What the page announces is what the client gets (gen_config), however earlier
\* requests failed or died over these files.
THEOREM AnnouncedCorrect == Spec => []AnnouncedIsServed
<1>1. IInv => AnnouncedIsServed
  <2> SUFFICES ASSUME IInv, NEW r \in Requests, At(r, "qr code"), job[r].alone,
                      \A v \in Makers(r) : ~At(v, "write")
               PROVE  /\ xml[Target(r)] = [rows |-> job[r].rows, whole |-> TRUE]
                      /\ vcard[Target(r)] = job[r].rows[1].server
    BY DEF AnnouncedIsServed
  <2>1. FileInv(r) /\ job[r].pc = "qr code" /\ "qr code" \in Making
    BY DEF IInv, JobInv, At, Making
  <2> QED
    BY <2>1 DEF FileInv
<1> QED
  BY <1>1, InvCorrect, PTL

\* No other request takes a step of r.
LEMMA OtherPc ==
  ASSUME Typed, NEW v \in Requests, Request(v), NEW r \in Requests \ {v}
  PROVE  job'[r].pc = job[r].pc
<1>1. job \in [Requests -> JobType] /\ job[r] \in JobType
  BY JobFacts DEF Typed, JobsOK
<1>2. ASSUME NEW e, job' = [job EXCEPT ![v] = e] PROVE job'[r].pc = job[r].pc
  BY <1>1, <1>2
<1>3. CASE \/ \E a \in Accounts : Open(v, a)
           \/ \E pw \in Preference, gen \in BOOLEAN : Submit(v, pw, gen)
  <2>1. \E form, pw, gen, doubt : Post(v, form, pw, gen, doubt)
    BY <1>3 DEF Open, Submit
  <2>2. \E e : job' = [job EXCEPT ![v] = e]
    BY <2>1 DEF Post
  <2> QED
    BY <1>2, <2>2
<1>4. CASE First(v)
  BY <1>1, <1>4 DEF First, Panic
<1>5. CASE Others(v)
  BY <1>1, <1>5 DEF Others, More, Panic
<1>6. CASE Details(v)
  <2>1. CASE \E rows, doubt : Answer(v, rows, doubt)
    BY <1>1, <2>1 DEF Answer
  <2>2. CASE \E rows, doubt : job' = [job EXCEPT ![v].pc = "vcard", ![v].rows = rows,
                                                 ![v].doubt = doubt]
    BY <1>1, <2>2
  <2> QED
    BY <1>6, <2>1, <2>2 DEF Details
<1>7. CASE Fetch(v)
  BY <1>1, <1>7 DEF Fetch, Goto, Answer
<1>8. CASE FetchErr(v) \/ QrCode(v)
  BY <1>1, <1>8 DEF FetchErr, QrCode, Answer
<1>9. ASSUME NEW step, NEW alone, Touch(v, step, alone) PROVE job'[r].pc = job[r].pc
  BY <1>1, <1>9 DEF Touch, JobType
<1>10. CASE Vcard(v) \/ Truncate(v) \/ Write(v)
  BY <1>9, <1>10 DEF Vcard, Truncate, Write
<1>11. CASE WriteErr(v)
  BY <1>1, <1>11 DEF WriteErr, JobType
<1> QED
  BY <1>3, <1>4, <1>5, <1>6, <1>7, <1>8, <1>10, <1>11 DEF Request

\* The step that writes the XML of a trusted request, and what it writes
LEMMA WrittenStep ==
  ASSUME IInv, Next, NEW r \in Requests, Trusted(r)
  PROVE  /\ xml'[Target(r)].rows = job[r].rows /\ UNCHANGED had
         /\ \A i \in DOMAIN job[r].rows :
              /\ Good(job[r].rows[i]) /\ Preferred(r, i)
              /\ job[r].rows[i].account \in Accounts \cup {Lin}
<1>1. job[r].pc = "write" /\ job'[r].pc = "qr code" /\ ~job[r].doubt
  BY DEF Trusted, Written, At
<1>2. Typed /\ RowsInv(r) /\ ServersInv
  BY IInvParts DEF IInv, JobInv
<1>3. \A i \in DOMAIN job[r].rows :
        /\ Good(job[r].rows[i]) /\ Preferred(r, i)
        /\ job[r].rows[i].account \in Accounts \cup {Lin}
  <2>1. \A i \in DOMAIN job[r].rows : Good(job[r].rows[i]) /\ Preferred(r, i)
    BY <1>1, <1>2 DEF RowsInv, Making
  <2>2. \A i \in DOMAIN job[r].rows : job[r].rows[i] \in FullRow
    BY <1>2, JobFacts, SeqFacts DEF Typed
  <2> QED
    BY <2>1, <2>2, RowFacts
<1>4. \E v \in Requests : Request(v)
  <2>1. CASE Refresh
    BY <1>1, <1>2, <2>1, RefreshTyped
  <2>2. CASE Outside
    <3>1. UNCHANGED job \/ \A v \in Requests : job'[v] = Idle
      BY <1>2, <2>2, OutsideTyped
    <3> QED
      BY <1>1, <3>1, IdleType
  <2> QED
    BY <2>1, <2>2 DEF Next
<1>5. PICK v \in Requests : Request(v)
  BY <1>4
<1>6. Request(r)
  BY <1>1, <1>2, <1>5, OtherPc
<1>7. Write(r)
  <2>1. /\ ~(\E a \in Accounts : Open(r, a))
        /\ ~(\E pw \in Preference, gen \in BOOLEAN : Submit(r, pw, gen))
    BY <1>1 DEF Open, Submit, Post, At
  <2>2. ~First(r) /\ ~Others(r) /\ ~Details(r) /\ ~Vcard(r) /\ ~Fetch(r) /\ ~FetchErr(r)
        /\ ~Truncate(r) /\ ~QrCode(r)
    BY <1>1 DEF First, Others, Details, Vcard, Fetch, FetchErr, Truncate, QrCode, At
  <2>3. ~WriteErr(r)
    <3>1. ASSUME WriteErr(r) PROVE job'[r] = Idle
      BY <3>1 DEF WriteErr
    <3> QED
      BY <1>1, <3>1, IdleType
  <2> QED
    BY <1>6, <2>1, <2>2, <2>3 DEF Request
<1>8. Target(r) \in Accounts
  BY <1>1, <1>2, JobFacts DEF Typed, JobFilled
<1>9. xml'[Target(r)].rows = job[r].rows /\ UNCHANGED had
  <2>1. PICK whole \in BOOLEAN :
           xml' = [xml EXCEPT ![Target(r)] = [rows |-> job[r].rows, whole |-> whole]]
    BY <1>7 DEF Write
  <2>2. xml'[Target(r)] = [rows |-> job[r].rows, whole |-> whole]
    BY <1>2, <1>8, <2>1 DEF Typed, XmlOK
  <2>3. UNCHANGED had
    BY <1>7 DEF Write, tables
  <2> QED
    BY <2>2, <2>3, FileRows
<1> QED
  BY <1>3, <1>9

\* A client is told to register each account with a server that it belongs or
\* belonged to, unless a page had said that one was missing (configmenu).
THEOREM ServerCorrect == Spec => ServerIsTheirs
<1>1. ASSUME IInv, [Next]_vars, NEW r \in Requests, Trusted(r),
             NEW i \in DOMAIN xml'[Target(r)].rows,
             xml'[Target(r)].rows[i].account # Lin
      PROVE  xml'[Target(r)].rows[i].server \in had[xml'[Target(r)].rows[i].account]
  <2>1. Next
    BY <1>1 DEF vars, Trusted, Written, At
  <2>2. /\ xml'[Target(r)].rows = job[r].rows
        /\ \A j \in DOMAIN job[r].rows : Good(job[r].rows[j])
    BY <1>1, <2>1, WrittenStep
  <2> QED
    BY <1>1, <2>2 DEF Good
<1>2. IInv /\ [Next]_vars =>
        [\A r \in Requests : Trusted(r) =>
            LET rows == xml'[Target(r)].rows
            IN \A i \in DOMAIN rows :
                  rows[i].account # Lin => rows[i].server \in had[rows[i].account]]_vars
  BY <1>1
<1> QED
  BY <1>2, InvCorrect, PTL DEF Spec, ServerIsTheirs

\* The encryption that was chosen on the form is what is written (gen_config).
THEOREM PreferenceCorrect == Spec => PreferenceKept
<1>1. ASSUME IInv, [Next]_vars, NEW r \in Requests, Trusted(r),
             NEW i \in DOMAIN xml'[Target(r)].rows \cap DOMAIN job[r].form
      PROVE  \/ xml'[Target(r)].rows[i].account \in NoDesc \cup {Lin}
             \/ job[r].form[i] = OnlyName(job[r].form[i].account)
             \/ xml'[Target(r)].rows[i].pw = job[r].pw
  <2>1. Next
    BY <1>1 DEF vars, Trusted, Written, At
  <2>2. /\ xml'[Target(r)].rows = job[r].rows
        /\ \A j \in DOMAIN job[r].rows : Preferred(r, j)
    BY <1>1, <2>1, WrittenStep
  <2> QED
    BY <1>1, <2>2 DEF Preferred
<1>2. IInv /\ [Next]_vars =>
        [\A r \in Requests : Trusted(r) =>
            LET rows == xml'[Target(r)].rows
                form == job[r].form
            IN \A i \in DOMAIN rows \cap DOMAIN form :
                  \/ rows[i].account \in NoDesc \cup {Lin}
                  \/ form[i] = OnlyName(form[i].account)
                  \/ rows[i].pw = job[r].pw]_vars
  BY <1>1
<1> QED
  BY <1>2, InvCorrect, PTL DEF Spec, PreferenceKept
=============================================================================
