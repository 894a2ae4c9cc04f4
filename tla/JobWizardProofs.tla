-------------------------- MODULE JobWizardProofs --------------------------
(***************************************************************************)
(* Proofs about JobWizard and the Connections under it, for any number of  *)
(* connections, tabs, requests, jobs and failures, and any set of keys.    *)
(***************************************************************************)
EXTENDS JobWizard, FiniteSetTheorems, TLAPS

----------------------------------------------------------------------------
(* Passwords.                                                              *)

\* A token holds what the user entered, whichever key it was made with.
TokensInv ==
  /\ secret = [c \in Conns |-> secret[c]]
  /\ entered = [c \in Conns |-> entered[c]]
  /\ \A c \in Conns \ outdated :
       secret[c].is = "token" => secret[c].of = entered[c]

LEMMA StoredText ==
  ASSUME NEW k, NEW p
  PROVE  \/ Stored(k, Plain(p)) = Plain(p) /\ Plain(p).is # "token"
         \/ /\ Stored(k, Plain(p)) = Token(k, Plain(p))
            /\ Token(k, Plain(p)).of = Plain(p)
  BY DEF Stored, Plain, Token, LooksEncrypted, Blank, ResetRequired

LEMMA StoredToken ==
  ASSUME NEW k, NEW s
  PROVE  Stored(k, Token(k, s)) = Token(k, s)
  BY DEF Stored, Token, LooksEncrypted, Blank, ResetRequired

LEMMA TokensRight == TokensInv => NeverWrong
  <1> SUFFICES ASSUME TokensInv, NEW c \in Conns, c \notin outdated
               PROVE  PasswordOf(key, secret[c]) \in {Unreadable, entered[c]}
    BY DEF NeverWrong
  <1>1. secret[c] # Blank => Decrypted(key, secret[c]) = Unreadable
                               \/ (secret[c].is = "token"
                                     /\ Decrypted(key, secret[c]) = secret[c].of)
    BY DEF Decrypted
  <1>2. QED
    BY <1>1 DEF PasswordOf, TokensInv

LEMMA TokensStart == Init => TokensInv
  <1> SUFFICES ASSUME ConnInit PROVE TokensInv
    BY DEF Init
  <1>1. ASSUME NEW c \in Conns
        PROVE  secret[c].is = "token" => secret[c].of = entered[c]
    <2>1. entered[c] = Blank \/ \E p \in Passwords : entered[c] = Plain(p)
      BY DEF ConnInit
    <2>2. secret[c] = Stored(key, entered[c])
      BY DEF ConnInit
    <2>3. CASE entered[c] = Blank
      BY <2>2, <2>3 DEF Stored, Blank
    <2>4. CASE \E p \in Passwords : entered[c] = Plain(p)
      BY <2>2, <2>4, StoredText
    <2>5. QED
      BY <2>1, <2>3, <2>4
  <1>2. QED
    BY <1>1 DEF TokensInv, ConnInit

LEMMA EnterTokens ==
  ASSUME TokensInv, NEW c \in Conns, NEW p, NEW a, Enter(c, p, a)
  PROVE  TokensInv'
  <1>1. /\ secret' = [secret EXCEPT ![c] = Stored(key, Plain(p))]
        /\ entered' = [entered EXCEPT ![c] = Plain(p)]
        /\ outdated' = outdated \ {c}
    BY DEF Enter
  <1>2. secret'[c] = Stored(key, Plain(p)) /\ entered'[c] = Plain(p)
    BY <1>1 DEF TokensInv
  <1>3. secret'[c].is = "token" => secret'[c].of = entered'[c]
    BY <1>2, StoredText
  <1>4. \A d \in Conns \ {c} : secret'[d] = secret[d] /\ entered'[d] = entered[d]
    BY <1>1 DEF TokensInv
  <1>5. secret' = [d \in Conns |-> secret'[d]] /\ entered' = [d \in Conns |-> entered'[d]]
    BY <1>1 DEF TokensInv
  <1>6. QED
    BY <1>1, <1>3, <1>4, <1>5 DEF TokensInv

\* What else writes the password column: nothing, the marker, or the command
\* that encrypts once more what it has read.
LEMMA OthersTokens ==
  ASSUME TokensInv, NEW c \in Conns,
         Delete(c) \/ FixMark(c) \/ FixRead(c)
  PROVE  TokensInv'
  <1>1. ASSUME NEW s, secret' = [secret EXCEPT ![c] = s], UNCHANGED entered,
               outdated' \in {outdated, outdated \cup {c}},
               c \notin outdated' => (s.is = "token" => s.of = entered[c])
        PROVE  TokensInv'
    <2>1. secret'[c] = s /\ \A d \in Conns \ {c} : secret'[d] = secret[d]
      BY <1>1 DEF TokensInv
    <2>2. secret' = [d \in Conns |-> secret'[d]]
      BY <1>1 DEF TokensInv
    <2>3. QED
      BY <1>1, <2>1, <2>2 DEF TokensInv
  <1>2. CASE UNCHANGED <<secret, entered, outdated>>
    BY <1>2 DEF TokensInv
  <1>4. CASE FixMark(c)
    <2>1. ResetRequired.is # "token"
      BY DEF ResetRequired
    <2>2. QED
      BY <1>1, <1>2, <1>4, <2>1 DEF FixMark
  <1>5. CASE FixRead(c)
    <2> DEFINE row == fix[c]
               read == Decrypted(row.key, row.secret)
    <2>1. read # Unreadable /\ UNCHANGED entered
      BY <1>5 DEF FixRead
    <2>2. CASE row.force /\ read # Blank
      <3>1. /\ secret' = [secret EXCEPT ![c] = Stored(row.key, Token(row.key, read))]
            /\ outdated' = IF secret[c] = row.secret
                             THEN outdated ELSE outdated \cup {c}
        BY <1>5, <2>2 DEF FixRead
      <3>2. row.secret.is = "token" /\ read = row.secret.of
        BY <2>1, <2>2 DEF Decrypted
      <3>3. c \notin outdated' => read = entered[c]
        BY <3>1, <3>2 DEF TokensInv
      <3>4. Token(row.key, read).of = read
        BY DEF Token
      <3>5. QED
        BY <1>1, <2>1, <3>1, <3>3, <3>4, StoredToken
    <2>3. CASE ~ (row.force /\ read # Blank)
      BY <1>2, <1>5, <2>3 DEF FixRead
    <2>4. QED
      BY <2>2, <2>3
  <1>6. QED
    BY <1>2, <1>4, <1>5 DEF Delete

LEMMA TokensStep == TokensInv /\ [Next]_vars => TokensInv'
  <1> SUFFICES ASSUME TokensInv, [Next]_vars PROVE TokensInv'
    OBVIOUS
  <1>1. CASE UNCHANGED <<secret, entered, outdated>>
    BY <1>1 DEF TokensInv
  <1>2. CASE ConnNext
    BY <1>1, <1>2, EnterTokens, OthersTokens DEF ConnNext, Restart, FixStart
  <1>3. QED
    BY <1>1, <1>2
      DEF Next, vars, connVars, rowVars, ConnStep, Submit1, Submit2, Submit3,
          Create, AddTable, AddSchedule, RunOnce, Save, Fail, Open2, Open3

\* A connection is opened with the password its user entered last or not at all,
\* unless the command has written an older copy over its row.
THEOREM PasswordRight == Spec => []NeverWrong
  <1>1. Spec => []TokensInv
    BY TokensStart, TokensStep, PTL DEF Spec
  <1>2. QED
    BY <1>1, TokensRight, PTL

----------------------------------------------------------------------------
(* Jobs.  A copy of the session is that of one form, a request knows which *)
(* tables it has still to create, and no other creates them too.           *)

Request == [at : {"idle", "save", "create", "tables", "run"},
            name : 0..MaxForms, copy : Sessions, incremental : BOOLEAN,
            columns : SUBSET Tables, id : 0..MaxJobs, left : Selections]
Job == [row : {"new", "there", "gone"}, name : 0..MaxForms,
        pair : Pair \cup {NoPair}, incremental : BOOLEAN,
        tables : SUBSET Tables, columns : SUBSET Tables,
        wanted : SUBSET Tables, schedule : BOOLEAN, answered : BOOLEAN]

WizardType ==
  /\ session \in Sessions
  /\ page \in [Tabs -> [step : {0, 2, 3}, source : Conns \cup {"none"},
                        inputs : Selections]]
  /\ req \in [Requests -> Request]
  /\ job \in [Jobs -> Job]
  /\ forms \in [Names -> Pair \cup {NoPair}]

OneForm(s) == IF s.name = 0 THEN s.pair = NoPair
                            ELSE s.pair \in Pair /\ s.pair = forms[s.name]

JobOfForm(i) ==
  IF job[i].row = "new" THEN job[i] = NoJob ELSE job[i].name # 0 /\ OneForm(job[i])

FormInv ==
  /\ OneForm(session)
  /\ \A r \in Requests :
       /\ OneForm(req[r].copy)
       /\ req[r].at = "create" => req[r].copy.name # 0
  /\ \A i \in Jobs : JobOfForm(i)

\* The job a request is at work on is not answered, and what it wants is there
\* or to come.
AtWork(r, j) ==
  /\ j.row # "new" /\ ~ j.answered
  /\ j.wanted = j.tables \cup ToSet(req[r].left)
  /\ j.incremental => j.columns = j.tables /\ j.wanted \subseteq req[r].columns
  /\ req[r].at # "tables" => req[r].left = <<>>

CreatesWhole(r) ==
  /\ req[r].at = "create" /\ req[r].incremental =>
       ToSet(req[r].copy.tables) \subseteq req[r].columns
  /\ req[r].at \in {"idle", "create"} => req[r].id = 0
  /\ req[r].at \in {"run", "tables"} => req[r].id # 0
  /\ req[r].id # 0 => AtWork(r, job[req[r].id])

WholeInv ==
  /\ \A r \in Requests : CreatesWhole(r)
  /\ \A q, r \in Requests : q # r /\ req[q].id # 0 => req[q].id # req[r].id
  /\ JobIsWhole

WizardInv == WizardType /\ FormInv /\ WholeInv

LEMMA Nothings ==
  /\ <<>> \in Selections /\ NoPair \notin Pair
  /\ NoSession \in Sessions /\ NoReq \in Request /\ NoJob \in Job
  /\ 0 \notin Jobs /\ 0 \notin Names
  <1>1. <<>> \in Selections
    BY DEF Selections
  <1>2. NoPair \notin Pair
    BY NamesAssumption DEF NoPair, Pair
  <1>3. MaxForms \in Nat /\ MaxJobs \in Nat
    BY BoundsAssumption
  <1>4. NoSession \in Sessions
    BY <1>1, <1>3 DEF NoSession, Sessions
  <1>5. NoReq \in Request
    BY <1>1, <1>3, <1>4 DEF NoReq, Request
  <1>6. NoJob \in Job
    BY <1>3 DEF NoJob, Job
  <1>7. 0 \notin Jobs /\ 0 \notin Names
    BY <1>3 DEF Jobs, Names
  <1>8. QED
    BY <1>1, <1>2, <1>4, <1>5, <1>6, <1>7

\* Sequences and the sets of their elements.
LEMMA TickedSeq ==
  ASSUME NEW s \in Selections, NEW t \in Ticked
  PROVE  s \o t \in Selections
  <1>1. PICK S \in SUBSET Tables : t \in SetToSeqs(S)
    BY DEF Ticked
  <1>2. Cardinality(S) \in Nat
    BY TablesAssumption, FS_Subset, FS_CardinalityType
  <1>3. t \in [1..Cardinality(S) -> S]
    BY <1>1 DEF SetToSeqs
  <1>4. t \in Seq(Tables)
    BY <1>2, <1>3
  <1>5. QED
    BY <1>4 DEF Selections

LEMMA HeadAndTail ==
  ASSUME NEW s \in Selections, s # <<>>
  PROVE  /\ Head(s) \in Tables /\ Tail(s) \in Selections
         /\ ToSet(s) = {Head(s)} \cup ToSet(Tail(s))
  <1>1. s \in Seq(Tables)
    BY DEF Selections
  <1>2. Head(s) = s[1] /\ 1 \in DOMAIN s
    BY <1>1
  <1>3. \A i \in DOMAIN Tail(s) : i + 1 \in DOMAIN s /\ Tail(s)[i] = s[i + 1]
    BY <1>1
  <1>4. \A i \in DOMAIN s : i = 1 \/ (i - 1 \in DOMAIN Tail(s) /\ Tail(s)[i - 1] = s[i])
    BY <1>1
  <1>5. ToSet(s) \subseteq {Head(s)} \cup ToSet(Tail(s))
    BY <1>2, <1>4 DEF ToSet
  <1>6. {Head(s)} \cup ToSet(Tail(s)) \subseteq ToSet(s)
    BY <1>2, <1>3 DEF ToSet
  <1>7. Head(s) \in Tables /\ Tail(s) \in Seq(Tables)
    BY <1>1
  <1>8. QED
    BY <1>5, <1>6, <1>7 DEF Selections

LEMMA ToSetOf ==
  /\ ToSet(<<>>) = {}
  /\ \A s \in Selections : ToSet(s) \subseteq Tables
  BY DEF ToSet, Selections

----------------------------------------------------------------------------
(* What the actions do to the requests.                                    *)

\* A request starts with the fields f, and the name of the session it has read.
LEMMA Loaded ==
  ASSUME WizardType, NEW r \in Requests, NEW f \in Request, Loads(r, f)
  PROVE  /\ req' \in [Requests -> Request]
         /\ \A q \in Requests \ {r} : req'[q] = req[q]
         /\ req'[r].at = f.at /\ req'[r].copy = f.copy
         /\ req'[r].incremental = f.incremental /\ req'[r].columns = f.columns
         /\ req'[r].id = f.id /\ req'[r].left = f.left
  <1>1. session.name \in 0..MaxForms
    BY DEF WizardType, Sessions
  <1>2. [f EXCEPT !.name = session.name] \in Request
    BY <1>1 DEF Request
  <1>3. req' = [req EXCEPT ![r] = [f EXCEPT !.name = session.name]]
    BY DEF Loads
  <1>4. req'[r] = [f EXCEPT !.name = session.name]
    BY <1>3 DEF WizardType
  <1>5. QED
    BY <1>2, <1>3, <1>4 DEF WizardType, Request

\* A page submits a copy c of the session that it has changed.
LEMMA Changed ==
  ASSUME WizardType, NEW r \in Requests, NEW c \in Sessions,
         Loads(r, [NoReq EXCEPT !.at = "save", !.copy = c])
  PROVE  /\ req' \in [Requests -> Request]
         /\ \A q \in Requests \ {r} : req'[q] = req[q]
         /\ req'[r].at = "save" /\ req'[r].copy = c
         /\ req'[r].id = 0 /\ req'[r].left = <<>>
  <1> DEFINE f == [NoReq EXCEPT !.at = "save", !.copy = c]
  <1>1. NoReq \in Request
    BY Nothings
  <1>2. f \in Request /\ f.at = "save" /\ f.copy = c
    BY <1>1 DEF Request
  <1>3. f.id = 0 /\ f.left = <<>>
    BY DEF NoReq
  <1> HIDE DEF f
  <1>4. Loads(r, f)
    BY DEF f
  <1>5. QED
    BY <1>2, <1>3, <1>4, Loaded

LEMMA Ended ==
  ASSUME WizardType, NEW r \in Requests, Ends(r)
  PROVE  /\ req' \in [Requests -> Request]
         /\ \A q \in Requests \ {r} : req'[q] = req[q]
         /\ req'[r] = NoReq
  BY Nothings DEF Ends, WizardType

----------------------------------------------------------------------------
(* Requests that are not at work on a job.                                 *)

LEMMA NotAtWork ==
  ASSUME WholeInv, NEW r \in Requests, UNCHANGED job,
         \A q \in Requests \ {r} : req'[q] = req[q],
         req'[r].id = 0, req'[r].at \notin {"run", "tables"},
         req'[r].at = "create" /\ req'[r].incremental =>
           ToSet(req'[r].copy.tables) \subseteq req'[r].columns
  PROVE  WholeInv'
  <1>1. CreatesWhole(r)'
    BY DEF CreatesWhole
  <1>2. \A q \in Requests \ {r} : CreatesWhole(q)'
    BY DEF WholeInv, CreatesWhole, AtWork
  <1>3. JobIsWhole'
    BY DEF WholeInv, JobIsWhole
  <1>4. QED
    BY <1>1, <1>2, <1>3 DEF WholeInv

LEMMA Submit1Step ==
  ASSUME WizardInv, NEW r \in Requests, NEW c \in Conns, NEW d \in Conns,
         Submit1(r, c, d)
  PROVE  WizardInv'
  <1>0. WizardType /\ FormInv /\ WholeInv
    BY DEF WizardInv
  <1>1. PICK f \in Names :
          /\ forms[f] = NoPair
          /\ forms' = [forms EXCEPT ![f] = [source |-> c, target |-> d]]
          /\ Loads(r, [NoReq EXCEPT !.at = "save",
                         !.copy = [session EXCEPT !.name = f, !.pair = forms'[f]]])
    BY DEF Submit1
  <1>2. UNCHANGED <<session, page, job>>
    BY DEF Submit1
  <1> DEFINE pair == [source |-> c, target |-> d]
             copy == [session EXCEPT !.name = f, !.pair = pair]
  <1>3. /\ pair \in Pair /\ forms'[f] = pair
        /\ forms' \in [Names -> Pair \cup {NoPair}]
        /\ \A g \in Names \ {f} : forms'[g] = forms[g]
    BY <1>0, <1>1 DEF Pair, WizardType
  <1>4. f \in 0..MaxForms /\ f # 0
    BY BoundsAssumption DEF Names
  <1>5. copy \in Sessions /\ copy.name = f /\ copy.pair = pair
    BY <1>0, <1>3, <1>4 DEF WizardType, Sessions
  <1>6. Loads(r, [NoReq EXCEPT !.at = "save", !.copy = copy])
    BY <1>1, <1>3
  <1> HIDE DEF pair, copy
  <1>7. /\ req' \in [Requests -> Request]
        /\ \A q \in Requests \ {r} : req'[q] = req[q]
        /\ req'[r].at = "save" /\ req'[r].copy = copy
        /\ req'[r].id = 0 /\ req'[r].left = <<>>
    BY <1>0, <1>5, <1>6, Changed
  <1>8. WizardType'
    BY <1>0, <1>2, <1>3, <1>7 DEF WizardType
  <1>9. ASSUME NEW s, OneForm(s), s.name \in 0..MaxForms
        PROVE  IF s.name = 0 THEN s.pair = NoPair
                             ELSE s.pair \in Pair /\ s.pair = forms'[s.name]
    <2>1. s.name # 0 => s.name \in Names
      BY <1>9, BoundsAssumption DEF Names
    <2>2. s.name # f
      BY <1>1, <1>4, <1>9, Nothings DEF OneForm
    <2>3. QED
      BY <1>3, <1>9, <2>1, <2>2 DEF OneForm
  <1>10. OneForm(session)'
    BY <1>0, <1>2, <1>9 DEF FormInv, OneForm, WizardType, Sessions
  <1>11. ASSUME NEW q \in Requests
         PROVE  OneForm(req[q].copy)' /\ (req'[q].at = "create" => req'[q].copy.name # 0)
    <2>1. CASE q = r
      BY <1>3, <1>4, <1>5, <1>7, <2>1 DEF OneForm
    <2>2. CASE q # r
      <3>1. req'[q] = req[q] /\ OneForm(req[q].copy)
        BY <1>0, <1>7, <2>2 DEF FormInv
      <3>2. req[q].copy.name \in 0..MaxForms
        BY <1>0 DEF WizardType, Request, Sessions
      <3>3. OneForm(req[q].copy)'
        BY <1>9, <3>1, <3>2 DEF OneForm
      <3>4. QED
        BY <1>0, <3>1, <3>3 DEF FormInv
    <2>3. QED
      BY <2>1, <2>2
  <1>12. ASSUME NEW i \in Jobs
         PROVE  JobOfForm(i)'
    <2>1. JobOfForm(i) /\ job'[i] = job[i]
      BY <1>0, <1>2 DEF FormInv
    <2>2. job[i].name \in 0..MaxForms
      BY <1>0 DEF WizardType, Job
    <2>3. CASE job[i].row = "new"
      BY <2>1, <2>3 DEF JobOfForm
    <2>4. CASE job[i].row # "new"
      <3>1. OneForm(job[i]) /\ job[i].name # 0
        BY <2>1, <2>4 DEF JobOfForm
      <3>2. QED
        BY <1>9, <2>1, <2>2, <2>4, <3>1 DEF JobOfForm, OneForm
    <2>5. QED
      BY <2>3, <2>4
  <1>13. WholeInv'
    BY <1>0, <1>2, <1>7, NotAtWork
  <1>14. QED
    BY <1>8, <1>10, <1>11, <1>12, <1>13 DEF WizardInv, FormInv

\* Where the forms stay as they are.
LEMMA FormsKept ==
  ASSUME FormInv, NEW r \in Requests, UNCHANGED <<forms, job>>,
         \A q \in Requests \ {r} : req'[q] = req[q],
         OneForm(session)', OneForm(req[r].copy)',
         req'[r].at = "create" => req'[r].copy.name # 0
  PROVE  FormInv'
  <1>1. \A q \in Requests \ {r} :
          OneForm(req[q].copy)' /\ (req'[q].at = "create" => req'[q].copy.name # 0)
    BY DEF FormInv, OneForm
  <1>2. \A i \in Jobs : JobOfForm(i)'
    BY DEF FormInv, JobOfForm, OneForm
  <1>3. QED
    BY <1>1, <1>2 DEF FormInv

LEMMA Submit2Step ==
  ASSUME WizardInv, NEW r \in Requests, NEW t \in Tabs, NEW ticked \in Ticked,
         Submit2(r, t, ticked)
  PROVE  WizardInv'
  <1>0. WizardType /\ FormInv /\ WholeInv
    BY DEF WizardInv
  <1> DEFINE inputs == page[t].inputs \o ticked
             copy == [session EXCEPT !.tables = inputs]
  <1>1. /\ page' = [page EXCEPT ![t].inputs = inputs]
        /\ Loads(r, [NoReq EXCEPT !.at = "save", !.copy = copy])
        /\ UNCHANGED <<session, job, forms>>
    BY DEF Submit2
  <1>2. inputs \in Selections
    BY <1>0, TickedSeq DEF WizardType
  <1> HIDE DEF inputs
  <1>3. copy \in Sessions /\ copy.name = session.name /\ copy.pair = session.pair
    BY <1>0, <1>2 DEF WizardType, Sessions
  <1> HIDE DEF copy
  <1>4. /\ req' \in [Requests -> Request]
        /\ \A q \in Requests \ {r} : req'[q] = req[q]
        /\ req'[r].at = "save" /\ req'[r].copy = copy
        /\ req'[r].id = 0 /\ req'[r].left = <<>>
    BY <1>0, <1>1, <1>3, Changed
  <1>5. page' \in [Tabs -> [step : {0, 2, 3}, source : Conns \cup {"none"},
                            inputs : Selections]]
    BY <1>0, <1>1, <1>2 DEF WizardType
  <1>6. WizardType'
    BY <1>0, <1>1, <1>4, <1>5 DEF WizardType
  <1>7. FormInv'
    BY <1>0, <1>1, <1>3, <1>4, FormsKept DEF FormInv, OneForm
  <1>8. WholeInv'
    BY <1>0, <1>1, <1>4, NotAtWork
  <1>9. QED
    BY <1>6, <1>7, <1>8 DEF WizardInv

LEMMA Submit3Step ==
  ASSUME WizardInv, NEW r \in Requests, NEW t \in Tabs, NEW incremental \in BOOLEAN,
         Submit3(r, t, incremental)
  PROVE  WizardInv'
  <1>0. WizardType /\ FormInv /\ WholeInv
    BY DEF WizardInv
  <1> DEFINE posted == IF incremental THEN ToSet(page[t].inputs) ELSE {}
             n == [NoReq EXCEPT !.at = "create", !.copy = session]
             f == [n EXCEPT !.incremental = incremental, !.columns = posted]
  <1>1. /\ incremental => ToSet(session.tables) \subseteq posted
        /\ Complete(session)
        /\ Loads(r, f)
        /\ UNCHANGED <<session, page, job, forms>>
    BY DEF Submit3
  <1>2. page[t].inputs \in Selections
    BY <1>0 DEF WizardType
  <1>3. posted \subseteq Tables
    BY <1>2, ToSetOf
  <1> HIDE DEF posted
  <1>4. n \in Request /\ n.at = "create" /\ n.copy = session /\ n.id = 0
    <2>1. NoReq \in Request /\ NoReq.id = 0 /\ session \in Sessions
      BY <1>0, Nothings DEF NoReq, WizardType
    <2>2. QED
      BY <2>1 DEF Request
  <1> HIDE DEF n
  <1>5. /\ f \in Request /\ f.at = "create" /\ f.copy = session /\ f.id = 0
        /\ f.incremental = incremental /\ f.columns = posted
    BY <1>3, <1>4 DEF Request
  <1> HIDE DEF f
  <1>6. /\ req' \in [Requests -> Request]
        /\ \A q \in Requests \ {r} : req'[q] = req[q]
        /\ req'[r].at = "create" /\ req'[r].copy = session /\ req'[r].id = 0
        /\ req'[r].incremental = incremental /\ req'[r].columns = posted
    BY <1>0, <1>1, <1>5, Loaded
  <1>7. WizardType'
    BY <1>0, <1>1, <1>6 DEF WizardType
  <1>8. FormInv'
    <2>1. session.name # 0
      BY <1>1 DEF Complete
    <2>2. OneForm(session)' /\ OneForm(req[r].copy)'
      BY <1>0, <1>1, <1>6 DEF FormInv, OneForm
    <2>3. QED
      BY <1>0, <1>1, <1>6, <2>1, <2>2, FormsKept
  <1>9. WholeInv'
    BY <1>0, <1>1, <1>6, NotAtWork
  <1>10. QED
    BY <1>7, <1>8, <1>9 DEF WizardInv

LEMMA PageStep ==
  ASSUME WizardInv, NEW t \in Tabs, Open2(t) \/ Open3(t)
  PROVE  WizardInv'
  <1>0. WizardType /\ FormInv /\ WholeInv
    BY DEF WizardInv
  <1>1. UNCHANGED <<session, req, job, forms>>
    BY DEF Open2, Open3
  <1>2. page' \in [Tabs -> [step : {0, 2, 3}, source : Conns \cup {"none"},
                            inputs : Selections]]
    <2>1. CASE Open2(t)
      BY <1>0, <2>1, Nothings DEF Open2, Usable, WizardType
    <2>2. CASE Open3(t)
      BY <1>0, <2>2 DEF Open3, WizardType, Sessions
    <2>3. QED
      BY <2>1, <2>2
  <1>3. FormInv'
    BY <1>0, <1>1 DEF FormInv, OneForm, JobOfForm
  <1>4. WholeInv'
    BY <1>0, <1>1 DEF WholeInv, CreatesWhole, AtWork, JobIsWhole
  <1>5. QED
    BY <1>0, <1>1, <1>2, <1>3, <1>4 DEF WizardInv, WizardType

\* A request that fails or is refused is gone.
LEMMA EndStep ==
  ASSUME WizardInv, NEW r \in Requests, Ends(r), UNCHANGED <<session, page, job, forms>>
  PROVE  WizardInv'
  <1>0. WizardType /\ FormInv /\ WholeInv
    BY DEF WizardInv
  <1>1. /\ req' \in [Requests -> Request]
        /\ \A q \in Requests \ {r} : req'[q] = req[q]
        /\ req'[r] = NoReq
    BY <1>0, Ended
  <1>2. NoReq.at = "idle" /\ NoReq.id = 0 /\ NoReq.copy = NoSession
    BY DEF NoReq
  <1>3. WizardType'
    BY <1>0, <1>1 DEF WizardType
  <1>4. OneForm(session)' /\ OneForm(req[r].copy)'
    BY <1>0, <1>1, <1>2 DEF FormInv, OneForm, NoSession
  <1>5. FormInv'
    BY <1>0, <1>1, <1>2, <1>4, FormsKept
  <1>6. WholeInv'
    BY <1>0, <1>1, <1>2, NotAtWork
  <1>7. QED
    BY <1>3, <1>5, <1>6 DEF WizardInv

----------------------------------------------------------------------------
(* A request at work on the job i.                                         *)

LEMMA WorkStep ==
  ASSUME WholeInv, NEW r \in Requests, NEW i \in Jobs,
         \A q \in Requests \ {r} : req'[q] = req[q] /\ req[q].id # i,
         \A k \in Jobs \ {i} : job'[k] = job[k],
         req'[r].id \in {0, i},
         CreatesWhole(r)',
         job'[i].answered /\ job'[i].row = "there" =>
           /\ job'[i].tables = job'[i].wanted
           /\ job'[i].incremental => job'[i].columns = job'[i].wanted,
         \A q \in Requests : req[q].id # 0 => req[q].id \in Jobs
  PROVE  WholeInv'
  <1>1. \A q \in Requests \ {r} : CreatesWhole(q)'
    BY DEF WholeInv, CreatesWhole, AtWork
  <1>2. JobIsWhole'
    BY DEF WholeInv, JobIsWhole
  <1>3. QED
    BY <1>1, <1>2 DEF WholeInv

LEMMA Working ==
  ASSUME WizardInv
  PROVE  /\ \A q \in Requests : req[q].id # 0 => req[q].id \in Jobs
         /\ \A q, r \in Requests : q # r /\ req[r].id # 0 => req[q].id # req[r].id
  <1>1. \A q \in Requests : req[q].id \in 0..MaxJobs
    BY DEF WizardInv, WizardType, Request
  <1>2. \A n \in 0..MaxJobs : n # 0 => n \in Jobs
    BY BoundsAssumption DEF Jobs
  <1>3. QED
    BY <1>1, <1>2 DEF WizardInv, WholeInv

LEMMA CreateStep ==
  ASSUME WizardInv, NEW r \in Requests, Create(r)
  PROVE  WizardInv'
  <1>0. WizardType /\ FormInv /\ WholeInv
    BY DEF WizardInv
  <1>1. UNCHANGED <<session, page, forms>> /\ req[r].at = "create"
    BY DEF Create
  <1>2. CASE Ends(r) /\ UNCHANGED job
    BY <1>1, <1>2, EndStep
  <1>3. ASSUME NEW i \in Jobs,
               job[i].row = "new",
               job' = [job EXCEPT ![i] =
                 [NoJob EXCEPT !.row = "there", !.name = req[r].copy.name,
                    !.pair = req[r].copy.pair, !.wanted = ToSet(req[r].copy.tables),
                    !.incremental = req[r].incremental]],
               req' = [req EXCEPT ![r].at = "tables", ![r].id = i,
                         ![r].left = req[r].copy.tables]
        PROVE  WizardInv'
    <2>1. /\ req[r] \in Request /\ req[r].copy \in Sessions
          /\ OneForm(req[r].copy) /\ req[r].copy.name # 0
          /\ req[r].incremental \in BOOLEAN
          /\ req[r].incremental => ToSet(req[r].copy.tables) \subseteq req[r].columns
      BY <1>0, <1>1 DEF WizardType, Request, FormInv, WholeInv, CreatesWhole
    <2> DEFINE s == req[r].copy
               j == [[NoJob EXCEPT !.row = "there", !.name = s.name, !.pair = s.pair]
                       EXCEPT !.wanted = ToSet(s.tables),
                              !.incremental = req[r].incremental]
               q == [req[r] EXCEPT !.at = "tables", !.id = i, !.left = s.tables]
    <2>2. s.name \in 0..MaxForms /\ s.pair \in Pair /\ s.tables \in Selections
      BY <2>1 DEF Sessions, OneForm
    <2>3. ToSet(s.tables) \subseteq Tables
      BY <2>2, ToSetOf
    <2>4. /\ j \in Job /\ j.row = "there" /\ j.name = s.name /\ j.pair = s.pair
          /\ j.wanted = ToSet(s.tables) /\ j.incremental = req[r].incremental
      <3>1. NoJob \in Job
        BY Nothings
      <3>2. [NoJob EXCEPT !.row = "there", !.name = s.name, !.pair = s.pair] \in Job
        BY <2>2, <3>1 DEF Job
      <3>3. QED
        BY <2>1, <2>2, <2>3 DEF Job, NoJob
    <2>5. j.tables = {} /\ j.columns = {} /\ ~ j.answered
      BY DEF NoJob
    <2>6. /\ q \in Request /\ q.at = "tables" /\ q.id = i /\ q.left = s.tables
          /\ q.copy = s /\ q.columns = req[r].columns
      <3>1. i \in 0..MaxJobs
        BY BoundsAssumption DEF Jobs
      <3>2. QED
        BY <2>1, <2>2, <3>1 DEF Request
    <2>7. /\ job' \in [Jobs -> Job] /\ job'[i] = j
          /\ \A k \in Jobs \ {i} : job'[k] = job[k]
      BY <1>0, <1>3, <2>4 DEF WizardType
    <2>8. /\ req' \in [Requests -> Request] /\ req'[r] = q
          /\ \A p \in Requests \ {r} : req'[p] = req[p]
      BY <1>0, <1>3, <2>6 DEF WizardType
    <2> HIDE DEF j, q
    <2>9. WizardType'
      BY <1>0, <1>1, <2>7, <2>8 DEF WizardType
    <2>10. i # 0
      BY Nothings
    <2>11. \A p \in Requests : req[p].id # i
      BY <1>0, <1>3, <2>10 DEF WholeInv, CreatesWhole, AtWork
    <2>12. CreatesWhole(r)'
      <3>1. req'[r].at = "tables" /\ req'[r].id = i /\ job'[i] = j
        BY <2>6, <2>7, <2>8
      <3>2. j.wanted = j.tables \cup ToSet(req'[r].left)
        BY <2>4, <2>5, <2>6, <2>8
      <3>3. j.incremental => j.columns = j.tables /\ j.wanted \subseteq req'[r].columns
        <4>1. j.incremental = req[r].incremental /\ j.wanted = ToSet(req[r].copy.tables)
          BY <2>4
        <4>2. req'[r].columns = req[r].columns
          BY <2>6, <2>8
        <4>3. QED
          BY <2>1, <2>5, <4>1, <4>2, Zenon
      <3>4. AtWork(r, job[i])'
        BY <2>4, <2>5, <3>1, <3>2, <3>3 DEF AtWork
      <3>5. QED
        BY <2>10, <3>1, <3>4 DEF CreatesWhole
    <2>13. WholeInv'
      BY <1>0, <2>5, <2>6, <2>7, <2>8, <2>11, <2>12, Working, WorkStep
    <2>14. \A k \in Jobs : JobOfForm(k)'
      <3>1. JobOfForm(i)'
        BY <1>1, <2>1, <2>4, <2>7 DEF JobOfForm, OneForm
      <3>2. \A k \in Jobs \ {i} : JobOfForm(k)'
        BY <1>0, <1>1, <2>7 DEF FormInv, JobOfForm, OneForm
      <3>3. QED
        BY <3>1, <3>2
    <2>15. FormInv'
      BY <1>0, <1>1, <2>1, <2>6, <2>8, <2>14 DEF FormInv, OneForm
    <2>16. QED
      BY <2>9, <2>13, <2>15 DEF WizardInv
  <1>4. QED
    BY <1>2, <1>3 DEF Create

\* A request goes on with the job it is at work on.
LEMMA GoesOn ==
  ASSUME WizardInv, NEW r \in Requests, UNCHANGED <<session, page, forms>>,
         req[r].at \in {"run", "tables"},
         NEW j \in Job, NEW q \in Request,
         job' = [job EXCEPT ![req[r].id] = j], req' = [req EXCEPT ![r] = q],
         j.row = job[req[r].id].row, j.name = job[req[r].id].name,
         j.pair = job[req[r].id].pair,
         j.answered = job[req[r].id].answered,
         q.id = req[r].id, q.at \in {"tables", "run", "save"},
         OneForm(q.copy),
         j.wanted = j.tables \cup ToSet(q.left),
         j.incremental => j.columns = j.tables /\ j.wanted \subseteq q.columns,
         q.at # "tables" => q.left = <<>>
  PROVE  WizardInv'
  <1>0. WizardType /\ FormInv /\ WholeInv
    BY DEF WizardInv
  <1> DEFINE i == req[r].id
  <1>1. i # 0 /\ i \in Jobs /\ AtWork(r, job[i])
    BY <1>0, Working DEF WholeInv, CreatesWhole
  <1>2. job' \in [Jobs -> Job] /\ job'[i] = j /\ \A k \in Jobs \ {i} : job'[k] = job[k]
    BY <1>0, <1>1 DEF WizardType
  <1>3. /\ req' \in [Requests -> Request] /\ req'[r] = q
        /\ \A p \in Requests \ {r} : req'[p] = req[p]
    BY <1>0 DEF WizardType
  <1>4. WizardType'
    BY <1>0, <1>2, <1>3 DEF WizardType
  <1>5. j.row # "new" /\ ~ j.answered
    BY <1>1 DEF AtWork
  <1>6. FormInv'
    <2>1. ASSUME NEW p \in Requests
          PROVE  OneForm(req[p].copy)' /\ (req'[p].at = "create" => req'[p].copy.name # 0)
      BY <1>0, <1>3 DEF FormInv, OneForm
    <2>2. JobOfForm(i)'
      <3>1. JobOfForm(i) /\ job[i].row # "new"
        BY <1>0, <1>1 DEF FormInv, AtWork
      <3>2. job'[i].row # "new" /\ job'[i].name # 0
        BY <1>2, <1>5, <3>1 DEF JobOfForm
      <3>3. OneForm(job[i])'
        BY <1>2, <3>1 DEF JobOfForm, OneForm
      <3>4. i' = i
        BY <1>3
      <3>5. QED
        BY <3>2, <3>3, <3>4 DEF JobOfForm
    <2>3. \A k \in Jobs \ {i} : JobOfForm(k)'
      BY <1>0, <1>2 DEF FormInv, JobOfForm, OneForm
    <2>4. OneForm(session)'
      BY <1>0 DEF FormInv, OneForm
    <2>5. QED
      BY <1>3, <2>1, <2>2, <2>3, <2>4 DEF FormInv
  <1>7. CreatesWhole(r)'
    <2>1. AtWork(r, job[i])'
      BY <1>2, <1>3, <1>5 DEF AtWork
    <2>2. QED
      BY <1>1, <1>3, <2>1 DEF CreatesWhole
  <1>8. \A p \in Requests \ {r} : req[p].id # i
    BY <1>0, <1>1 DEF WholeInv
  <1>9. WholeInv'
    BY <1>0, <1>1, <1>2, <1>3, <1>5, <1>7, <1>8, Working, WorkStep
  <1>10. QED
    BY <1>4, <1>6, <1>9 DEF WizardInv

LEMMA AddTableStep ==
  ASSUME WizardInv, NEW r \in Requests, AddTable(r)
  PROVE  WizardInv'
  <1>0. WizardType /\ FormInv /\ WholeInv
    BY DEF WizardInv
  <1> DEFINE i == req[r].id
             table == Head(req[r].left)
  <1>1. /\ req[r].at = "tables" /\ req[r].left # <<>>
        /\ UNCHANGED <<session, page, forms>>
    BY DEF AddTable
  <1>2. CASE Ends(r) /\ UNCHANGED job
    BY <1>1, <1>2, EndStep
  <1>3. CASE /\ job' = [job EXCEPT
                    ![i].tables = @ \cup {table},
                    ![i].columns = @ \cup ({table} \cap req[r].columns)]
             /\ req' = [req EXCEPT ![r].left = Tail(@)]
    <2>1. i # 0 /\ i \in Jobs /\ AtWork(r, job[i])
      BY <1>0, <1>1, Working DEF WholeInv, CreatesWhole
    <2>2. job[i] \in Job /\ req[r] \in Request /\ req[r].left \in Selections
      BY <1>0, <2>1 DEF WizardType, Request
    <2>3. /\ table \in Tables /\ Tail(req[r].left) \in Selections
          /\ ToSet(req[r].left) = {table} \cup ToSet(Tail(req[r].left))
      BY <1>1, <2>2, HeadAndTail
    <2> DEFINE j == [[job[i] EXCEPT !.tables = @ \cup {table}]
                       EXCEPT !.columns = @ \cup ({table} \cap req[r].columns)]
               q == [req[r] EXCEPT !.left = Tail(@)]
    <2>4. /\ j \in Job /\ j.row = job[i].row /\ j.name = job[i].name
          /\ j.pair = job[i].pair /\ j.answered = job[i].answered
          /\ j.wanted = job[i].wanted /\ j.incremental = job[i].incremental
          /\ j.tables = job[i].tables \cup {table}
          /\ j.columns = job[i].columns \cup ({table} \cap req[r].columns)
      BY <2>2, <2>3 DEF Job
    <2>5. /\ q \in Request /\ q.id = i /\ q.at = "tables" /\ q.copy = req[r].copy
          /\ q.left = Tail(req[r].left) /\ q.columns = req[r].columns
      BY <1>1, <2>2, <2>3 DEF Request
    <2>6. job' = [job EXCEPT ![i] = j] /\ req' = [req EXCEPT ![r] = q]
      BY <1>0, <1>3, <2>1 DEF WizardType
    <2> HIDE DEF j, q
    <2>7. j.wanted = j.tables \cup ToSet(q.left)
      BY <2>1, <2>3, <2>4, <2>5 DEF AtWork
    <2>8. ASSUME j.incremental PROVE j.columns = j.tables /\ j.wanted \subseteq q.columns
      <3>1. /\ job[i].columns = job[i].tables
            /\ job[i].wanted = job[i].tables \cup ToSet(req[r].left)
            /\ job[i].wanted \subseteq req[r].columns
        BY <2>1, <2>4, <2>8 DEF AtWork
      <3>2. table \in req[r].columns
        BY <2>3, <3>1
      <3>3. QED
        BY <2>4, <2>5, <3>1, <3>2
    <2>9. OneForm(q.copy)
      BY <1>0, <2>5 DEF FormInv
    <2>10. QED
      BY <1>1, <2>4, <2>5, <2>6, <2>7, <2>8, <2>9, GoesOn
  <1>4. QED
    BY <1>2, <1>3 DEF AddTable

LEMMA AddScheduleStep ==
  ASSUME WizardInv, NEW r \in Requests, AddSchedule(r)
  PROVE  WizardInv'
  <1>0. WizardType /\ FormInv /\ WholeInv
    BY DEF WizardInv
  <1> DEFINE i == req[r].id
  <1>1. /\ req[r].at = "tables" /\ req[r].left = <<>>
        /\ UNCHANGED <<session, page, forms>>
    BY DEF AddSchedule
  <1>2. i # 0 /\ i \in Jobs /\ AtWork(r, job[i])
    BY <1>0, <1>1, Working DEF WholeInv, CreatesWhole
  <1>3. job[i] \in Job /\ req[r] \in Request
    BY <1>0, <1>2 DEF WizardType
  <1>4. PICK next \in {"run", "save"} :
          req' = [req EXCEPT ![r].copy = NoSession, ![r].at = next]
    BY DEF AddSchedule
  <1> DEFINE q == [[req[r] EXCEPT !.copy = NoSession] EXCEPT !.at = next]
  <1>5. /\ q \in Request /\ q.id = i /\ q.at = next /\ q.copy = NoSession
        /\ q.left = <<>> /\ q.columns = req[r].columns
    BY <1>1, <1>3, Nothings DEF Request
  <1>6. req' = [req EXCEPT ![r] = q]
    BY <1>0, <1>4 DEF WizardType
  <1>7. OneForm(q.copy)
    BY <1>5 DEF OneForm, NoSession
  <1> HIDE DEF q
  <1>8. ASSUME NEW j \in Job, job' = [job EXCEPT ![i] = j],
               j.row = job[i].row, j.name = job[i].name, j.pair = job[i].pair,
               j.answered = job[i].answered, j.wanted = job[i].wanted,
               j.incremental = job[i].incremental, j.tables = job[i].tables,
               j.columns = job[i].columns
        PROVE  WizardInv'
    <2>1. j.wanted = j.tables \cup ToSet(q.left)
      BY <1>1, <1>2, <1>5, <1>8 DEF AtWork
    <2>2. j.incremental => j.columns = j.tables /\ j.wanted \subseteq q.columns
      BY <1>2, <1>5, <1>8 DEF AtWork
    <2>3. QED
      BY <1>1, <1>5, <1>6, <1>7, <1>8, <2>1, <2>2, GoesOn
  <1>9. CASE UNCHANGED job
    <2>1. job' = [job EXCEPT ![i] = job[i]]
      BY <1>0, <1>9 DEF WizardType
    <2>2. QED
      BY <1>3, <1>8, <2>1
  <1>10. CASE job' = [job EXCEPT ![i].schedule = TRUE]
    <2> DEFINE j == [job[i] EXCEPT !.schedule = TRUE]
    <2>1. /\ j \in Job /\ j.row = job[i].row /\ j.name = job[i].name
          /\ j.pair = job[i].pair /\ j.answered = job[i].answered
          /\ j.wanted = job[i].wanted /\ j.incremental = job[i].incremental
          /\ j.tables = job[i].tables /\ j.columns = job[i].columns
      BY <1>3 DEF Job
    <2>2. job' = [job EXCEPT ![i] = j]
      BY <1>10
    <2> HIDE DEF j
    <2>3. QED
      BY <1>8, <2>1, <2>2
  <1>11. QED
    BY <1>9, <1>10 DEF AddSchedule

LEMMA RunOnceStep ==
  ASSUME WizardInv, NEW r \in Requests, RunOnce(r)
  PROVE  WizardInv'
  <1>0. WizardType /\ FormInv /\ WholeInv
    BY DEF WizardInv
  <1> DEFINE i == req[r].id
             q == [req[r] EXCEPT !.at = "save"]
  <1>1. /\ req[r].at = "run" /\ req' = [req EXCEPT ![r] = q]
        /\ UNCHANGED <<session, page, job, forms>>
    BY DEF RunOnce
  <1>2. i # 0 /\ i \in Jobs /\ AtWork(r, job[i])
    BY <1>0, <1>1, Working DEF WholeInv, CreatesWhole
  <1>3. job[i] \in Job /\ req[r] \in Request
    BY <1>0, <1>2 DEF WizardType
  <1>4. /\ q \in Request /\ q.id = i /\ q.at = "save" /\ q.copy = req[r].copy
        /\ q.left = req[r].left /\ q.columns = req[r].columns
    BY <1>3 DEF Request
  <1> HIDE DEF q
  <1>5. job' = [job EXCEPT ![i] = job[i]]
    BY <1>0, <1>1 DEF WizardType
  <1>6. OneForm(q.copy)
    BY <1>0, <1>4 DEF FormInv
  <1>7. /\ job[i].wanted = job[i].tables \cup ToSet(q.left)
        /\ job[i].incremental =>
             job[i].columns = job[i].tables /\ job[i].wanted \subseteq q.columns
        /\ q.left = <<>>
    BY <1>1, <1>2, <1>4 DEF AtWork
  <1>8. QED
    BY <1>1, <1>3, <1>4, <1>5, <1>6, <1>7, GoesOn

\* The answer: the job has nothing left to come.
LEMMA SaveStep ==
  ASSUME WizardInv, NEW r \in Requests, Save(r)
  PROVE  WizardInv'
  <1>0. WizardType /\ FormInv /\ WholeInv
    BY DEF WizardInv
  <1> DEFINE i == req[r].id
  <1>1. /\ req[r].at = "save" /\ session' = req[r].copy
        /\ job' = [k \in Jobs |->
                     IF k = i THEN [job[k] EXCEPT !.answered = TRUE] ELSE job[k]]
        /\ UNCHANGED <<page, forms>>
    BY DEF Save
  <1>2. /\ req' \in [Requests -> Request]
        /\ \A q \in Requests \ {r} : req'[q] = req[q]
        /\ req'[r] = NoReq
    BY <1>0, Ended DEF Save
  <1>3. /\ NoReq.at = "idle" /\ NoReq.id = 0 /\ NoReq.copy = NoSession
    BY DEF NoReq
  <1>4. session' \in Sessions /\ OneForm(session)' /\ OneForm(req[r].copy)'
    BY <1>0, <1>1, <1>2, <1>3 DEF WizardType, Request, FormInv, OneForm, NoSession
  <1>5. ASSUME NEW k \in Jobs
        PROVE  /\ job'[k] \in Job /\ (k # i => job'[k] = job[k])
               /\ job'[k].row = job[k].row /\ job'[k].name = job[k].name
               /\ job'[k].pair = job[k].pair /\ job'[k].tables = job[k].tables
               /\ job'[k].columns = job[k].columns /\ job'[k].wanted = job[k].wanted
               /\ job'[k].incremental = job[k].incremental
    <2>1. job[k] \in Job
      BY <1>0 DEF WizardType
    <2>2. job'[k] = IF k = i THEN [job[k] EXCEPT !.answered = TRUE] ELSE job[k]
      BY <1>1
    <2>3. CASE k = i
      <3> DEFINE old == job[k]
      <3>1. old \in Job /\ job'[k] = [old EXCEPT !.answered = TRUE]
        BY <2>1, <2>2, <2>3
      <3> HIDE DEF old
      <3>2. /\ job'[k] \in Job /\ job'[k].row = old.row /\ job'[k].name = old.name
            /\ job'[k].pair = old.pair /\ job'[k].tables = old.tables
            /\ job'[k].columns = old.columns /\ job'[k].wanted = old.wanted
            /\ job'[k].incremental = old.incremental
        BY <3>1 DEF Job
      <3>3. QED
        BY <2>3, <3>2 DEF old
    <2>4. CASE k # i
      BY <2>1, <2>2, <2>4
    <2>5. QED
      BY <2>3, <2>4
  <1>6. job' \in [Jobs -> Job]
    BY <1>1, <1>5
  <1>7. WizardType'
    BY <1>0, <1>1, <1>2, <1>4, <1>6 DEF WizardType
  <1>8. \A k \in Jobs : job[k].row # "new" =>
          /\ k # i => job'[k] = job[k]
          /\ JobOfForm(k)'
    BY <1>0, <1>1, <1>5 DEF FormInv, JobOfForm, OneForm
  <1>9. i # 0 => i \in Jobs /\ AtWork(r, job[i]) /\ req[r].left = <<>>
    BY <1>0, <1>1, Working DEF WholeInv, CreatesWhole, AtWork
  <1>10. \A k \in Jobs : JobOfForm(k)'
    <2> SUFFICES ASSUME NEW k \in Jobs, job[k].row = "new" PROVE JobOfForm(k)'
      BY <1>8
    <2>1. k # i
      BY <1>9, Nothings DEF AtWork
    <2>2. JobOfForm(k) /\ job'[k] = job[k]
      BY <1>0, <1>5, <2>1 DEF FormInv
    <2>3. QED
      BY <2>2 DEF JobOfForm
  <1>11. FormInv'
    <2>1. ASSUME NEW q \in Requests \ {r}
          PROVE  OneForm(req[q].copy)' /\ (req'[q].at = "create" => req'[q].copy.name # 0)
      BY <1>0, <1>1, <1>2 DEF FormInv, OneForm
    <2>2. QED
      BY <1>2, <1>3, <1>4, <1>10, <2>1 DEF FormInv
  <1>12. WholeInv'
    <2>1. CreatesWhole(r)'
      BY <1>2, <1>3 DEF CreatesWhole
    <2>2. CASE i = 0
      <3>1. \A k \in Jobs : job'[k] = job[k]
        BY <1>5, <2>2, Nothings
      <3>2. UNCHANGED job
        BY <1>0, <1>6, <3>1 DEF WizardType
      <3>3. QED
        BY <1>0, <1>2, <1>3, <3>2, NotAtWork
    <2>3. CASE i # 0
      <3>1. i \in Jobs /\ AtWork(r, job[i]) /\ req[r].left = <<>>
        BY <1>9, <2>3
      <3>2. \A q \in Requests \ {r} : req'[q] = req[q] /\ req[q].id # i
        BY <1>0, <1>2, <2>3 DEF WholeInv
      <3>3. job[i].wanted = job[i].tables
        <4>1. ToSet(req[r].left) = {}
          BY <3>1, ToSetOf
        <4>2. QED
          BY <3>1, <4>1 DEF AtWork
      <3>4. job'[i].tables = job'[i].wanted
            /\ (job'[i].incremental => job'[i].columns = job'[i].wanted)
        BY <1>5, <3>1, <3>3 DEF AtWork
      <3>5. \A k \in Jobs \ {i} : job'[k] = job[k]
        BY <1>5
      <3> HIDE DEF i
      <3>6. req'[r].id \in {0, i}
        BY <1>2, <1>3
      <3>7. QED
        BY <1>0, <2>1, <3>1, <3>2, <3>4, <3>5, <3>6, Working, WorkStep
    <2>4. QED
      BY <2>2, <2>3
  <1>13. QED
    BY <1>7, <1>11, <1>12 DEF WizardInv

\* Jobs go with their connections; a request at work on one finds out later.
LEMMA ConnStepKeeps ==
  ASSUME WizardInv, ConnStep
  PROVE  WizardInv'
  <1>0. WizardType /\ FormInv /\ WholeInv
    BY DEF WizardInv
  <1>1. UNCHANGED <<session, page, req, forms>>
    BY DEF ConnStep
  <1>2. ASSUME NEW k \in Jobs
        PROVE  \/ job'[k] = job[k]
               \/ /\ job'[k] = [job[k] EXCEPT !.row = "gone"]
                  /\ job[k].row = "there"
    BY DEF ConnStep
  <1>3. ASSUME NEW k \in Jobs
        PROVE  /\ job'[k] \in Job
               /\ job[k].row = "new" <=> job'[k].row = "new"
               /\ job[k].row = "new" => job'[k] = job[k]
               /\ job'[k].row = "there" => job[k].row = "there"
               /\ job'[k].name = job[k].name
               /\ job'[k].pair = job[k].pair /\ job'[k].tables = job[k].tables
               /\ job'[k].columns = job[k].columns /\ job'[k].wanted = job[k].wanted
               /\ job'[k].incremental = job[k].incremental
               /\ job'[k].answered = job[k].answered
    <2>1. job[k] \in Job
      BY <1>0 DEF WizardType
    <2>2. CASE job'[k] = job[k]
      BY <2>1, <2>2
    <2>3. CASE job[k].row = "there" /\ job'[k] = [job[k] EXCEPT !.row = "gone"]
      BY <2>1, <2>3 DEF Job
    <2>4. QED
      BY <1>2, <2>2, <2>3
  <1>4. job' \in [Jobs -> Job]
    <2>1. job' = [k \in Jobs |-> job'[k]]
      BY DEF ConnStep
    <2>2. QED
      BY <1>3, <2>1
  <1>5. WizardType'
    BY <1>0, <1>1, <1>4 DEF WizardType
  <1>6. \A k \in Jobs : JobOfForm(k)'
    BY <1>0, <1>1, <1>3 DEF FormInv, JobOfForm, OneForm
  <1>7. FormInv'
    BY <1>0, <1>1, <1>6 DEF FormInv, OneForm
  <1>8. ASSUME NEW r \in Requests
        PROVE  CreatesWhole(r)'
    <2>1. CreatesWhole(r) /\ req'[r] = req[r]
      BY <1>0, <1>1 DEF WholeInv
    <2>2. CASE req[r].id = 0
      BY <2>1, <2>2 DEF CreatesWhole
    <2>3. CASE req[r].id # 0
      <3> DEFINE i == req[r].id
      <3>1. i \in Jobs /\ AtWork(r, job[i])
        BY <1>0, <2>1, <2>3, Working DEF CreatesWhole
      <3>2. AtWork(r, job[i])'
        BY <1>3, <2>1, <3>1 DEF AtWork
      <3>3. QED
        BY <2>1, <3>2 DEF CreatesWhole
    <2>4. QED
      BY <2>2, <2>3
  <1>9. JobIsWhole'
    BY <1>0, <1>3 DEF WholeInv, JobIsWhole
  <1>10. WholeInv'
    BY <1>0, <1>1, <1>8, <1>9 DEF WholeInv
  <1>11. QED
    BY <1>5, <1>7, <1>10 DEF WizardInv

----------------------------------------------------------------------------

LEMMA WizardStart == Init => WizardInv
  <1> SUFFICES ASSUME Init PROVE WizardInv
    OBVIOUS
  <1>1. /\ session = NoSession /\ page = [t \in Tabs |-> Closed]
        /\ req = [r \in Requests |-> NoReq] /\ job = [i \in Jobs |-> NoJob]
        /\ forms = [f \in Names |-> NoPair]
    BY DEF Init
  <1>2. /\ NoReq.at = "idle" /\ NoReq.id = 0 /\ NoReq.copy = NoSession
        /\ NoJob.row = "new" /\ NoSession.name = 0 /\ NoSession.pair = NoPair
    BY DEF NoReq, NoJob, NoSession
  <1>3. WizardType
    BY <1>1, Nothings DEF WizardType, Closed
  <1>4. FormInv
    BY <1>1, <1>2 DEF FormInv, OneForm, JobOfForm
  <1>5. WholeInv
    BY <1>1, <1>2 DEF WholeInv, CreatesWhole, JobIsWhole
  <1>6. QED
    BY <1>3, <1>4, <1>5 DEF WizardInv

LEMMA WizardStep == WizardInv /\ [Next]_vars => WizardInv'
  <1> SUFFICES ASSUME WizardInv, [Next]_vars PROVE WizardInv'
    OBVIOUS
  <1>1. CASE UNCHANGED vars
    BY <1>1 DEF vars, wizardVars, WizardInv, WizardType, FormInv, WholeInv, OneForm,
                JobOfForm, CreatesWhole, AtWork, JobIsWhole
  <1>2. ASSUME NEW r \in Requests, Fail(r)
        PROVE  WizardInv'
    BY <1>2, EndStep DEF Fail
  <1>3. QED
    BY <1>1, <1>2, Submit1Step, Submit2Step, Submit3Step, PageStep, CreateStep,
       AddTableStep, AddScheduleStep, RunOnceStep, SaveStep, ConnStepKeeps DEF Next

LEMMA WizardKept == Spec => []WizardInv
  BY WizardStart, WizardStep, PTL DEF Spec

\* Name, source and target of every job come from one form.
THEOREM JobOneForm == Spec => []JobIsOneForm
  <1>1. WizardInv => JobIsOneForm
    BY DEF WizardInv, FormInv, JobOfForm, OneForm, JobIsOneForm
  <1>2. QED
    BY <1>1, WizardKept, PTL

\* A job whose creation was answered has every table, and with incremental sync
\* every column, that it was to have.
THEOREM JobWhole == Spec => []JobIsWhole
  <1>1. WizardInv => JobIsWhole
    BY DEF WizardInv, WholeInv
  <1>2. QED
    BY <1>1, WizardKept, PTL
----------------------------------------------------------------------------
(* Twins.  A name that no two requests were at work on at the same time is  *)
(* used by one request at a time, and by none once a job of it is answered. *)

Uses(r, f) == req[r].name = f \/ req[r].copy.name = f

\* The names that a request has, and its job.
Named(r) ==
  /\ req[r].at = "idle" => req[r].name = 0 /\ req[r].copy.name = 0
  /\ req[r].at = "create" => req[r].copy.name = req[r].name
  /\ req[r].at \in {"run", "save"} /\ req[r].id # 0 => req[r].copy.name = 0
  /\ req[r].id # 0 => job[req[r].id].name = req[r].name
  /\ req[r].name # 0 => req[r].name \in Names /\ forms[req[r].name] # NoPair

Answered(i, f) == job[i].answered /\ job[i].row # "new" /\ job[i].name = f

\* A first step that brings a name is the only one to have it.
Alone(f) ==
  /\ \A q, r \in Requests : q # r /\ Uses(q, f) => ~ Uses(r, f)
  /\ \A r \in Requests : req[r].copy.name = f /\ req[r].name # f => session.name # f
  /\ \A i \in Jobs : Answered(i, f) =>
       /\ session.name # f
       /\ \A r \in Requests : ~ Uses(r, f)
       /\ \A k \in Jobs : Answered(k, f) => k = i

TwinInv ==
  /\ raced \subseteq Names
  /\ \A r \in Requests : Named(r)
  /\ \A i \in Jobs : job[i].answered => job[i].row # "new"
  /\ \A f \in Names \ raced : Alone(f)

\* A name that no form has is used nowhere.
LEMMA FreshName ==
  ASSUME WizardInv, TwinInv, NEW f \in Names, forms[f] = NoPair
  PROVE  /\ session.name # f
         /\ \A r \in Requests : ~ Uses(r, f)
         /\ \A i \in Jobs : ~ Answered(i, f)
  <1>1. f # 0 /\ NoPair \notin Pair
    BY Nothings
  <1>2. \A s : OneForm(s) => s.name # f
    BY <1>1 DEF OneForm
  <1>3. \A r \in Requests : req[r].name # f
    BY <1>1 DEF TwinInv, Named
  <1>4. \A i \in Jobs : ~ Answered(i, f)
    BY <1>2 DEF WizardInv, FormInv, JobOfForm, Answered
  <1>5. QED
    BY <1>2, <1>3, <1>4 DEF WizardInv, FormInv, Uses

\* Whoever loads a name is alone with it, or it is remembered as raced.
LEMMA LoadedName ==
  ASSUME WizardInv, TwinInv, NEW r \in Requests, NEW f \in Request, Loads(r, f)
  PROVE  /\ req'[r].name = session.name
         /\ raced \subseteq raced' /\ raced' \subseteq Names
         /\ session.name # 0 => session.name \in Names /\ forms[session.name] # NoPair
         /\ session.name # 0 /\ session.name \notin raced' =>
              \A q \in Requests : req[q].name # session.name
  <1>1. /\ WizardType /\ session.name \in 0..MaxForms /\ OneForm(session)
        /\ raced \subseteq Names
    BY DEF WizardInv, WizardType, Sessions, FormInv, TwinInv
  <1>2. req'[r].name = session.name
    <2>1. req'[r] = [f EXCEPT !.name = session.name]
      BY <1>1 DEF Loads, WizardType
    <2>2. QED
      BY <2>1 DEF Request
  <1>3. session.name # 0 => session.name \in Names /\ forms[session.name] # NoPair
    BY <1>1, Nothings, BoundsAssumption DEF OneForm, Names
  <1>4. raced' = IF \E q \in Requests :
                      req[q].at # "idle" /\ req[q].name = session.name
                   THEN (raced \cup {session.name}) \ {0} ELSE raced
    BY DEF Loads
  <1>5. raced \subseteq raced' /\ raced' \subseteq Names
    BY <1>1, <1>3, <1>4, Nothings
  <1>6. ASSUME session.name # 0, session.name \notin raced', NEW q \in Requests
        PROVE  req[q].name # session.name
    BY <1>4, <1>6 DEF TwinInv, Named
  <1>7. QED
    BY <1>2, <1>3, <1>5, <1>6

\* A request begins, with a copy of the session or with a first step.
LEMMA BeginsAlone ==
  ASSUME WizardInv, TwinInv, NEW r \in Requests, NEW f \in Request, Loads(r, f),
         f.id = 0, f.at \in {"save", "create"},
         UNCHANGED <<session, job>>,
         \A g \in Names : forms[g] # NoPair => forms'[g] # NoPair,
         \/ f.copy.name = session.name
         \/ /\ f.at = "save" /\ f.copy.name \in Names
            /\ forms[f.copy.name] = NoPair
  PROVE  TwinInv'
  <1> DEFINE c == f.copy.name
  <1>0. WizardType
    BY DEF WizardInv
  <1>1. /\ \A q \in Requests \ {r} : req'[q] = req[q]
        /\ req'[r].at = f.at /\ req'[r].copy = f.copy /\ req'[r].id = 0
    BY <1>0, Loaded
  <1>2. /\ req'[r].name = session.name
        /\ raced \subseteq raced' /\ raced' \subseteq Names
        /\ session.name # 0 => session.name \in Names /\ forms[session.name] # NoPair
        /\ session.name # 0 /\ session.name \notin raced' =>
             \A q \in Requests : req[q].name # session.name
    BY LoadedName
  <1>3. Named(r)'
    BY <1>1, <1>2, Nothings DEF Named
  <1>4. \A q \in Requests \ {r} : Named(q)'
    BY <1>1 DEF TwinInv, Named
  <1>5. \A i \in Jobs : job'[i].answered => job'[i].row # "new"
    BY DEF TwinInv
  <1>6. ASSUME NEW g \in Names \ raced'
        PROVE  Alone(g)'
    <2>1. Alone(g) /\ g # 0
      BY <1>2, Nothings DEF TwinInv
    <2>2. \A q \in Requests \ {r} : (Uses(q, g)' <=> Uses(q, g))
      BY <1>1 DEF Uses
    <2>3. Uses(r, g)' => \A q \in Requests \ {r} : ~ Uses(q, g)
      <3>1. CASE session.name = g
        <4>1. \A q \in Requests : req[q].name # g
          BY <1>2, <2>1, <3>1
        <4>2. QED
          BY <2>1, <3>1, <4>1 DEF Alone, Uses
      <3>2. CASE session.name # g
        <4>1. Uses(r, g)' => c = g
          BY <1>1, <1>2, <3>2 DEF Uses
        <4>2. c = g => forms[g] = NoPair
          BY <3>2
        <4>3. QED
          BY <4>1, <4>2, FreshName
      <3>3. QED
        BY <3>1, <3>2
    <2>4. \A i \in Jobs : Answered(i, g)' => Answered(i, g) /\ ~ Uses(r, g)'
      <3> SUFFICES ASSUME NEW i \in Jobs, Answered(i, g)'
                   PROVE  Answered(i, g) /\ ~ Uses(r, g)'
        OBVIOUS
      <3>1. Answered(i, g)
        BY DEF Answered
      <3>2. session.name # g
        BY <2>1, <3>1 DEF Alone
      <3>3. c # g
        BY <3>1, <3>2, FreshName
      <3>4. QED
        BY <1>1, <1>2, <3>1, <3>2, <3>3 DEF Uses
    <2>5. \A p, q \in Requests : p # q /\ Uses(p, g)' => ~ Uses(q, g)'
      BY <2>1, <2>2, <2>3 DEF Alone
    <2>6. ASSUME NEW q \in Requests, req'[q].copy.name = g, req'[q].name # g
          PROVE  session'.name # g
      BY <1>1, <1>2, <2>1, <2>6 DEF Alone
    <2>7. ASSUME NEW i \in Jobs, Answered(i, g)'
          PROVE  /\ session'.name # g
                 /\ \A q \in Requests : ~ Uses(q, g)'
                 /\ \A k \in Jobs : Answered(k, g)' => k = i
      BY <2>1, <2>2, <2>4, <2>7 DEF Alone
    <2>8. QED
      BY <2>5, <2>6, <2>7 DEF Alone
  <1>7. QED
    BY <1>2, <1>3, <1>4, <1>5, <1>6 DEF TwinInv

\* A request goes on or ends, and no job is answered.
LEMMA GoesOnAlone ==
  ASSUME TwinInv, UNCHANGED <<session, raced>>,
         \A q \in Requests :
           \/ /\ req'[q].name = req[q].name
              /\ req'[q].copy.name \in {req[q].copy.name, 0}
           \/ req'[q].name = 0 /\ req'[q].copy.name = 0,
         \A i \in Jobs : job'[i].answered =>
           job[i].answered /\ job'[i].row # "new" /\ job'[i].name = job[i].name,
         \A q \in Requests : Named(q)'
  PROVE  TwinInv'
  <1>1. ASSUME NEW f \in Names \ raced
        PROVE  Alone(f)'
    <2>1. Alone(f) /\ f # 0
      BY Nothings DEF TwinInv
    <2>2. \A q \in Requests :
            /\ Uses(q, f)' => Uses(q, f)
            /\ req'[q].copy.name = f /\ req'[q].name # f =>
                 req[q].copy.name = f /\ req[q].name # f
      BY <2>1 DEF Uses
    <2>3. \A i \in Jobs : Answered(i, f)' => Answered(i, f)
      BY DEF Answered, TwinInv
    <2>4. QED
      BY <2>1, <2>2, <2>3 DEF Alone
  <1>2. \A i \in Jobs : job'[i].answered => job'[i].row # "new"
    OBVIOUS
  <1>3. QED
    BY <1>1, <1>2 DEF TwinInv

LEMMA EndsAlone ==
  ASSUME WizardInv, TwinInv, NEW r \in Requests, Ends(r),
         UNCHANGED <<session, job, forms, raced>>
  PROVE  TwinInv'
  <1>1. WizardType
    BY DEF WizardInv
  <1>2. /\ \A q \in Requests \ {r} : req'[q] = req[q]
        /\ req'[r] = NoReq
    BY <1>1, Ended
  <1>3. NoReq.at = "idle" /\ NoReq.name = 0 /\ NoReq.copy.name = 0 /\ NoReq.id = 0
    BY DEF NoReq, NoSession
  <1>4. \A q \in Requests : Named(q)'
    BY <1>2, <1>3 DEF TwinInv, Named
  <1>5. \A i \in Jobs : job'[i].answered => job'[i].row # "new"
    BY DEF TwinInv
  <1>6. QED
    BY <1>2, <1>3, <1>4, <1>5, GoesOnAlone

\* A request goes on with the job it is at work on.
LEMMA WorksAlone ==
  ASSUME TwinInv, NEW r \in Requests, UNCHANGED <<session, forms, raced>>,
         \A q \in Requests \ {r} : req'[q] = req[q],
         req'[r].name = req[r].name,
         req'[r].copy.name \in {req[r].copy.name, 0},
         req'[r].at \in {"tables", "run", "save"},
         req'[r].at # "tables" => req'[r].copy.name = 0,
         req'[r].id \in Jobs, job'[req'[r].id].name = req[r].name,
         \A q \in Requests \ {r} :
           req[q].id # 0 => job'[req[q].id].name = job[req[q].id].name,
         \A i \in Jobs : job'[i].answered =>
           job[i].answered /\ job'[i].row # "new" /\ job'[i].name = job[i].name
  PROVE  TwinInv'
  <1>1. Named(r)'
    BY DEF TwinInv, Named
  <1>2. \A q \in Requests \ {r} : Named(q)'
    BY DEF TwinInv, Named
  <1>3. \A q \in Requests : Named(q)'
    BY <1>1, <1>2
  <1>4. \A q \in Requests :
          req'[q].name = req[q].name /\ req'[q].copy.name \in {req[q].copy.name, 0}
    OBVIOUS
  <1>5. QED
    BY <1>3, <1>4, GoesOnAlone

LEMMA CreateAlone ==
  ASSUME WizardInv, TwinInv, NEW r \in Requests, Create(r)
  PROVE  TwinInv'
  <1>0. WizardType /\ FormInv /\ WholeInv
    BY DEF WizardInv
  <1>1. UNCHANGED <<session, page, forms, raced>> /\ req[r].at = "create"
    BY DEF Create
  <1>2. CASE Ends(r) /\ UNCHANGED job
    BY <1>1, <1>2, EndsAlone
  <1>3. ASSUME NEW i \in Jobs,
               job[i].row = "new",
               job' = [job EXCEPT ![i] =
                 [NoJob EXCEPT !.row = "there", !.name = req[r].copy.name,
                    !.pair = req[r].copy.pair, !.wanted = ToSet(req[r].copy.tables),
                    !.incremental = req[r].incremental]],
               req' = [req EXCEPT ![r].at = "tables", ![r].id = i,
                         ![r].left = req[r].copy.tables]
        PROVE  TwinInv'
    <2>1. /\ job'[i].name = req[r].copy.name /\ ~ job'[i].answered
          /\ \A k \in Jobs \ {i} : job'[k] = job[k]
      BY <1>0, <1>3 DEF WizardType, NoJob
    <2>2. /\ \A q \in Requests \ {r} : req'[q] = req[q]
          /\ req'[r].at = "tables" /\ req'[r].id = i
          /\ req'[r].name = req[r].name /\ req'[r].copy = req[r].copy
      <3>1. req[r] \in Request
        BY <1>0 DEF WizardType
      <3>2. req'[r] = [req[r] EXCEPT !.at = "tables", !.id = i,
                         !.left = req[r].copy.tables]
        BY <1>0, <1>3 DEF WizardType
      <3>3. \A q \in Requests \ {r} : req'[q] = req[q]
        BY <1>0, <1>3 DEF WizardType
      <3> DEFINE old == req[r]
      <3>4. old \in Request /\ req'[r] = [old EXCEPT !.at = "tables", !.id = i,
                                           !.left = old.copy.tables]
        BY <3>1, <3>2
      <3> HIDE DEF old
      <3>5. /\ req'[r].at = "tables" /\ req'[r].id = i
            /\ req'[r].name = old.name /\ req'[r].copy = old.copy
        BY <3>4 DEF Request
      <3>6. QED
        BY <3>3, <3>5 DEF old
    <2>3. req[r].copy.name = req[r].name
      BY <1>1 DEF TwinInv, Named
    <2>4. \A q \in Requests : req[q].id # 0 => req[q].id \in Jobs \ {i}
      <3> SUFFICES ASSUME NEW q \in Requests, req[q].id # 0
                   PROVE  req[q].id \in Jobs \ {i}
        OBVIOUS
      <3>1. AtWork(q, job[req[q].id])
        BY <1>0 DEF WholeInv, CreatesWhole
      <3>2. QED
        BY <1>3, <3>1, Working DEF AtWork
    <2>5. \A k \in Jobs : job'[k].answered =>
            job[k].answered /\ job'[k].row # "new" /\ job'[k].name = job[k].name
      BY <2>1 DEF TwinInv
    <2>6. QED
      BY <1>1, <2>1, <2>2, <2>3, <2>4, <2>5, WorksAlone
  <1>4. QED
    BY <1>2, <1>3 DEF Create

\* What is stored of a job while its tables and its schedule are.
LEMMA PartsAlone ==
  ASSUME WizardInv, TwinInv, NEW r \in Requests,
         UNCHANGED <<session, forms, raced>>,
         req[r].id # 0,
         \A q \in Requests \ {r} : req'[q] = req[q],
         req'[r].name = req[r].name, req'[r].id = req[r].id,
         req'[r].copy.name \in {req[r].copy.name, 0},
         req'[r].at \in {"tables", "run", "save"},
         req'[r].at # "tables" => req'[r].copy.name = 0,
         \A i \in Jobs : /\ job'[i].answered = job[i].answered
                         /\ job'[i].row = job[i].row
                         /\ job'[i].name = job[i].name
  PROVE  TwinInv'
  <1>1. \A q \in Requests : req[q].id # 0 => req[q].id \in Jobs
    BY Working
  <1>2. job[req[r].id].name = req[r].name
    BY DEF TwinInv, Named
  <1>3. \A i \in Jobs : job'[i].answered =>
          job[i].answered /\ job'[i].row # "new" /\ job'[i].name = job[i].name
    BY DEF TwinInv
  <1>4. QED
    BY <1>1, <1>2, <1>3, WorksAlone

LEMMA AddTableAlone ==
  ASSUME WizardInv, TwinInv, NEW r \in Requests, AddTable(r)
  PROVE  TwinInv'
  <1>0. WizardType /\ WholeInv
    BY DEF WizardInv
  <1> DEFINE i == req[r].id
             table == Head(req[r].left)
  <1>1. req[r].at = "tables" /\ UNCHANGED <<session, forms, raced>>
    BY DEF AddTable
  <1>2. CASE Ends(r) /\ UNCHANGED job
    BY <1>1, <1>2, EndsAlone
  <1>3. CASE /\ job' = [job EXCEPT
                    ![i].tables = @ \cup {table},
                    ![i].columns = @ \cup ({table} \cap req[r].columns)]
             /\ req' = [req EXCEPT ![r].left = Tail(@)]
    <2>1. i # 0 /\ i \in Jobs
      BY <1>0, <1>1, Working DEF WholeInv, CreatesWhole
    <2>2. job \in [Jobs -> Job] /\ req \in [Requests -> Request]
      BY <1>0 DEF WizardType
    <2>3. /\ job'[i] = [[job[i] EXCEPT !.tables = @ \cup {table}]
                         EXCEPT !.columns = @ \cup ({table} \cap req[r].columns)]
          /\ \A k \in Jobs \ {i} : job'[k] = job[k]
      BY <1>3, <2>1, <2>2
    <2>4. /\ job'[i].answered = job[i].answered /\ job'[i].row = job[i].row
          /\ job'[i].name = job[i].name
      <3>1. job[i] \in Job
        BY <2>1, <2>2
      <3>2. QED
        BY <2>3, <3>1 DEF Job
    <2>5. /\ req'[r] = [req[r] EXCEPT !.left = Tail(@)]
          /\ \A q \in Requests \ {r} : req'[q] = req[q]
      BY <1>3, <2>2
    <2>6. /\ req'[r].name = req[r].name /\ req'[r].id = req[r].id
          /\ req'[r].copy = req[r].copy /\ req'[r].at = "tables"
      BY <1>1, <2>2, <2>5 DEF Request
    <2>7. QED
      BY <1>1, <2>1, <2>3, <2>4, <2>5, <2>6, PartsAlone
  <1>4. QED
    BY <1>2, <1>3 DEF AddTable

LEMMA AddScheduleAlone ==
  ASSUME WizardInv, TwinInv, NEW r \in Requests, AddSchedule(r)
  PROVE  TwinInv'
  <1>0. WizardType /\ WholeInv
    BY DEF WizardInv
  <1> DEFINE i == req[r].id
  <1>1. req[r].at = "tables" /\ UNCHANGED <<session, forms, raced>>
    BY DEF AddSchedule
  <1>2. i # 0 /\ i \in Jobs
    BY <1>0, <1>1, Working DEF WholeInv, CreatesWhole
  <1>3. job \in [Jobs -> Job] /\ req \in [Requests -> Request]
    BY <1>0 DEF WizardType
  <1>4. PICK next \in {"run", "save"} :
          req' = [req EXCEPT ![r].copy = NoSession, ![r].at = next]
    BY DEF AddSchedule
  <1>5. /\ req'[r] = [req[r] EXCEPT !.copy = NoSession, !.at = next]
        /\ \A q \in Requests \ {r} : req'[q] = req[q]
    BY <1>3, <1>4
  <1>6. /\ req'[r].name = req[r].name /\ req'[r].id = req[r].id
        /\ req'[r].copy = NoSession /\ req'[r].at \in {"run", "save"}
    BY <1>3, <1>5 DEF Request
  <1>7. \A k \in Jobs : /\ job'[k].answered = job[k].answered
                        /\ job'[k].row = job[k].row
                        /\ job'[k].name = job[k].name
    <2>1. CASE UNCHANGED job
      BY <2>1
    <2>2. CASE job' = [job EXCEPT ![i].schedule = TRUE]
      <3> SUFFICES ASSUME NEW k \in Jobs
                   PROVE  /\ job'[k].answered = job[k].answered
                          /\ job'[k].row = job[k].row /\ job'[k].name = job[k].name
        OBVIOUS
      <3>1. job[k] \in Job
        BY <1>3
      <3>2. job'[k] = job[k] \/ job'[k] = [job[k] EXCEPT !.schedule = TRUE]
        BY <1>2, <1>3, <2>2
      <3>3. QED
        BY <3>1, <3>2 DEF Job
    <2>3. QED
      BY <2>1, <2>2 DEF AddSchedule
  <1>8. NoSession.name = 0
    BY DEF NoSession
  <1>9. QED
    BY <1>1, <1>2, <1>5, <1>6, <1>7, <1>8, PartsAlone

LEMMA RunOnceAlone ==
  ASSUME WizardInv, TwinInv, NEW r \in Requests, RunOnce(r)
  PROVE  TwinInv'
  <1>0. WizardType /\ WholeInv
    BY DEF WizardInv
  <1>1. /\ req[r].at = "run" /\ UNCHANGED <<session, forms, raced, job>>
        /\ req' = [req EXCEPT ![r].at = "save"]
    BY DEF RunOnce
  <1>2. req \in [Requests -> Request] /\ req[r].id # 0
    BY <1>0, <1>1 DEF WizardType, WholeInv, CreatesWhole
  <1>3. /\ req'[r] = [req[r] EXCEPT !.at = "save"]
        /\ \A q \in Requests \ {r} : req'[q] = req[q]
    BY <1>1, <1>2
  <1>4. /\ req'[r].name = req[r].name /\ req'[r].id = req[r].id
        /\ req'[r].copy = req[r].copy /\ req'[r].at = "save"
    BY <1>2, <1>3 DEF Request
  <1>5. req[r].copy.name = 0
    BY <1>1, <1>2 DEF TwinInv, Named
  <1>6. QED
    BY <1>1, <1>2, <1>3, <1>4, <1>5, PartsAlone

\* The answer: the session has lost the name, and no request has it.
LEMMA SaveAlone ==
  ASSUME WizardInv, TwinInv, NEW r \in Requests, Save(r)
  PROVE  TwinInv'
  <1>0. WizardType /\ FormInv /\ WholeInv
    BY DEF WizardInv
  <1> DEFINE i == req[r].id
  <1>1. /\ req[r].at = "save" /\ session' = req[r].copy
        /\ job' = [k \in Jobs |->
                     IF k = i THEN [job[k] EXCEPT !.answered = TRUE] ELSE job[k]]
        /\ UNCHANGED <<forms, raced>>
    BY DEF Save
  <1>2. /\ \A q \in Requests \ {r} : req'[q] = req[q]
        /\ req'[r] = NoReq
    BY <1>0, Ended DEF Save
  <1>3. NoReq.at = "idle" /\ NoReq.name = 0 /\ NoReq.copy.name = 0 /\ NoReq.id = 0
    BY DEF NoReq, NoSession
  <1>4. ASSUME NEW k \in Jobs
        PROVE  /\ job'[k].row = job[k].row /\ job'[k].name = job[k].name
               /\ job'[k].answered => job[k].answered \/ k = i
    <2>1. job[k] \in Job
      BY <1>0 DEF WizardType
    <2>2. job'[k] = job[k] \/ (k = i /\ job'[k] = [job[k] EXCEPT !.answered = TRUE])
      BY <1>1
    <2>3. QED
      BY <2>1, <2>2 DEF Job
  <1>5. i # 0 => /\ i \in Jobs /\ job[i].row # "new"
                 /\ job[i].name = req[r].name /\ req[r].copy.name = 0
    BY <1>0, <1>1, Working DEF WholeInv, CreatesWhole, AtWork, TwinInv, Named
  <1>6. ASSUME NEW q \in Requests
        PROVE  Named(q)'
    <2>1. CASE q = r
      BY <1>2, <1>3, <2>1 DEF Named
    <2>2. CASE q # r
      <3>1. Named(q) /\ req'[q] = req[q]
        BY <1>2, <2>2 DEF TwinInv
      <3>2. req[q].id # 0 => job'[req[q].id].name = job[req[q].id].name
        BY <1>4, Working
      <3>3. QED
        BY <1>1, <3>1, <3>2 DEF Named
    <2>3. QED
      BY <2>1, <2>2
  <1>7. \A k \in Jobs : job'[k].answered => job'[k].row # "new"
    BY <1>4, <1>5, Nothings DEF TwinInv
  <1>8. ASSUME NEW f \in Names \ raced
        PROVE  Alone(f)'
    <2>1. Alone(f) /\ f # 0
      BY Nothings DEF TwinInv
    <2>2. ~ Uses(r, f)' /\ \A q \in Requests \ {r} : Uses(q, f)' <=> Uses(q, f)
      BY <1>2, <1>3, <2>1 DEF Uses
    <2>3. ASSUME NEW q \in Requests, req'[q].copy.name = f, req'[q].name # f
          PROVE  session'.name # f
      <3>1. q # r /\ Uses(q, f)
        BY <1>2, <1>3, <2>1, <2>3 DEF Uses
      <3>2. ~ Uses(r, f)
        BY <2>1, <3>1 DEF Alone
      <3>3. QED
        BY <1>1, <3>2 DEF Uses
    <2>4. ASSUME NEW k \in Jobs, Answered(k, f)'
          PROVE  /\ session'.name # f
                 /\ \A q \in Requests : ~ Uses(q, f)'
                 /\ \A m \in Jobs : Answered(m, f)' => m = k
      <3>1. \A m \in Jobs : Answered(m, f)' =>
              Answered(m, f) \/ (m = i /\ Uses(r, f) /\ req[r].copy.name = 0)
        BY <1>4, <1>5, Nothings DEF Answered, Uses
      <3>2. CASE Answered(k, f)
        BY <1>1, <2>1, <2>2, <3>1, <3>2 DEF Alone, Uses
      <3>3. CASE k = i /\ Uses(r, f) /\ req[r].copy.name = 0
        <4>1. session'.name # f
          BY <1>1, <2>1, <3>3
        <4>2. \A q \in Requests : ~ Uses(q, f)'
          BY <2>1, <2>2, <3>3 DEF Alone
        <4>3. \A m \in Jobs : ~ Answered(m, f)
          BY <2>1, <3>3 DEF Alone
        <4>4. QED
          BY <3>1, <3>3, <4>1, <4>2, <4>3
      <3>4. QED
        BY <2>4, <3>1, <3>2, <3>3
    <2>5. \A p, q \in Requests : p # q /\ Uses(p, f)' => ~ Uses(q, f)'
      BY <2>1, <2>2 DEF Alone
    <2>6. QED
      BY <2>3, <2>4, <2>5 DEF Alone
  <1>9. raced' \subseteq Names
    BY <1>1 DEF TwinInv
  <1>10. QED
    BY <1>1, <1>6, <1>7, <1>8, <1>9 DEF TwinInv

\* The three steps of the wizard.
LEMMA SubmitAlone ==
  ASSUME WizardInv, TwinInv, NEW r \in Requests,
         \/ \E c, d \in Conns : Submit1(r, c, d)
         \/ \E t \in Tabs, ticked \in Ticked : Submit2(r, t, ticked)
         \/ \E t \in Tabs, incremental \in BOOLEAN : Submit3(r, t, incremental)
  PROVE  TwinInv'
  <1>0. WizardType /\ session \in Sessions /\ NoReq \in Request /\ NoReq.id = 0
    BY Nothings DEF WizardInv, WizardType, NoReq
  <1>1. ASSUME NEW c \in Conns, NEW d \in Conns, Submit1(r, c, d)
        PROVE  TwinInv'
    <2>1. PICK f \in Names :
            /\ forms[f] = NoPair
            /\ forms' = [forms EXCEPT ![f] = [source |-> c, target |-> d]]
            /\ Loads(r, [NoReq EXCEPT !.at = "save",
                           !.copy = [session EXCEPT !.name = f, !.pair = forms'[f]]])
      BY <1>1 DEF Submit1
    <2> DEFINE pair == [source |-> c, target |-> d]
               copy == [session EXCEPT !.name = f, !.pair = pair]
               n == [NoReq EXCEPT !.at = "save", !.copy = copy]
    <2>2. /\ pair \in Pair /\ forms'[f] = pair
          /\ \A g \in Names \ {f} : forms'[g] = forms[g]
      BY <1>0, <2>1 DEF Pair, WizardType
    <2>3. f \in 0..MaxForms
      BY BoundsAssumption DEF Names
    <2>4. copy \in Sessions /\ copy.name = f
      BY <1>0, <2>2, <2>3 DEF Sessions
    <2>5. Loads(r, n)
      BY <2>1, <2>2
    <2> HIDE DEF pair, copy
    <2>6. n \in Request /\ n.at = "save" /\ n.copy = copy /\ n.id = 0
      BY <1>0, <2>4 DEF Request
    <2> HIDE DEF n
    <2>7. \A g \in Names : forms[g] # NoPair => forms'[g] # NoPair
      BY <2>1, <2>2
    <2>8. UNCHANGED <<session, job>>
      BY <1>1 DEF Submit1
    <2>9. QED
      BY <2>1, <2>4, <2>5, <2>6, <2>7, <2>8, BeginsAlone
  <1>2. ASSUME NEW t \in Tabs, NEW ticked \in Ticked, Submit2(r, t, ticked)
        PROVE  TwinInv'
    <2> DEFINE inputs == page[t].inputs \o ticked
               copy == [session EXCEPT !.tables = inputs]
               n == [NoReq EXCEPT !.at = "save", !.copy = copy]
    <2>1. Loads(r, n) /\ UNCHANGED <<session, job, forms>>
      BY <1>2 DEF Submit2
    <2>2. inputs \in Selections
      BY <1>0, TickedSeq DEF WizardType
    <2> HIDE DEF inputs
    <2>3. copy \in Sessions /\ copy.name = session.name
      BY <1>0, <2>2 DEF Sessions
    <2> HIDE DEF copy
    <2>4. n \in Request /\ n.at = "save" /\ n.copy = copy /\ n.id = 0
      BY <1>0, <2>3 DEF Request
    <2> HIDE DEF n
    <2>5. QED
      BY <2>1, <2>3, <2>4, BeginsAlone
  <1>3. ASSUME NEW t \in Tabs, NEW incremental \in BOOLEAN,
               Submit3(r, t, incremental)
        PROVE  TwinInv'
    <2> DEFINE posted == IF incremental THEN ToSet(page[t].inputs) ELSE {}
               m == [NoReq EXCEPT !.at = "create", !.copy = session]
               n == [m EXCEPT !.incremental = incremental, !.columns = posted]
    <2>1. Loads(r, n) /\ UNCHANGED <<session, job, forms>>
      BY <1>3 DEF Submit3
    <2>2. page[t].inputs \in Selections
      BY <1>0 DEF WizardType
    <2>3. posted \subseteq Tables
      BY <2>2, ToSetOf
    <2> HIDE DEF posted
    <2>4. m \in Request /\ m.at = "create" /\ m.copy = session /\ m.id = 0
      BY <1>0 DEF Request
    <2> HIDE DEF m
    <2>5. n \in Request /\ n.at = "create" /\ n.copy = session /\ n.id = 0
      BY <2>3, <2>4 DEF Request
    <2> HIDE DEF n
    <2>6. QED
      BY <2>1, <2>5, BeginsAlone
  <1>4. QED
    BY <1>1, <1>2, <1>3

\* Jobs go with their connections, but keep their names.
LEMMA ConnAlone ==
  ASSUME WizardInv, TwinInv, ConnStep
  PROVE  TwinInv'
  <1>0. WizardType
    BY DEF WizardInv
  <1>1. UNCHANGED <<session, page, req, forms, raced>>
    BY DEF ConnStep
  <1>2. ASSUME NEW k \in Jobs
        PROVE  /\ job'[k].name = job[k].name
               /\ job'[k].answered = job[k].answered
               /\ job[k].row # "new" => job'[k].row # "new"
    <2>1. job[k] \in Job
      BY <1>0 DEF WizardType
    <2>2. job'[k] = job[k] \/ job'[k] = [job[k] EXCEPT !.row = "gone"]
      BY DEF ConnStep
    <2>3. QED
      BY <2>1, <2>2 DEF Job
  <1>3. ASSUME NEW q \in Requests
        PROVE  Named(q)'
    <2>1. req[q].id # 0 => job'[req[q].id].name = job[req[q].id].name
      BY <1>2, Working
    <2>2. QED
      BY <1>1, <2>1 DEF TwinInv, Named
  <1>4. \A k \in Jobs : job'[k].answered =>
          job[k].answered /\ job'[k].row # "new" /\ job'[k].name = job[k].name
    BY <1>2 DEF TwinInv
  <1>5. QED
    BY <1>1, <1>3, <1>4, GoesOnAlone

LEMMA TwinStart == Init => TwinInv
  <1> SUFFICES ASSUME Init PROVE TwinInv
    OBVIOUS
  <1>1. /\ session = NoSession /\ req = [r \in Requests |-> NoReq]
        /\ job = [i \in Jobs |-> NoJob] /\ raced = {}
    BY DEF Init
  <1>2. /\ NoReq.at = "idle" /\ NoReq.name = 0 /\ NoReq.copy.name = 0 /\ NoReq.id = 0
        /\ ~ NoJob.answered
    BY DEF NoReq, NoSession, NoJob
  <1>3. \A r \in Requests : Named(r)
    BY <1>1, <1>2 DEF Named
  <1>4. \A f \in Names : Alone(f)
    BY <1>1, <1>2, Nothings DEF Alone, Uses, Answered
  <1>5. QED
    BY <1>1, <1>2, <1>3, <1>4 DEF TwinInv

LEMMA TwinStep == WizardInv /\ TwinInv /\ [Next]_vars => TwinInv'
  <1> SUFFICES ASSUME WizardInv, TwinInv, [Next]_vars PROVE TwinInv'
    OBVIOUS
  <1>1. CASE UNCHANGED vars
    BY <1>1 DEF vars, wizardVars, TwinInv, Named, Alone, Uses, Answered
  <1>2. ASSUME NEW r \in Requests, Fail(r)
        PROVE  TwinInv'
    BY <1>2, EndsAlone DEF Fail
  <1>3. ASSUME NEW t \in Tabs, Open2(t) \/ Open3(t)
        PROVE  TwinInv'
    <2>1. UNCHANGED <<session, req, job, forms, raced>>
      BY <1>3 DEF Open2, Open3
    <2>2. QED
      BY <2>1 DEF TwinInv, Named, Alone, Uses, Answered
  <1>4. QED
    BY <1>1, <1>2, <1>3, SubmitAlone, CreateAlone, AddTableAlone, AddScheduleAlone,
       RunOnceAlone, SaveAlone, ConnAlone DEF Next

\* Two answered jobs of one first step come only of two requests that were at
\* work on it at the same time.
THEOREM TwinsOnlyRace == Spec => []TwinsRaced
  <1>1. WizardInv /\ TwinInv => TwinsRaced
    <2> SUFFICES ASSUME WizardInv, TwinInv, NEW i \in Jobs, NEW k \in Jobs,
                        i # k, job[i].answered, job[k].answered,
                        job[i].name = job[k].name
                 PROVE  job[i].name \in raced
      BY DEF TwinsRaced
    <2>1. job[i].row # "new" /\ job[k].row # "new"
      BY DEF TwinInv
    <2>2. job[i].name \in Names
      <3>1. job[i].name # 0 /\ job[i].name \in 0..MaxForms
        BY <2>1 DEF WizardInv, FormInv, JobOfForm, WizardType, Job
      <3>2. QED
        BY <3>1, BoundsAssumption DEF Names
    <2>3. QED
      BY <2>1, <2>2 DEF TwinInv, Alone, Answered
  <1>2. Spec => []TwinInv
    BY TwinStart, TwinStep, WizardKept, PTL DEF Spec
  <1>3. QED
    BY <1>1, <1>2, WizardKept, PTL

====
