---------------------------- MODULE UserDataProofs ----------------------------
(* Theorems about UserData, and with it about Accounts and Settings. *)
EXTENDS UserData, TLAPS

\* A step of one request, of either kind.
RequestStep(r) == Begin(r) \/ Continue(r) \/ DbError(r) \/ Die(r) \/ SettingsStep(r)

\* What a step of request r leaves alone of every other request.
OthersStay(r) ==
  \A s \in Requests \ {r} :
    pc'[s] = pc[s] /\ form'[s] = form[s] /\ user'[s] = user[s] /\ answer'[s] = answer[s]

\* The form of a request and its account are what the request has made sure of, by the
\* statement it is at.
FormInv(r) ==
  /\ pc[r] = "new" => form[r] = Nothing /\ user[r] = Nothing
  /\ pc[r] \in {"name", "insert", "open"} => form[r] \in Registrations
  /\ pc[r] \in {"newtoken", "registered", "token", "granted"} => user[r] \in DOMAIN users
  /\ pc[r] \in {"logout", "revoked"} => form[r] \in Requests
  /\ pc[r] \in {"rename", "update"} => form[r] \in Updates /\ user[r] \in DOMAIN users
  /\ pc[r] \notin {"done", "dead"} => answer[r] = "none"
  /\ r \in DOMAIN users => pc[r] \notin {"new", "name", "insert", "open"}

TypeInv == TypeOK /\ \A r \in Requests : FormInv(r)

LEMMA NextIsRequestStep == AllNext <=> \E r \in Requests : RequestStep(r)
BY DEF AllNext, Next, RequestStep

LEMMA TypeInit == Init => TypeInv
BY InitUsersAssumption, InitSettingsAssumption
DEF Init, TypeInv, TypeOK, FormInv, Ids, PCs, Answers

LEMMA Locality ==
  ASSUME TypeOK, NEW r \in Requests, RequestStep(r)
  PROVE  OthersStay(r)
<1> USE DEF TypeOK, OthersStay, Finish, Goto
<1>1. CASE Begin(r)
  BY <1>1 DEF Begin, RegisterEmail, Login, LoginRefused, Refresh, LogoutLoad, UpdateLoad
<1>2. CASE Continue(r)
  <2>1. CASE RegisterName(r) \/ InsertUser(r) \/ InsertUserFails(r) \/ CommitUser(r)
    BY <2>1 DEF RegisterName, InsertUser, InsertUserFails, CommitUser
  <2>2. CASE RegisterToken(r) \/ LoginToken(r) \/ LogoutCommit(r) \/ LogoutAnswer(r) \/ Respond(r)
    BY <2>2 DEF RegisterToken, LoginToken, LogoutCommit, LogoutAnswer, Respond
  <2>3. CASE UpdateName(r) \/ UpdateRefused(r) \/ UpdateCommit(r) \/ UpdateViolation(r)
    BY <2>3 DEF UpdateName, UpdateRefused, UpdateCommit, UpdateViolation
  <2> QED BY <1>2, <2>1, <2>2, <2>3 DEF Continue
<1>3. CASE DbError(r) \/ Die(r)
  BY <1>3 DEF DbError, Die
<1>4. CASE SettingsStep(r)
  BY <1>4 DEF SettingsStep, S!Step, S!NotFound, S!Load, S!Refuse, S!Fail, S!Write, S!Confirm,
              S!Finish
<1> QED BY <1>1, <1>2, <1>3, <1>4 DEF RequestStep

\* The accounts change by two statements only, and none is ever deleted.
LEMMA UsersChange ==
  ASSUME TypeInv, NEW r \in Requests, RequestStep(r)
  PROVE  \/ UNCHANGED users
         \/ CommitUser(r) /\ DOMAIN users' = DOMAIN users \cup {r}
         \/ UpdateCommit(r) /\ DOMAIN users' = DOMAIN users
<1>1. CASE Begin(r)
  BY <1>1 DEF Begin, RegisterEmail, Login, LoginRefused, Refresh, LogoutLoad, UpdateLoad,
              database
<1>2. CASE Continue(r)
  BY <1>2 DEF Continue, RegisterName, InsertUser, InsertUserFails, CommitUser, RegisterToken,
              LoginToken, LogoutCommit, LogoutAnswer, Respond, UpdateName, UpdateRefused,
              UpdateCommit, UpdateViolation, database
<1>3. CASE DbError(r) \/ Die(r) \/ SettingsStep(r)
  BY <1>3 DEF DbError, Die, SettingsStep, database
<1> QED BY <1>1, <1>2, <1>3 DEF RequestStep

\* The settings rows change by two statements only.
LEMMA SettingsChange ==
  ASSUME NEW r \in Requests, RequestStep(r)
  PROVE  \/ UNCHANGED user_settings
         \/ CommitUser(r)
         \/ S!Write(r)
<1>1. CASE Begin(r)
  BY <1>1 DEF Begin, RegisterEmail, Login, LoginRefused, Refresh, LogoutLoad, UpdateLoad,
              database
<1>2. CASE Continue(r)
  BY <1>2 DEF Continue, RegisterName, InsertUser, InsertUserFails, RegisterToken,
              LoginToken, LogoutCommit, LogoutAnswer, Respond, UpdateName, UpdateRefused,
              UpdateCommit, UpdateViolation, database
<1>3. CASE DbError(r) \/ Die(r)
  BY <1>3 DEF DbError, Die, database
<1>4. CASE SettingsStep(r)
  BY <1>4 DEF SettingsStep, S!Step, S!NotFound, S!Load, S!Refuse, S!Fail, S!Confirm
<1> QED BY <1>1, <1>2, <1>3, <1>4 DEF RequestStep

LEMMA RevokedType ==
  \A t \in Tokens : /\ [t EXCEPT !.revoked = TRUE] \in Tokens
                    /\ [t EXCEPT !.revoked = TRUE].revoked
BY DEF Tokens

LEMMA TypeStep ==
  ASSUME TypeInv, NEW r \in Requests, RequestStep(r)
  PROVE  TypeInv'
<1>1. \A s \in Requests \ {r} : FormInv(s)'
  <2>1. OthersStay(r)
    BY Locality DEF TypeInv
  <2>2. DOMAIN users' \subseteq DOMAIN users \cup {r}
    BY UsersChange
  <2>3. DOMAIN users \subseteq DOMAIN users'
    BY UsersChange
  <2> QED BY <2>1, <2>2, <2>3 DEF OthersStay, FormInv, TypeInv
<1> USE FormsAssumption, NothingAssumption
<1> USE DEF TypeInv, TypeOK, Finish, Goto, PCs, Answers, database, Ids
<1>2. ASSUME Begin(r) PROVE TypeOK' /\ FormInv(r)'
  <2>1. ASSUME NEW f \in Registrations, RegisterEmail(r, f) PROVE TypeOK' /\ FormInv(r)'
    BY <2>1 DEF RegisterEmail, FormInv
  <2>2. ASSUME NEW c \in Credentials, Login(r, c) PROVE TypeOK' /\ FormInv(r)'
    BY <2>2 DEF Login, FormInv
  <2>3. ASSUME NEW c \in Credentials, LoginRefused(r, c) PROVE TypeOK' /\ FormInv(r)'
    BY <2>3 DEF LoginRefused, FormInv
  <2>4. ASSUME NEW j \in Requests, Refresh(r, j) PROVE TypeOK' /\ FormInv(r)'
    BY <2>4 DEF Refresh, FormInv
  <2>5. ASSUME NEW j \in Requests, LogoutLoad(r, j) PROVE TypeOK' /\ FormInv(r)'
    BY <2>5 DEF LogoutLoad, FormInv
  <2>6. ASSUME NEW a \in Ids, NEW f \in Updates, UpdateLoad(r, a, f)
        PROVE  TypeOK' /\ FormInv(r)'
    BY <2>6 DEF UpdateLoad, FormInv
  <2> QED BY <1>2, <2>1, <2>2, <2>3, <2>4, <2>5, <2>6 DEF Begin
<1>3. ASSUME Continue(r) PROVE TypeOK' /\ FormInv(r)'
  <2>1. CASE RegisterName(r) \/ InsertUser(r) \/ InsertUserFails(r)
    BY <2>1 DEF RegisterName, InsertUser, InsertUserFails, FormInv
  <2>2. CASE CommitUser(r)
    BY <2>2 DEF CommitUser, FormInv
  <2>3. CASE RegisterToken(r) \/ LoginToken(r)
    <3>1. user[r] \in Ids
      BY <2>3 DEF RegisterToken, LoginToken, FormInv
    <3>2. [jti |-> r, user |-> user[r], revoked |-> FALSE] \in Tokens
      BY <3>1 DEF Tokens
    <3>3. tokens' \subseteq Tokens
      BY <2>3, <3>2 DEF RegisterToken, LoginToken, SaveToken
    <3> QED BY <2>3, <3>3 DEF RegisterToken, LoginToken, FormInv
  <2>4. CASE LogoutCommit(r)
    <3>1. tokens' \subseteq Tokens
      <4>1. \A t \in tokens : t \in Tokens /\ [t EXCEPT !.revoked = TRUE] \in Tokens
        BY RevokedType DEF TypeInv, TypeOK
      <4>2. \A t \in tokens' : \E q \in tokens : t = q \/ t = [q EXCEPT !.revoked = TRUE]
        BY <2>4 DEF LogoutCommit
      <4> QED BY <4>1, <4>2
    <3> QED BY <2>4, <3>1 DEF LogoutCommit, FormInv
  <2>5. CASE UpdateCommit(r)
    <3>1. users[user[r]] \in Accounts /\ form[r] \in Updates /\ user[r] \in DOMAIN users
      BY <2>5 DEF UpdateCommit, FormInv
    <3>2. Updated(r) \in Accounts
      BY <3>1 DEF Updated, Renames, Accounts
    <3> HIDE FormsAssumption, NothingAssumption
    <3> QED BY <2>5, <3>1, <3>2 DEF UpdateCommit, FormInv
  <2>6. CASE UpdateName(r) \/ UpdateRefused(r) \/ UpdateViolation(r)
    BY <2>6 DEF UpdateName, UpdateRefused, UpdateViolation, FormInv
  <2>7. CASE LogoutAnswer(r) \/ Respond(r)
    BY <2>7 DEF LogoutAnswer, Respond, Reply, FormInv
  <2> QED BY <1>3, <2>1, <2>2, <2>3, <2>4, <2>5, <2>6, <2>7 DEF Continue
<1>4. ASSUME DbError(r) \/ Die(r) PROVE TypeOK' /\ FormInv(r)'
  BY <1>4 DEF DbError, Die, FormInv
<1>5. ASSUME SettingsStep(r) PROVE TypeOK' /\ FormInv(r)'
  BY <1>5 DEF SettingsStep, S!Step, S!NotFound, S!Load, S!Refuse, S!Fail, S!Write, S!Confirm,
              S!Finish, FormInv
<1> QED BY <1>1, <1>2, <1>3, <1>4, <1>5 DEF RequestStep

LEMMA TypeNext == TypeInv /\ [AllNext]_vars => TypeInv'
<1>1. ASSUME TypeInv, UNCHANGED vars PROVE TypeInv'
  BY <1>1 DEF vars, TypeInv, TypeOK, FormInv
<1> QED BY <1>1, TypeStep, NextIsRequestStep

\* Every variable keeps its type.
THEOREM TypeCorrect == AllSpec => []TypeOK
<1>1. TypeInv => TypeOK
  BY DEF TypeInv
<1> QED BY <1>1, TypeInit, TypeNext, PTL DEF AllSpec

-----------------------------------------------------------------------------
(* No two accounts share an email or a name: the index refuses a registration that    *)
(* collides with an account, and lets one wait that collides with an open one.        *)

OpenInv ==
  /\ \A r \in Uncommitted : ~Taken(r)
  /\ \A r, s \in Uncommitted :
       form[r].email = form[s].email \/ form[r].username = form[s].username => r = s

KeysInv == UniqueAccounts /\ OpenInv

LEMMA KeysInit == Init => KeysInv
BY InitUsersAssumption DEF Init, KeysInv, UniqueAccounts, OpenInv, Uncommitted

\* A request's insert is open only by InsertUser, and its form then stays.
LEMMA OpenChange ==
  ASSUME TypeInv, NEW r \in Requests, RequestStep(r), ~InsertUser(r)
  PROVE  /\ Uncommitted' \subseteq Uncommitted
         /\ \A s \in Uncommitted' : form'[s] = form[s] /\ s # r
<1>1. \A s \in Requests \ {r} : pc'[s] = pc[s] /\ form'[s] = form[s]
  BY Locality DEF TypeInv, OthersStay
<1>2. pc'[r] # "open"
  <2> USE DEF TypeInv, TypeOK, Finish, Goto
  <2>1. CASE Begin(r)
    BY <2>1 DEF Begin, RegisterEmail, Login, LoginRefused, Refresh, LogoutLoad, UpdateLoad
  <2>2. CASE Continue(r)
    BY <2>2 DEF Continue, RegisterName, InsertUserFails, CommitUser, RegisterToken,
                LoginToken, LogoutCommit, LogoutAnswer, Respond, UpdateName, UpdateRefused,
                UpdateCommit, UpdateViolation
  <2>3. CASE DbError(r) \/ Die(r)
    BY <2>3 DEF DbError, Die
  <2>4. CASE SettingsStep(r)
    BY <2>4 DEF SettingsStep, S!Step, S!NotFound, S!Load, S!Refuse, S!Fail, S!Write, S!Confirm,
                S!Finish
  <2> QED BY <2>1, <2>2, <2>3, <2>4 DEF RequestStep
<1> QED BY <1>1, <1>2 DEF Uncommitted

LEMMA KeysStep ==
  ASSUME TypeInv, KeysInv, NEW r \in Requests, RequestStep(r)
  PROVE  KeysInv'
<1>1. CASE InsertUser(r)
  <2>1. /\ users' = users /\ form' = form
        /\ Uncommitted' \subseteq Uncommitted \cup {r}
        /\ ~Waiting(r) /\ ~Taken(r)
    BY <1>1 DEF InsertUser, Goto, database, Uncommitted, TypeInv, TypeOK
  <2>2. \A s \in Uncommitted : /\ form[s].email # form[r].email
                               /\ form[s].username # form[r].username
    BY <2>1 DEF Waiting
  <2> QED BY <2>1, <2>2 DEF KeysInv, UniqueAccounts, OpenInv, Taken, HasEmail, HasName
<1>2. CASE CommitUser(r)
  <2>1. /\ r \in Uncommitted /\ r \notin DOMAIN users
        /\ DOMAIN users' = DOMAIN users \cup {r}
        /\ users'[r] = form[r]
        /\ \A a \in DOMAIN users : users'[a] = users[a]
    BY <1>2 DEF CommitUser, Uncommitted, TypeInv, FormInv
  <2>2. \A a \in DOMAIN users : /\ users[a].email # form[r].email
                                /\ users[a].username # form[r].username
    BY <2>1 DEF KeysInv, OpenInv, Taken, HasEmail, HasName
  <2>3. UniqueAccounts'
    BY <2>1, <2>2 DEF KeysInv, UniqueAccounts
  <2>4. ~InsertUser(r)
    BY <1>2 DEF CommitUser, InsertUser
  <2>5. /\ Uncommitted' \subseteq Uncommitted
        /\ \A s \in Uncommitted' : form'[s] = form[s] /\ s # r
    BY <2>4, OpenChange
  <2>6. \A s \in Uncommitted' : /\ form[s].email # form[r].email
                                /\ form[s].username # form[r].username
    BY <2>1, <2>5 DEF KeysInv, OpenInv
  <2>7. OpenInv'
    BY <2>1, <2>5, <2>6 DEF KeysInv, OpenInv, Taken, HasEmail, HasName
  <2> QED BY <2>3, <2>7 DEF KeysInv
<1>3. CASE UpdateCommit(r)
  <2> DEFINE u == user[r]
  <2>1. /\ u \in DOMAIN users /\ form[r] \in Updates /\ users[u] \in Accounts
        /\ users' = [users EXCEPT ![u] = Updated(r)]
        /\ ~WaitingForName(r) /\ ~(Renames(r) /\ NameOfOther(r))
    BY <1>3 DEF UpdateCommit, TypeInv, FormInv, TypeOK
  <2>2. /\ Updated(r).email = users[u].email
        /\ Updated(r).username = IF Renames(r) THEN form[r].username ELSE users[u].username
    BY <2>1 DEF Updated, Accounts
  <2>3. \A a \in DOMAIN users : a # u =>
          users[a].email # users[u].email /\ users[a].username # Updated(r).username
    BY <2>1, <2>2 DEF KeysInv, UniqueAccounts, NameOfOther
  <2>4. /\ DOMAIN users' = DOMAIN users
        /\ users'[u] = Updated(r)
        /\ \A a \in DOMAIN users : a # u => users'[a] = users[a]
    BY <2>1
  <2>5. UniqueAccounts'
    BY <2>1, <2>2, <2>3, <2>4 DEF KeysInv, UniqueAccounts
  <2>6. ~InsertUser(r)
    BY <1>3 DEF UpdateCommit, InsertUser
  <2>7. /\ Uncommitted' \subseteq Uncommitted
        /\ \A s \in Uncommitted' : form'[s] = form[s] /\ s # r
    BY <2>6, OpenChange
  <2>8. \A s \in Uncommitted' : /\ form[s].email # users'[u].email
                                /\ form[s].username # users'[u].username
    BY <2>1, <2>2, <2>4, <2>7 DEF KeysInv, OpenInv, Taken, HasEmail, HasName, WaitingForName
  <2>9. OpenInv'
    BY <2>1, <2>4, <2>7, <2>8 DEF KeysInv, OpenInv, Taken, HasEmail, HasName
  <2> QED BY <2>5, <2>9 DEF KeysInv
<1>4. CASE ~InsertUser(r) /\ ~CommitUser(r) /\ ~UpdateCommit(r)
  <2>1. users' = users
    BY <1>4, UsersChange
  <2>2. /\ Uncommitted' \subseteq Uncommitted
        /\ \A s \in Uncommitted' : form'[s] = form[s]
    BY <1>4, OpenChange
  <2> QED BY <2>1, <2>2 DEF KeysInv, UniqueAccounts, OpenInv, Taken, HasEmail, HasName
<1> QED BY <1>1, <1>2, <1>3, <1>4

LEMMA KeysNext == TypeInv /\ KeysInv /\ [AllNext]_vars => KeysInv'
<1>1. ASSUME KeysInv, UNCHANGED vars PROVE KeysInv'
  BY <1>1 DEF vars, KeysInv, UniqueAccounts, OpenInv, Uncommitted, Taken, HasEmail, HasName
<1> QED BY <1>1, KeysStep, NextIsRequestStep

\* No interleaving of registrations and renames gives two accounts one email or name.
THEOREM AccountsStayUnique == AllSpec => []UniqueAccounts
<1>1. KeysInv => UniqueAccounts
  BY DEF KeysInv
<1> QED BY <1>1, TypeInit, TypeNext, KeysInit, KeysNext, PTL DEF AllSpec

-----------------------------------------------------------------------------
(* The settings rows. *)

LEMMA RowsInit == Init => RowIsAllowed
BY RowsAssumption DEF Init, RowIsAllowed

\* A body that passes the checks of S!Write names no value that is out of range ...
LEMMA NothingBad ==
  ASSUME NEW r \in Requests, S!Write(r)
  PROVE  \A g \in Checked : form[r][g] \in InRange[g] \cup {Nothing}
BY CheckedAssumption DEF S!Write, S!OutOfRange, S!Raises, S!Named

\* ... and the columns that are written take their values.
LEMMA AllAccepted ==
  ASSUME NEW r \in Requests, S!Write(r), NEW f \in S!Changed(r)
  PROVE  S!NewValue(r, f) = form[r][f] /\ form[r][f] \in Accepted(f)
<1>1. f \in Fields /\ form[r][f] # Nothing /\ S!NewValue(r, f) = form[r][f]
  BY DEF S!Changed, S!Named, S!NewValue
<1>2. form[r][f] \in DOMAIN Column[f]
  BY <1>1 DEF S!Write, S!Raises
<1>3. f \in Checked => form[r][f] \in InRange[f]
  BY <1>1, NothingBad
<1> QED BY <1>1, <1>2, <1>3 DEF Accepted

LEMMA RowsStep ==
  ASSUME RowIsAllowed, NEW r \in Requests, RequestStep(r)
  PROVE  RowIsAllowed'
<1>1. CASE UNCHANGED user_settings
  BY <1>1 DEF RowIsAllowed
<1>2. CASE CommitUser(r)
  <2>1. \A a \in DOMAIN user_settings' :
          \/ user_settings'[a] = Defaults
          \/ a \in DOMAIN user_settings /\ user_settings'[a] = user_settings[a]
    BY <1>2 DEF CommitUser
  <2> QED BY <2>1, RowsAssumption DEF RowIsAllowed
<1>3. CASE S!Write(r)
  <2> DEFINE row == [f \in Fields |-> IF f \in S!Changed(r) THEN Column[f][S!NewValue(r, f)]
                                      ELSE user_settings[user[r]][f]]
  <2>1. user_settings' = [user_settings EXCEPT ![user[r]] = row]
    BY <1>3 DEF S!Write
  <2>2. ASSUME NEW f \in Fields, user[r] \in DOMAIN user_settings
        PROVE  row[f] \in Held(f)
    <3>1. CASE f \in S!Changed(r)
      BY <1>3, <3>1, AllAccepted DEF Held
    <3>2. CASE f \notin S!Changed(r)
      BY <2>2, <3>2 DEF RowIsAllowed
    <3> QED BY <3>1, <3>2
  <2> HIDE DEF row
  <2> QED BY <2>1, <2>2 DEF RowIsAllowed
<1> QED BY <1>1, <1>2, <1>3, SettingsChange

LEMMA RowsNext == RowIsAllowed /\ [AllNext]_vars => RowIsAllowed'
<1>1. ASSUME RowIsAllowed, UNCHANGED vars PROVE RowIsAllowed'
  BY <1>1 DEF vars, RowIsAllowed
<1> QED BY <1>1, RowsStep, NextIsRequestStep

\* No interleaving of settings requests and registrations leaves a value in a row that
\* its field does not allow.
THEOREM RowsStayAllowed == AllSpec => []RowIsAllowed
BY RowsInit, RowsNext, PTL DEF AllSpec

-----------------------------------------------------------------------------
(* An account and its settings come together. *)

LEMMA CompleteInit == Init => AccountsAreComplete
BY InitUsersAssumption, InitSettingsAssumption DEF Init, AccountsAreComplete

LEMMA CompleteStep ==
  ASSUME TypeInv, AccountsAreComplete, NEW r \in Requests, RequestStep(r)
  PROVE  AccountsAreComplete'
<1>1. /\ DOMAIN user_settings' \subseteq DOMAIN users'
      /\ DOMAIN users' \cap Requests \subseteq DOMAIN user_settings'
  <2>1. CASE CommitUser(r)
    BY <2>1 DEF CommitUser, AccountsAreComplete
  <2>2. CASE ~CommitUser(r)
    <3>1. DOMAIN users' = DOMAIN users
      BY <2>2, UsersChange
    <3>2. DOMAIN user_settings' = DOMAIN user_settings
      BY <2>2, SettingsChange DEF S!Write
    <3> QED BY <3>1, <3>2 DEF AccountsAreComplete
  <2> QED BY <2>1, <2>2
<1>2. \A s \in Requests \ {r} : answer'[s] = "missing" => user'[s] \notin Requests
  BY Locality DEF OthersStay, AccountsAreComplete, TypeInv
<1>3. answer'[r] = "missing" => user'[r] \notin Requests
  <2> USE DEF TypeInv, TypeOK, FormInv, Finish, Goto, AccountsAreComplete
  <2>1. CASE Begin(r)
    BY <2>1 DEF Begin, RegisterEmail, Login, LoginRefused, Refresh, LogoutLoad, UpdateLoad
  <2>2. CASE Continue(r)
    BY <2>2 DEF Continue, RegisterName, InsertUser, InsertUserFails, CommitUser, RegisterToken,
                LoginToken, LogoutCommit, LogoutAnswer, Respond, Reply, UpdateName, UpdateRefused,
                UpdateCommit, UpdateViolation
  <2>3. CASE DbError(r) \/ Die(r)
    BY <2>3 DEF DbError, Die
  <2>4. CASE SettingsStep(r)
    BY <2>4 DEF SettingsStep, S!Step, S!NotFound, S!Load, S!Refuse, S!Fail, S!Write, S!Confirm,
                S!Finish
  <2> QED BY <2>1, <2>2, <2>3, <2>4 DEF RequestStep
<1> QED BY <1>1, <1>2, <1>3 DEF AccountsAreComplete

LEMMA CompleteNext ==
  TypeInv /\ AccountsAreComplete /\ [AllNext]_vars => AccountsAreComplete'
<1>1. ASSUME AccountsAreComplete, UNCHANGED vars PROVE AccountsAreComplete'
  BY <1>1 DEF vars, AccountsAreComplete
<1> QED BY <1>1, CompleteStep, NextIsRequestStep

\* Wherever registrations fail or are killed, no registered account is without its
\* settings, and no settings request of one is told that it has none.
THEOREM AccountsStayComplete == AllSpec => []AccountsAreComplete
BY TypeInit, TypeNext, CompleteInit, CompleteNext, PTL DEF AllSpec

\* A settings request changes what its body names, and nothing else changes a row.
THEOREM UpdatesArePartial == AllSpec => PartialUpdate
<1> DEFINE Change ==
      \A a \in DOMAIN user_settings, f \in Fields :
        user_settings'[a][f] # user_settings[a][f] =>
          \E r \in Requests :
            /\ pc[r] = "assign" /\ user[r] = a
            /\ form[r][f] \in DOMAIN Column[f]
            /\ user_settings'[a][f] = Column[f][form[r][f]]
            /\ \A g \in Checked : form[r][g] \in InRange[g] \cup {Nothing}
<1>1. ASSUME TypeInv, AccountsAreComplete, NEW r \in Requests, RequestStep(r) PROVE Change
  <2>1. CASE UNCHANGED user_settings
    BY <2>1
  <2>2. CASE CommitUser(r)
    <3>1. r \notin DOMAIN user_settings
      BY <1>1, <2>2 DEF CommitUser, TypeInv, FormInv, AccountsAreComplete
    <3> QED BY <2>2, <3>1 DEF CommitUser
  <2>3. CASE S!Write(r)
    <3>1. pc[r] = "assign" /\ \A g \in Checked : form[r][g] \in InRange[g] \cup {Nothing}
      BY <2>3, NothingBad DEF S!Write
    <3> SUFFICES ASSUME NEW a \in DOMAIN user_settings, NEW f \in Fields,
                        user_settings'[a][f] # user_settings[a][f]
                 PROVE  /\ user[r] = a
                        /\ form[r][f] \in DOMAIN Column[f]
                        /\ user_settings'[a][f] = Column[f][form[r][f]]
      BY <1>1, <3>1
    <3>2. user[r] = a
      BY <2>3 DEF S!Write
    <3>3. user_settings'[a][f] = IF f \in S!Changed(r) THEN Column[f][S!NewValue(r, f)]
                                 ELSE user_settings[a][f]
      BY <2>3, <3>2 DEF S!Write
    <3>4. f \in S!Changed(r)
      BY <3>3
    <3> QED BY <2>3, <3>2, <3>3, <3>4, AllAccepted DEF Accepted
  <2> QED BY <1>1, <2>1, <2>2, <2>3, SettingsChange
<1>2. TypeInv /\ AccountsAreComplete /\ [AllNext]_vars => [Change]_vars
  BY <1>1, NextIsRequestStep
<1> HIDE DEF Change
<1>3. AllSpec => [][Change]_vars
  BY <1>2, TypeInit, TypeNext, CompleteInit, CompleteNext, PTL DEF AllSpec
<1> QED BY <1>3 DEF Change, PartialUpdate

-----------------------------------------------------------------------------
(* Refresh tokens. *)

\* A request that has ended takes no step.
LEMMA EndedIsEnded ==
  ASSUME NEW r \in Requests, RequestStep(r)
  PROVE  pc[r] \notin {"done", "dead"}
BY DEF RequestStep, Begin, RegisterEmail, Login, LoginRefused, Refresh, LogoutLoad, UpdateLoad,
       Continue, RegisterName, InsertUser, InsertUserFails, CommitUser, RegisterToken,
       LoginToken, LogoutCommit, LogoutAnswer, UpdateName, UpdateRefused, UpdateCommit,
       UpdateViolation, Respond, Reply, DbError, Die, SettingsStep, S!Step, S!NotFound, S!Load,
       S!Refuse, S!Fail, S!Write, S!Confirm

LEMMA TokensChange ==
  ASSUME NEW r \in Requests, RequestStep(r)
  PROVE  \/ UNCHANGED <<tokens, logged_out>>
         \/ (RegisterToken(r) \/ LoginToken(r) \/ LogoutCommit(r)) /\ UNCHANGED logged_out
         \/ LogoutAnswer(r) /\ UNCHANGED tokens
<1>1. CASE Begin(r)
  BY <1>1 DEF Begin, RegisterEmail, Login, LoginRefused, Refresh, LogoutLoad, UpdateLoad,
              database
<1>2. CASE Continue(r)
  BY <1>2 DEF Continue, RegisterName, InsertUser, InsertUserFails, CommitUser, RegisterToken,
              LoginToken, LogoutCommit, LogoutAnswer, UpdateName, UpdateRefused, UpdateCommit,
              UpdateViolation, Respond, database
<1>3. CASE DbError(r) \/ Die(r) \/ SettingsStep(r)
  BY <1>3 DEF DbError, Die, SettingsStep, database
<1> QED BY <1>1, <1>2, <1>3 DEF RequestStep

\* What a request at one of its late statements does.
LEMMA Arrivals ==
  ASSUME TypeInv, NEW r \in Requests, RequestStep(r)
  PROVE  /\ pc'[r] \in {"registered", "granted"} => RegisterToken(r) \/ LoginToken(r)
         /\ pc'[r] = "logout" => \E j \in Requests : LogoutLoad(r, j)
         /\ pc'[r] = "revoked" => LogoutCommit(r)
         /\ HandedOut(r)' => Respond(r) /\ pc[r] \in {"registered", "granted"}
<1> USE DEF TypeInv, TypeOK, FormInv, HandedOut, Finish, Goto
<1>1. CASE Begin(r)
  BY <1>1 DEF Begin, RegisterEmail, Login, LoginRefused, Refresh, LogoutLoad, UpdateLoad
<1>2. CASE Continue(r)
  <2>1. CASE Respond(r)
    BY <2>1 DEF Respond, Reply
  <2>2. CASE RegisterToken(r) \/ LoginToken(r) \/ LogoutCommit(r) \/ LogoutAnswer(r)
    BY <2>2 DEF RegisterToken, LoginToken, LogoutCommit, LogoutAnswer
  <2>3. CASE \/ RegisterName(r) \/ InsertUser(r) \/ InsertUserFails(r) \/ CommitUser(r)
             \/ UpdateName(r) \/ UpdateRefused(r) \/ UpdateCommit(r) \/ UpdateViolation(r)
    BY <2>3 DEF RegisterName, InsertUser, InsertUserFails, CommitUser, UpdateName,
                UpdateRefused, UpdateCommit, UpdateViolation
  <2> QED BY <1>2, <2>1, <2>2, <2>3 DEF Continue
<1>3. CASE DbError(r) \/ Die(r)
  BY <1>3 DEF DbError, Die
<1>4. CASE SettingsStep(r)
  BY <1>4 DEF SettingsStep, S!Step, S!NotFound, S!Load, S!Refuse, S!Fail, S!Write, S!Confirm,
              S!Finish
<1> QED BY <1>1, <1>2, <1>3, <1>4 DEF RequestStep

\* A request that has revoked its token is answered or killed.
LEMMA AfterRevocation ==
  ASSUME NEW r \in Requests, RequestStep(r), pc[r] = "revoked"
  PROVE  LogoutAnswer(r) \/ Die(r)
BY DEF RequestStep, Begin, RegisterEmail, Login, LoginRefused, Refresh, LogoutLoad, UpdateLoad,
       Continue, RegisterName, InsertUser, InsertUserFails, CommitUser, RegisterToken,
       LoginToken, LogoutCommit, UpdateName, UpdateRefused, UpdateCommit, UpdateViolation,
       Respond, Reply, DbError, SettingsStep, S!Step, S!NotFound, S!Load, S!Refuse, S!Fail,
       S!Write, S!Confirm

\* A stored token is about to be handed out, or has been.
Granted(j) == pc[j] \in {"registered", "granted"} \/ HandedOut(j)

StoredInv ==
  \A j \in Requests : Granted(j) =>
    \E t \in tokens : /\ t.jti = j
                      /\ t.user = user[j]
                      /\ t.user \in DOMAIN users
                      /\ t.revoked => \E r \in Requests : LoggingOut(r, j)

LEMMA StoredInit == Init => StoredInv
BY DEF Init, StoredInv, Granted, HandedOut

LEMMA StoredStep ==
  ASSUME TypeInv, StoredInv, NEW r \in Requests, RequestStep(r)
  PROVE  StoredInv'
<1> DEFINE Stored(j, t) == /\ t.jti = j
                           /\ t.user = user[j]
                           /\ t.user \in DOMAIN users
                           /\ t.revoked => \E q \in Requests : LoggingOut(q, j)
<1>1. /\ OthersStay(r)
      /\ pc[r] \notin {"done", "dead"}
      /\ DOMAIN users \subseteq DOMAIN users'
  BY Locality, EndedIsEnded, UsersChange DEF TypeInv
<1>2. ASSUME NEW q \in Requests, NEW j, LoggingOut(q, j) PROVE LoggingOut(q, j)'
  <2>1. CASE q # r
    BY <1>1, <1>2, <2>1 DEF OthersStay, LoggingOut
  <2>2. CASE q = r
    <3>1. pc[r] = "revoked" /\ form[r] = j
      BY <1>1, <1>2, <2>2 DEF LoggingOut, TypeInv, FormInv
    <3> QED BY <2>2, <3>1, AfterRevocation
         DEF LogoutAnswer, Die, Finish, Goto, LoggingOut, TypeInv, TypeOK
  <2> QED BY <2>1, <2>2
<1>3. ASSUME NEW j \in Requests, Granted(j), user'[j] = user[j]
      PROVE  \E t \in tokens' : Stored(j, t)'
  <2>1. PICK t \in tokens : Stored(j, t)
    BY <1>3 DEF StoredInv
  <2>2. CASE t \in tokens'
    BY <1>1, <1>2, <1>3, <2>1, <2>2
  <2>3. CASE t \notin tokens'
    <3>1. LogoutCommit(r)
      BY <2>3, TokensChange DEF RegisterToken, LoginToken, SaveToken
    <3> DEFINE q == [t EXCEPT !.revoked = TRUE]
    <3>2. t.jti = form[r] /\ q \in tokens'
      BY <2>3, <3>1 DEF LogoutCommit
    <3>3. q.jti = t.jti /\ q.user = t.user
      BY DEF TypeInv, TypeOK, Tokens
    <3>4. LoggingOut(r, j)'
      BY <2>1, <3>1, <3>2 DEF LogoutCommit, Goto, LoggingOut, TypeInv, TypeOK
    <3> HIDE DEF q
    <3>5. Stored(j, q)'
      BY <1>1, <1>3, <2>1, <3>3, <3>4
    <3> QED BY <3>2, <3>5
  <2> QED BY <2>2, <2>3
<1>4. ASSUME NEW j \in Requests \ {r}, Granted(j)' PROVE \E t \in tokens' : Stored(j, t)'
  <2>1. Granted(j) /\ user'[j] = user[j]
    BY <1>1, <1>4 DEF OthersStay, Granted, HandedOut
  <2> QED BY <1>3, <2>1
<1>5. ASSUME Granted(r)' PROVE \E t \in tokens' : Stored(r, t)'
  <2>1. CASE RegisterToken(r) \/ LoginToken(r)
    <3> DEFINE t == [jti |-> r, user |-> user[r], revoked |-> FALSE]
    <3>1. /\ t \in tokens' /\ user' = user /\ users' = users
          /\ user[r] \in DOMAIN users
      BY <2>1 DEF RegisterToken, LoginToken, SaveToken, TypeInv, FormInv
    <3> QED BY <3>1
  <2>2. CASE Respond(r) /\ pc[r] \in {"registered", "granted"}
    <3>1. Granted(r) /\ user'[r] = user[r]
      BY <2>2 DEF Respond, Granted
    <3> QED BY <1>3, <3>1
  <2> QED BY <1>5, <2>1, <2>2, Arrivals DEF Granted
<1> QED BY <1>4, <1>5 DEF StoredInv

LEMMA StoredNext == TypeInv /\ StoredInv /\ [AllNext]_vars => StoredInv'
<1>1. ASSUME StoredInv, UNCHANGED vars PROVE StoredInv'
  BY <1>1 DEF vars, StoredInv, Granted, HandedOut, LoggingOut
<1> QED BY <1>1, StoredStep, NextIsRequestStep

\* Every refresh token that a client was given is stored, for its account, and not
\* revoked but by a logout with it.
THEOREM HandedOutStaysStored == AllSpec => []HandedOutIsStored
<1>1. StoredInv => HandedOutIsStored
  BY DEF StoredInv, HandedOutIsStored, Granted
<1> QED BY <1>1, TypeInit, TypeNext, StoredInit, StoredNext, PTL DEF AllSpec

\* The tokens that a logout has revoked, answered or not.
LoggedOut == logged_out \cup {form[r] : r \in {q \in Requests : pc[q] = "revoked"}}

\* Such a token is revoked in every row, and its request, which has ended, stores no other.
LogoutInv ==
  /\ \A r \in Requests : pc[r] \in {"logout", "revoked"} => pc[form[r]] = "done"
  /\ \A j \in LoggedOut : pc[j] = "done" /\ \A t \in Row(j) : t.revoked

LEMMA LogoutInit == Init => LogoutInv
BY DEF Init, LogoutInv, LoggedOut

LEMMA LogoutStep ==
  ASSUME TypeInv, LogoutInv, NEW r \in Requests, RequestStep(r)
  PROVE  LogoutInv'
<1>1. OthersStay(r) /\ pc[r] \notin {"done", "dead"}
  BY Locality, EndedIsEnded DEF TypeInv
<1>2. \A j \in Requests : pc[j] = "done" => pc'[j] = "done"
  BY <1>1 DEF OthersStay
<1>3. ASSUME NEW s \in Requests, pc'[s] \in {"logout", "revoked"}
      PROVE  pc'[form'[s]] = "done"
  <2>1. CASE s # r
    BY <1>1, <1>2, <1>3, <2>1 DEF OthersStay, LogoutInv, TypeInv, FormInv
  <2>2. CASE s = r /\ pc'[r] = "logout"
    BY <1>2, <2>2, Arrivals DEF LogoutLoad, HandedOut, TypeInv, TypeOK
  <2>3. CASE s = r /\ pc'[r] = "revoked"
    BY <1>2, <2>3, Arrivals DEF LogoutCommit, LogoutInv, TypeInv, FormInv
  <2> QED BY <1>3, <2>1, <2>2, <2>3
<1>4. ASSUME NEW j \in LoggedOut'
      PROVE  j \in LoggedOut \/ (LogoutCommit(r) /\ j = form[r])
  <2>1. CASE j \in logged_out'
    BY <2>1, TokensChange DEF LogoutAnswer, LoggedOut
  <2>2. ASSUME NEW s \in Requests, pc'[s] = "revoked", j = form'[s]
        PROVE  j \in LoggedOut \/ (LogoutCommit(r) /\ j = form[r])
    <3>1. CASE s # r
      BY <1>1, <2>2, <3>1 DEF OthersStay, LoggedOut
    <3>2. CASE s = r
      BY <2>2, <3>2, Arrivals DEF LogoutCommit
    <3> QED BY <3>1, <3>2
  <2> QED BY <1>4, <2>1, <2>2 DEF LoggedOut
<1>5. ASSUME NEW j \in LoggedOut' PROVE pc'[j] = "done" /\ \A t \in Row(j)' : t.revoked
  <2>1. j \in Requests /\ pc[j] = "done"
    BY <1>4, <1>5 DEF LogoutCommit, LogoutInv, LoggedOut, TypeInv, TypeOK, FormInv
  <2>2. CASE UNCHANGED tokens /\ ~LogoutCommit(r)
    BY <1>2, <1>4, <1>5, <2>1, <2>2 DEF LogoutInv, Row
  <2>3. CASE RegisterToken(r) \/ LoginToken(r)
    <3>1. j # r /\ j \in LoggedOut
      BY <1>1, <1>4, <1>5, <2>1, <2>3 DEF RegisterToken, LoginToken, LogoutCommit
    <3>2. Row(j)' \subseteq Row(j)
      BY <2>3, <3>1 DEF RegisterToken, LoginToken, SaveToken, Row
    <3> QED BY <1>2, <2>1, <3>1, <3>2 DEF LogoutInv
  <2>4. CASE LogoutCommit(r)
    <3>1. ASSUME NEW t \in Row(j)' PROVE t.revoked
      <4>1. PICK q \in tokens : t = IF q.jti = form[r] THEN [q EXCEPT !.revoked = TRUE] ELSE q
        BY <2>4, <3>1 DEF LogoutCommit, Row
      <4>2. q \in Tokens
        BY DEF TypeInv, TypeOK
      <4>3. CASE q.jti = form[r]
        BY <4>1, <4>2, <4>3 DEF Tokens
      <4>4. CASE q.jti # form[r]
        <5>1. t = q /\ q \in Row(j) /\ j # form[r]
          BY <3>1, <4>1, <4>4 DEF Row
        <5> QED BY <1>4, <1>5, <5>1 DEF LogoutInv
      <4> QED BY <4>3, <4>4
    <3> QED BY <1>2, <2>1, <3>1
  <2> QED BY <2>2, <2>3, <2>4, TokensChange
<1> QED BY <1>3, <1>5 DEF LogoutInv

LEMMA LogoutNext == TypeInv /\ LogoutInv /\ [AllNext]_vars => LogoutInv'
<1>1. ASSUME LogoutInv, UNCHANGED vars PROVE LogoutInv'
  BY <1>1 DEF vars, LogoutInv, LoggedOut, Row
<1> QED BY <1>1, LogoutStep, NextIsRequestStep

\* Once a logout has been answered, its token is refused, whatever runs beside it.
THEOREM LogoutIsFinal == AllSpec => NoRefreshAfterLogout
<1> DEFINE Refused ==
      \A r, j \in Requests :
        j \in logged_out /\ pc[r] = "new" /\ form'[r] = j /\ pc'[r] = "done"
          => answer'[r] = "unauthorized"
<1>1. ASSUME TypeInv, LogoutInv, NEW q \in Requests, RequestStep(q) PROVE Refused
  <2> SUFFICES ASSUME NEW r \in Requests, NEW j \in Requests, j \in logged_out,
                      pc[r] = "new", form'[r] = j, pc'[r] = "done"
               PROVE  answer'[r] = "unauthorized"
    OBVIOUS
  <2>1. r = q
    BY <1>1, Locality DEF OthersStay, TypeInv
  <2>2. ~Usable(j)
    BY <1>1 DEF LogoutInv, LoggedOut, Usable
  <2>3. j \notin Registrations \cup Credentials \cup Updates \cup {Nothing}
    BY TokensAssumption
  <2>4. form[r] = Nothing
    BY <1>1 DEF TypeInv, FormInv
  <2> USE <2>1, <2>2, <2>3, <2>4 DEF TypeInv, TypeOK, Finish, Goto
  <2>5. CASE Begin(q)
    BY <1>1, <2>5 DEF Begin, RegisterEmail, Login, LoginRefused, Refresh, LogoutLoad, UpdateLoad
  <2>6. CASE SettingsStep(q)
    BY <1>1, <2>6 DEF SettingsStep, S!Step, S!NotFound, S!Load, S!Refuse, S!Fail, S!Write,
                      S!Confirm
  <2>7. CASE Continue(q) \/ DbError(q) \/ Die(q)
    BY <2>7 DEF Continue, RegisterName, InsertUser, InsertUserFails, CommitUser, RegisterToken,
                LoginToken, LogoutCommit, LogoutAnswer, Respond, UpdateName, UpdateRefused,
                UpdateCommit, UpdateViolation, DbError, Die
  <2> QED BY <1>1, <2>5, <2>6, <2>7 DEF RequestStep
<1>2. TypeInv /\ LogoutInv /\ [AllNext]_vars => [Refused]_vars
  BY <1>1, NextIsRequestStep
<1> HIDE DEF Refused
<1>3. AllSpec => [][Refused]_vars
  BY <1>2, TypeInit, TypeNext, LogoutInit, LogoutNext, PTL DEF AllSpec
<1> QED BY <1>3 DEF Refused, NoRefreshAfterLogout

-----------------------------------------------------------------------------
(* Profile updates. *)

\* An account changes only by an update that asked for it and is past its checks, and its
\* password only by one that named the password it had loaded.
THEOREM ChangesAreRequested == AllSpec => OnlyRequestedChanges
<1> DEFINE Change ==
      \A a \in DOMAIN users : users'[a] # users[a] =>
        \E r \in Requests :
          /\ user[r] = a
          /\ pc[r] = "update" /\ answer'[r] = "none"
          /\ users'[a].username \in {users[a].username, form[r].username}
          /\ users'[a].password # users[a].password =>
               /\ users'[a].password = form[r].new_password
               /\ form[r].current_password = loaded[r].password
<1>1. ASSUME TypeInv, NEW r \in Requests, RequestStep(r) PROVE Change
  <2>1. CASE UNCHANGED users
    BY <2>1
  <2>2. CASE CommitUser(r)
    BY <1>1, <2>2 DEF CommitUser, TypeInv, FormInv
  <2>3. CASE UpdateCommit(r)
    <3>1. pc[r] = "update" /\ answer'[r] = "none"
      BY <1>1, <2>3 DEF UpdateCommit, Goto, TypeInv, TypeOK, FormInv
    <3>2. /\ user[r] \in DOMAIN users /\ users[user[r]] \in Accounts
          /\ users' = [users EXCEPT ![user[r]] = Updated(r)]
          /\ ~PasswordWrong(r)
      BY <1>1, <2>3 DEF UpdateCommit, TypeInv, TypeOK, FormInv
    <3>3. /\ Updated(r).username \in {users[user[r]].username, form[r].username}
          /\ Updated(r).password # users[user[r]].password =>
               /\ Updated(r).password = form[r].new_password
               /\ form[r].current_password = loaded[r].password
      BY <3>2 DEF Updated, Accounts, PasswordWrong
    <3> HIDE DEF TypeInv
    <3> QED BY <3>1, <3>2, <3>3
  <2> QED BY <1>1, <2>1, <2>2, <2>3, UsersChange
<1>2. TypeInv /\ [AllNext]_vars => [Change]_vars
  BY <1>1, NextIsRequestStep
<1> HIDE DEF Change
<1>3. AllSpec => [][Change]_vars
  BY <1>2, TypeInit, TypeNext, PTL DEF AllSpec
<1> QED BY <1>3 DEF Change, OnlyRequestedChanges

===============================================================================
