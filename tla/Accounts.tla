------------------------------ MODULE Accounts ------------------------------
(***************************************************************************)
(* Accounts and refresh tokens: registration, login, refresh and logout    *)
(* (app/routes/auth.py) and the profile update (app/routes/users.py), as   *)
(* concurrent requests over one database; UserData adds PUT /settings.     *)
(*                                                                         *)
(* As in LogIngest a request is one run of a handler, split at its SQL     *)
(* statements.  Registration has two transactions: the account with its    *)
(* settings, then the refresh token.  Only the first one keeps a row       *)
(* uncommitted over several statements; every other write is one step with *)
(* its COMMIT.  The answer is a step of its own: a COMMIT expires the rows *)
(* of its transaction, and the answer loads them again.                    *)
(***************************************************************************)
EXTENDS Integers

CONSTANTS
  Requests,
  Emails, Names, Passwords,
  Short,          \* the passwords of less than 8 characters
  Nothing,        \* a field that is not in the request
  Registrations,  \* the forms that clients send
  Credentials,    \* the email and password pairs
  Updates,        \* the profile updates
  InitUsers,      \* the accounts at the start, a function from their ids
  InitSettings,   \* the settings rows they may have, functions from their ids
  Defaults,       \* the settings row of a new account
  MayFail         \* whether statements may fail and workers may be killed

\* An account registered by a request has that request for its id.
Ids == Requests \cup DOMAIN InitUsers
Accounts == [email : Emails, username : Names, password : Passwords]

ASSUME FormsAssumption ==
  /\ Registrations \subseteq Accounts
  /\ Credentials \subseteq [email : Emails, password : Passwords]
  /\ Updates \subseteq [username : Names \cup {Nothing},
                        current_password : Passwords \cup {Nothing},
                        new_password : Passwords \cup {Nothing}]
ASSUME ShortAssumption == Short \subseteq Passwords
ASSUME NothingAssumption == Nothing \notin Names \cup Passwords
\* A request, which stands for its token, is not taken for a form.
ASSUME TokensAssumption ==
  Requests \cap (Registrations \cup Credentials \cup Updates \cup {Nothing}) = {}
ASSUME InitUsersAssumption ==
  /\ InitUsers \in [DOMAIN InitUsers -> Accounts]
  /\ DOMAIN InitUsers \cap Requests = {}
  /\ \A a, b \in DOMAIN InitUsers :
       (\/ InitUsers[a].email = InitUsers[b].email
        \/ InitUsers[a].username = InitUsers[b].username) => a = b
ASSUME InitSettingsAssumption ==
  \A init \in InitSettings : DOMAIN init \subseteq DOMAIN InitUsers
ASSUME MayFailAssumption == MayFail \in BOOLEAN

VARIABLES
  pc,
  form,           \* the body of the request
  user,           \* the id of the account it is about
  loaded,         \* the row of that account as the request has loaded it
  answer,
  users,          \* committed rows: a function from ids
  user_settings,  \* committed rows: a function from ids; Settings updates them
  tokens,         \* refresh_tokens: [jti, user, revoked]; jti is the request
  logged_out      \* history: tokens whose logout was answered

vars == <<pc, form, user, loaded, answer, users, user_settings, tokens, logged_out>>

PCs == {"new", "name", "insert", "open", "newtoken", "registered", "token", "granted", "logout",
        "revoked", "rename", "update", "renamed", "done", "dead"}

Answers == {"none", "created", "ok", "updated", "bye", "invalid", "conflict",
            "unauthorized", "error"}

Tokens == [jti : Requests, user : Ids, revoked : BOOLEAN]

Init ==
  /\ pc = [r \in Requests |-> "new"]
  /\ form = [r \in Requests |-> Nothing]
  /\ user = [r \in Requests |-> Nothing]
  /\ loaded = [r \in Requests |-> Nothing]
  /\ answer = [r \in Requests |-> "none"]
  /\ users = InitUsers
  /\ user_settings \in InitSettings
  /\ tokens = {}
  /\ logged_out = {}

-----------------------------------------------------------------------------
HasEmail(e) == \E a \in DOMAIN users : users[a].email = e
HasName(u) == \E a \in DOMAIN users : users[a].username = u

\* Accounts that registrations have inserted and not committed.
Uncommitted == {r \in Requests : pc[r] = "open"}

\* Mutant: the email column is not unique.
OnlyNameTaken(r) == HasName(form[r].username)

\* A unique index refuses the row of r ...
Taken(r) == HasEmail(form[r].email) \/ HasName(form[r].username)

\* ... or makes it wait for the transaction that has inserted the same value.
Waiting(r) == \E s \in Uncommitted : \/ form[s].email = form[r].email
                                     \/ form[s].username = form[r].username

Finish(r, a) ==
  /\ pc' = [pc EXCEPT ![r] = "done"]
  /\ answer' = [answer EXCEPT ![r] = a]

Goto(r, l) ==
  /\ pc' = [pc EXCEPT ![r] = l]
  /\ UNCHANGED answer

database == <<users, user_settings, tokens>>

-----------------------------------------------------------------------------
(* POST /auth/register *)

RegisterEmail(r, f) ==
  /\ pc[r] = "new"
  /\ form' = [form EXCEPT ![r] = f]
  /\ IF f.password \in Short THEN Finish(r, "invalid")
     ELSE IF HasEmail(f.email) THEN Finish(r, "conflict")
     ELSE Goto(r, "name")
  /\ UNCHANGED <<user, loaded, database, logged_out>>

RegisterName(r) ==
  /\ pc[r] = "name"
  /\ IF HasName(form[r].username) THEN Finish(r, "conflict") ELSE Goto(r, "insert")
  /\ UNCHANGED <<form, user, loaded, database, logged_out>>

\* The flush that gives the new account its id.
InsertUser(r) ==
  /\ pc[r] = "insert"
  /\ ~Waiting(r)
  /\ ~Taken(r)
  /\ Goto(r, "open")
  /\ UNCHANGED <<form, user, loaded, database, logged_out>>

\* Nothing catches the IntegrityError: a 500.
InsertUserFails(r) ==
  /\ pc[r] = "insert"
  /\ ~Waiting(r)
  /\ Taken(r)
  /\ Finish(r, "error")
  /\ UNCHANGED <<form, user, loaded, database, logged_out>>

\* Mutant: the settings are committed with the refresh token.
CommitUserAlone(r) ==
  /\ pc[r] = "open"
  /\ users' = [a \in DOMAIN users \cup {r} |-> IF a = r THEN form[r] ELSE users[a]]
  /\ user' = [user EXCEPT ![r] = r]
  /\ Goto(r, "newtoken")
  /\ UNCHANGED <<form, loaded, user_settings, tokens, logged_out>>

\* The default settings and the first COMMIT.
CommitUser(r) ==
  /\ pc[r] = "open"
  /\ users' = [a \in DOMAIN users \cup {r} |-> IF a = r THEN form[r] ELSE users[a]]
  /\ user_settings' = [a \in DOMAIN user_settings \cup {r} |->
                         IF a = r THEN Defaults ELSE user_settings[a]]
  /\ user' = [user EXCEPT ![r] = r]
  /\ Goto(r, "newtoken")
  /\ UNCHANGED <<form, loaded, tokens, logged_out>>

SaveToken(r) == tokens' = tokens \cup {[jti |-> r, user |-> user[r], revoked |-> FALSE]}

\* The second transaction stores the refresh token.
RegisterToken(r) ==
  /\ pc[r] = "newtoken"
  /\ SaveToken(r)
  /\ Goto(r, "registered")
  /\ UNCHANGED <<form, user, loaded, users, user_settings, logged_out>>

-----------------------------------------------------------------------------
(* POST /auth/login *)

Login(r, c) ==
  /\ pc[r] = "new"
  /\ form' = [form EXCEPT ![r] = c]
  /\ \E a \in DOMAIN users :
       /\ users[a].email = c.email
       /\ users[a].password = c.password
       /\ user' = [user EXCEPT ![r] = a]
  /\ Goto(r, "token")
  /\ UNCHANGED <<loaded, database, logged_out>>

LoginRefused(r, c) ==
  /\ pc[r] = "new"
  /\ \A a \in DOMAIN users : users[a].email = c.email => users[a].password # c.password
  /\ form' = [form EXCEPT ![r] = c]
  /\ Finish(r, "unauthorized")
  /\ UNCHANGED <<user, loaded, database, logged_out>>

\* Mutant: the refresh token is not stored.
LoginTokenNotStored(r) ==
  /\ pc[r] = "token"
  /\ Goto(r, "granted")
  /\ UNCHANGED <<form, user, loaded, database, logged_out>>

LoginToken(r) ==
  /\ pc[r] = "token"
  /\ SaveToken(r)
  /\ Goto(r, "granted")
  /\ UNCHANGED <<form, user, loaded, users, user_settings, logged_out>>

-----------------------------------------------------------------------------
(* POST /auth/refresh and POST /auth/logout, with a token that was handed out. *)

HandedOut(j) == answer[j] \in {"created", "ok"} /\ pc[j] = "done" /\ user[j] # Nothing

Row(j) == {t \in tokens : t.jti = j}

\* Mutant: a token is good as long as it is known.
KnownToken(j) == Row(j) # {}

\* The stored token, if there is one, is not revoked.
Usable(j) == \E t \in Row(j) : ~t.revoked

Refresh(r, j) ==
  /\ pc[r] = "new"
  /\ HandedOut(j)
  /\ form' = [form EXCEPT ![r] = j]
  /\ Finish(r, IF Usable(j) THEN "ok" ELSE "unauthorized")
  /\ UNCHANGED <<user, loaded, database, logged_out>>

LogoutLoad(r, j) ==
  /\ pc[r] = "new"
  /\ HandedOut(j)
  /\ form' = [form EXCEPT ![r] = j]
  /\ Goto(r, "logout")
  /\ UNCHANGED <<user, loaded, database, logged_out>>

\* The row is there: HandedOut tokens are stored.  Without one: 204 all the same.
LogoutCommit(r) ==
  /\ pc[r] = "logout"
  /\ tokens' = {IF t.jti = form[r] THEN [t EXCEPT !.revoked = TRUE] ELSE t : t \in tokens}
  /\ Goto(r, "revoked")
  /\ UNCHANGED <<form, user, loaded, users, user_settings, logged_out>>

\* An answer without a body: nothing is loaded for it.
LogoutAnswer(r) ==
  /\ pc[r] = "revoked"
  /\ logged_out' = logged_out \cup {form[r]}
  /\ Finish(r, "bye")
  /\ UNCHANGED <<form, user, loaded, database>>

-----------------------------------------------------------------------------
(* PUT /users/me *)

\* The account is loaded, once; a password change has to name the current one.
UpdateLoad(r, a, f) ==
  /\ pc[r] = "new"
  /\ a \in DOMAIN users
  /\ form' = [form EXCEPT ![r] = f]
  /\ user' = [user EXCEPT ![r] = a]
  /\ loaded' = [loaded EXCEPT ![r] = users[a]]
  /\ IF f.new_password # Nothing /\ f.current_password = Nothing
       THEN Finish(r, "invalid")
       ELSE Goto(r, "rename")
  /\ UNCHANGED <<database, logged_out>>

NameOfOther(r) ==
  \E a \in DOMAIN users : a # user[r] /\ users[a].username = form[r].username

\* The new name is looked up.
UpdateName(r) ==
  /\ pc[r] = "rename"
  /\ IF form[r].username # Nothing /\ NameOfOther(r)
       THEN Finish(r, "conflict")
       ELSE Goto(r, "update")
  /\ UNCHANGED <<form, user, loaded, database, logged_out>>

\* The password is compared with the one that was loaded.
PasswordWrong(r) ==
  /\ form[r].new_password # Nothing
  /\ form[r].current_password # loaded[r].password

\* Nothing of the update is saved, the name neither.
UpdateRefused(r) ==
  /\ pc[r] = "update"
  /\ \/ PasswordWrong(r) /\ Finish(r, "unauthorized")
     \/ ~PasswordWrong(r) /\ form[r].new_password \in Short /\ Finish(r, "invalid")
  /\ UNCHANGED <<form, user, loaded, database, logged_out>>

\* The UPDATE sets the name only when it differs from the one that was loaded.
Renames(r) ==
  form[r].username # Nothing /\ form[r].username # loaded[r].username

WaitingForName(r) ==
  Renames(r) /\ \E s \in Uncommitted : form[s].username = form[r].username

\* Mutant: the whole row is written back as it was loaded.
WrittenBack(r) ==
  [loaded[r] EXCEPT
     !.username = IF form[r].username = Nothing THEN @ ELSE form[r].username,
     !.password = IF form[r].new_password = Nothing THEN @ ELSE form[r].new_password]

Updated(r) ==
  [users[user[r]] EXCEPT
     !.username = IF Renames(r) THEN form[r].username ELSE @,
     !.password = IF form[r].new_password = Nothing THEN @ ELSE form[r].new_password]

UpdateCommit(r) ==
  /\ pc[r] = "update"
  /\ ~PasswordWrong(r) /\ form[r].new_password \notin Short
  /\ ~WaitingForName(r)
  /\ ~(Renames(r) /\ NameOfOther(r))
  /\ users' = [users EXCEPT ![user[r]] = Updated(r)]
  /\ Goto(r, "renamed")
  /\ UNCHANGED <<form, user, loaded, user_settings, tokens, logged_out>>

\* Somebody has taken the name since it was looked up: a 500.
UpdateViolation(r) ==
  /\ pc[r] = "update"
  /\ ~PasswordWrong(r) /\ form[r].new_password \notin Short
  /\ ~WaitingForName(r)
  /\ Renames(r) /\ NameOfOther(r)
  /\ Finish(r, "error")
  /\ UNCHANGED <<form, user, loaded, database, logged_out>>

-----------------------------------------------------------------------------
\* What a request is answered when its last COMMIT is behind it.
Reply == [registered |-> "created", granted |-> "ok", renamed |-> "updated"]

\* The row of the account, which is never deleted, is loaded again for the answer.
Respond(r) ==
  /\ pc[r] \in DOMAIN Reply
  /\ Finish(r, Reply[pc[r]])
  /\ UNCHANGED <<form, user, loaded, database, logged_out>>

\* A statement fails: a 500, also of what was committed already when the statement is
\* the SELECT of Respond.  After a logout or PUT /settings has committed there is none.
DbError(r) ==
  /\ MayFail
  /\ pc[r] \notin {"new", "revoked", "saved", "done", "dead"}
  /\ Finish(r, "error")
  /\ UNCHANGED <<form, user, loaded, database, logged_out>>

Die(r) ==
  /\ MayFail
  /\ pc[r] \notin {"new", "done", "dead"}
  /\ Goto(r, "dead")
  /\ UNCHANGED <<form, user, loaded, database, logged_out>>

Begin(r) ==
  \/ \E f \in Registrations : RegisterEmail(r, f)
  \/ \E c \in Credentials : Login(r, c) \/ LoginRefused(r, c)
  \/ \E j \in Requests : Refresh(r, j) \/ LogoutLoad(r, j)
  \/ \E a \in Ids, f \in Updates : UpdateLoad(r, a, f)

Continue(r) ==
  \/ RegisterName(r) \/ InsertUser(r) \/ InsertUserFails(r) \/ CommitUser(r)
  \/ RegisterToken(r) \/ LoginToken(r) \/ LogoutCommit(r) \/ LogoutAnswer(r)
  \/ UpdateName(r) \/ UpdateRefused(r) \/ UpdateCommit(r) \/ UpdateViolation(r)
  \/ Respond(r)

Next == \E r \in Requests : Begin(r) \/ Continue(r) \/ DbError(r) \/ Die(r)

Spec == Init /\ [][Next]_vars

-----------------------------------------------------------------------------
(* Properties. *)

\* No two accounts share an email or a username, whatever registrations and
\* renames look them up at the same time and write afterwards.
UniqueAccounts ==
  \A a, b \in DOMAIN users :
    users[a].email = users[b].email \/ users[a].username = users[b].username => a = b

\* A request with token j that has committed its logout, or was killed and may have.
LoggingOut(r, j) == form[r] = j /\ (pc[r] \in {"revoked", "dead"} \/ answer[r] = "bye")

\* A client that was given a refresh token can use it: the token is stored, for
\* the account the client authenticated as, until it asks for a logout.
HandedOutIsStored ==
  \A j \in Requests : HandedOut(j) =>
    \E t \in tokens : /\ t.jti = j
                      /\ t.user = user[j]
                      /\ t.user \in DOMAIN users
                      /\ t.revoked => \E r \in Requests : LoggingOut(r, j)

\* Once a logout has been answered, no later refresh with its token succeeds, and
\* nothing brings the token back.
NoRefreshAfterLogout ==
  [][\A r, j \in Requests :
       j \in logged_out /\ pc[r] = "new" /\ form'[r] = j /\ pc'[r] = "done"
         => answer'[r] = "unauthorized"]_vars

\* A field of an account changes only by an update of that account that asked for that
\* very value and is past its checks, and a password only by one that named the password
\* that was current when it began: a rename and a password change at the same time do
\* not undo each other, and a step that refuses an update changes nothing.
OnlyRequestedChanges ==
  [][\A a \in DOMAIN users : users'[a] # users[a] =>
       \E r \in Requests :
         /\ user[r] = a
         /\ pc[r] = "update" /\ answer'[r] = "none"
         /\ users'[a].username \in {users[a].username, form[r].username}
         /\ users'[a].password # users[a].password =>
              /\ users'[a].password = form[r].new_password
              /\ form[r].current_password = loaded[r].password]_vars
=============================================================================
