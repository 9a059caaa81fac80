------------------------------ MODULE Settings ------------------------------
(***************************************************************************)
(* PUT /settings (app/routes/settings.py, update_settings) by several      *)
(* clients.  A request loads the row of its user, validates and assigns    *)
(* the fields of its body, and commits.  SQLAlchemy writes the columns     *)
(* whose value then differs from the one it loaded, and only those.        *)
(*                                                                         *)
(* UserData runs these requests beside those of Accounts: pc, user, form,  *)
(* loaded and answer are those of a request of either kind.                *)
(***************************************************************************)
EXTENDS Integers

CONSTANTS
  Requests,
  Fields,         \* columns of user_settings
  Checked,        \* the fields whose range the handler checks
  InRange,        \* the values of each of these that pass the check
  Incomparable,   \* the values that no number is compared with: a text, null
  Column,         \* for each field, a function from the values its column takes
                  \* to what it then holds: an integer column rounds a fraction
  Nothing,        \* the field is not in the body
  Bodies          \* the bodies that clients send

VARIABLES
  pc,
  user,           \* the id of the caller
  form,           \* the body of the request
  loaded,         \* the row as the request has loaded it
  answer,
  user_settings   \* committed rows: a function from ids of users

Finish(r, a) ==
  /\ pc' = [pc EXCEPT ![r] = "done"]
  /\ answer' = [answer EXCEPT ![r] = a]

NotFound(r, u) ==
  /\ pc[r] = "new"
  /\ u \notin DOMAIN user_settings
  /\ user' = [user EXCEPT ![r] = u]
  /\ Finish(r, "missing")
  /\ UNCHANGED <<form, loaded, user_settings>>

Load(r, u, b) ==
  /\ pc[r] = "new"
  /\ u \in DOMAIN user_settings
  /\ user' = [user EXCEPT ![r] = u]
  /\ form' = [form EXCEPT ![r] = b]
  /\ loaded' = [loaded EXCEPT ![r] = user_settings[u]]
  /\ pc' = [pc EXCEPT ![r] = "assign"]
  /\ UNCHANGED <<answer, user_settings>>

Named(r) == {f \in Fields : form[r][f] # Nothing}

\* Mutant: the checks refuse nothing.
NeverRefused(r) == FALSE

\* One value out of range and nothing is assigned.
OutOfRange(r) ==
  \E f \in Named(r) \cap Checked : form[r][f] \notin InRange[f] \cup Incomparable

Refuse(r) ==
  /\ pc[r] = "assign"
  /\ OutOfRange(r)
  /\ Finish(r, "invalid")
  /\ UNCHANGED <<user, form, loaded, user_settings>>

\* Mutant: every column is written, the ones that were not sent as loaded.
AllColumns(r) == Fields

\* The columns of the UPDATE.
Changed(r) == {f \in Named(r) : form[r][f] # loaded[r][f]}

\* What the UPDATE writes: a body wins over the row.
NewValue(r, f) == IF f \in Named(r) THEN form[r][f] ELSE loaded[r][f]

\* A number is compared with something else, or a column does not take its value.
Raises(r) ==
  \/ \E f \in Named(r) \cap Checked : form[r][f] \in Incomparable
  \/ ~OutOfRange(r) /\ \E f \in Changed(r) : NewValue(r, f) \notin DOMAIN Column[f]

\* A 500.  The checks are made one by one: with a value out of range and one of another
\* type in the body, the first of them decides.
Fail(r) ==
  /\ pc[r] = "assign"
  /\ Raises(r)
  /\ Finish(r, "error")
  /\ UNCHANGED <<user, form, loaded, user_settings>>

\* The UPDATE and its COMMIT ...
Write(r) ==
  /\ pc[r] = "assign"
  /\ ~OutOfRange(r) /\ ~Raises(r)
  /\ user_settings' = [user_settings EXCEPT ![user[r]] =
       [f \in Fields |-> IF f \in Changed(r) THEN Column[f][NewValue(r, f)] ELSE @[f]]]
  /\ pc' = [pc EXCEPT ![r] = "saved"]
  /\ UNCHANGED <<answer, user, form, loaded>>

\* ... and the answer, which reads nothing.
Confirm(r) ==
  /\ pc[r] = "saved"
  /\ Finish(r, "updated")
  /\ UNCHANGED <<user, form, loaded, user_settings>>

\* A step of request r, whose caller, when it begins, is one of callers.
Step(r, callers) ==
  \/ \E u \in callers : NotFound(r, u) \/ \E b \in Bodies : Load(r, u, b)
  \/ Refuse(r) \/ Fail(r) \/ Write(r) \/ Confirm(r)

=============================================================================
