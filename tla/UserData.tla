------------------------------ MODULE UserData ------------------------------
(***************************************************************************)
(* Accounts and settings together: the requests of Accounts and PUT        *)
(* /settings over one database.  A registration creates the row that a     *)
(* settings request of the new account loads and updates.                  *)
(***************************************************************************)
EXTENDS Accounts

CONSTANTS Fields, Checked, InRange, Incomparable, Column, Bodies

\* The values of field f that a request may save.
Accepted(f) == {v \in DOMAIN Column[f] : f \in Checked => v \in InRange[f]}

\* What a row may hold then.
Held(f) == {Column[f][v] : v \in Accepted(f)}

ASSUME CheckedAssumption == Checked \subseteq Fields
ASSUME ColumnsAssumption ==
  /\ \A f \in Fields : Nothing \notin DOMAIN Column[f]
  /\ \A f \in Checked : InRange[f] \cap Incomparable = {}
ASSUME BodiesAssumption == \A b \in Bodies : DOMAIN b = Fields
ASSUME RowsAssumption ==
  /\ DOMAIN Defaults = Fields /\ \A f \in Fields : Defaults[f] \in Held(f)
  /\ \A init \in InitSettings : \A a \in DOMAIN init :
       DOMAIN init[a] = Fields /\ \A f \in Fields : init[a][f] \in Held(f)

S == INSTANCE Settings

SettingsStep(r) ==
  /\ S!Step(r, DOMAIN users)
  /\ UNCHANGED <<users, tokens, logged_out>>

AllNext == Next \/ \E r \in Requests : SettingsStep(r)

AllSpec == Init /\ [][AllNext]_vars

-----------------------------------------------------------------------------
(* Properties. *)

\* Every variable holds a value of its type; a form or a loaded row is whatever the
\* handler of the request takes for one.
TypeOK ==
  /\ pc \in [Requests -> PCs \cup {"assign", "saved"}]
  /\ DOMAIN form = Requests /\ DOMAIN loaded = Requests
  /\ user \in [Requests -> Ids \cup {Nothing}]
  /\ answer \in [Requests -> Answers \cup {"missing"}]
  /\ DOMAIN users \subseteq Ids /\ \A a \in DOMAIN users : users[a] \in Accounts
  /\ DOMAIN user_settings \subseteq Ids
  /\ tokens \subseteq Tokens
  /\ logged_out \subseteq Requests

\* Wherever a registration stops, its account has its settings row, and a request for
\* the settings of an account that was registered never answers that there are none.
AccountsAreComplete ==
  /\ DOMAIN user_settings \subseteq DOMAIN users
  /\ DOMAIN users \cap Requests \subseteq DOMAIN user_settings
  /\ \A r \in Requests : answer[r] = "missing" => user[r] \notin Requests

\* A row holds only what its columns make of values that the checks let pass, though
\* a request checks and assigns its fields one by one, others write in between, and
\* columns that are left out keep what an earlier request has stored.  A column that
\* stores numbers as they are so stays within the range of its check; an integer
\* column does not, for it rounds a fraction that passed to 0.
RowIsAllowed ==
  \A a \in DOMAIN user_settings, f \in Fields : user_settings[a][f] \in Held(f)

\* MANUAL.md, "Partial update": a field changes only by a request of its user that
\* names it, to what its column makes of the value it names, so clients that edit
\* different fields of a row at the same time do not undo each other; and a request
\* changes no field at all when it names one value that is out of range.
PartialUpdate ==
  [][\A a \in DOMAIN user_settings, f \in Fields :
       user_settings'[a][f] # user_settings[a][f] =>
         \E r \in Requests :
           /\ pc[r] = "assign" /\ user[r] = a
           /\ form[r][f] \in DOMAIN Column[f]
           /\ user_settings'[a][f] = Column[f][form[r][f]]
           /\ \A g \in Checked : form[r][g] \in InRange[g] \cup {Nothing}]_vars
=============================================================================
