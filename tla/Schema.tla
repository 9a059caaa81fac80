------------------------------- MODULE Schema -------------------------------
(***************************************************************************)
(* The database schema and the Alembic revisions that change it            *)
(* (migrations/versions/), as lists of operations on tables, and the       *)
(* tables as the models of the application declare them (app/models.py).   *)
(* A revision is named after the first characters of its id.  DDL fails    *)
(* where PostgreSQL refuses it: because of the schema, or because of rows. *)
(***************************************************************************)
EXTENDS Integers, Sequences, SequencesExt, Functions

(* Tables.  A column is declared by its type and whether it may be null and
   has a server default; an index or unique constraint is an entry of its table
   like a column, under its name, and every row holds Null for it. *)

Null == "null"

Opt(type) == [type |-> type, null |-> TRUE, default |-> FALSE]
Req(type) == [type |-> type, null |-> FALSE, default |-> FALSE]
Def(type) == [type |-> type, null |-> FALSE, default |-> TRUE]
Index == Opt("index")

\* The columns, or rows, of both; those of f where both have them.
f ++ g == [c \in DOMAIN f \cup DOMAIN g |-> IF c \in DOMAIN f THEN f[c] ELSE g[c]]

Cols(names, decl) == [c \in names |-> decl]

Tables == {"users", "acl_entries", "blacklist_entries", "model_versions", "refresh_tokens",
           "unknown_events", "user_settings", "training_samples", "firewall_logs",
           "hardware_metrics"}

\* A table that does not exist.
NoTable == [cols |-> << >>, rows |-> << >>]

Exists(db, t) == DOMAIN db[t].cols # {}

NoTables == [t \in Tables |-> NoTable]

\* The tables that a table's foreign keys refer to: user_id is always a key of users,
\* event_id of unknown_events.
Refers(cols) ==
  {t \in Tables : \/ t = "users" /\ "user_id" \in DOMAIN cols
                  \/ t = "unknown_events" /\ "event_id" \in DOMAIN cols}

(* Operations of a revision. *)

Create(t, cols)   == [op |-> "create", table |-> t, cols |-> cols]
DropTable(t)      == [op |-> "drop table", table |-> t]
Add(t, cols)      == [op |-> "add", table |-> t, cols |-> cols]
Drop(t, names)    == [op |-> "drop", table |-> t, names |-> names]
Alter(t, cols)    == [op |-> "alter", table |-> t, cols |-> cols]
\* UPDATE: each column in the domain of from takes the value of another one, or
\* instead of Null the value that otherwise gives.
Update(t, from, otherwise) ==
  [op |-> "update", table |-> t, from |-> from, otherwise |-> otherwise]
\* drop_constraint(None): Alembic cannot name the constraint and raises.
DropUnnamed(t)    == [op |-> "drop unnamed", table |-> t]

\* The operation does not fit the schema.
Misfits(o, db) ==
  LET cols == db[o.table].cols IN
    CASE o.op = "create" ->
           \/ Exists(db, o.table)
           \/ \E t \in Refers(o.cols) : ~Exists(db, t)
      [] o.op = "drop table" ->
           \/ ~Exists(db, o.table)
           \/ \E t \in Tables : o.table \in Refers(db[t].cols)
      [] o.op = "add" -> ~Exists(db, o.table) \/ DOMAIN o.cols \cap DOMAIN cols # {}
      [] o.op = "drop" -> ~(o.names \subseteq DOMAIN cols)
      [] o.op = "alter" -> ~(DOMAIN o.cols \subseteq DOMAIN cols)
      [] o.op = "update" -> ~(DOMAIN o.from \cup Range(o.from) \subseteq DOMAIN cols)

\* What an UPDATE puts into column c of a row.
Assigned(o, row, c) == IF row[o.from[c]] = Null THEN o.otherwise[c] ELSE row[o.from[c]]

\* Some fields of a log have values that fit one of their columns and not another: a long
\* text, a number out of range (NaN is one: it is no integer).
Wide == [verdict |-> "long verdict", threat |-> "long threat",
         size |-> "large size", protocol |-> "large protocol"]

\* The type of the columns that are too narrow for them.
Narrow == [verdict |-> "S10", threat |-> "S20", size |-> "Int", protocol |-> "Small"]

TooNarrow(type, value) == \E f \in DOMAIN Wide : value = Wide[f] /\ type = Narrow[f]

\* Some row of the table cannot satisfy the operation: it has no value for a new NOT
\* NULL column, Null in a column that becomes NOT NULL, or a value that does not fit the
\* type that its column gets or the column that it is copied or cast into.
Obstructs(o, db) ==
  LET rows == db[o.table].rows  cols == db[o.table].cols IN
    \E i \in DOMAIN rows :
      CASE o.op = "add" -> \E c \in DOMAIN o.cols : ~o.cols[c].null /\ ~o.cols[c].default
        [] o.op = "alter" -> \E c \in DOMAIN o.cols :
             (~o.cols[c].null /\ rows[i][c] = Null) \/ TooNarrow(o.cols[c].type, rows[i][c])
        [] o.op = "update" -> \E c \in DOMAIN o.from :
             TooNarrow(cols[c].type, Assigned(o, rows[i], c))
        [] OTHER -> FALSE

\* The columns and rows of the operation's table after it.
Changed(o, table) ==
  LET rows == table.rows IN
    CASE o.op = "create" -> [cols |-> o.cols, rows |-> << >>]
      [] o.op = "drop table" -> NoTable
      [] o.op = "add" ->
           [cols |-> table.cols ++ o.cols,
            rows |-> [i \in DOMAIN rows |->
              rows[i] ++ [c \in DOMAIN o.cols |-> IF o.cols[c].default THEN "default" ELSE Null]]]
      [] o.op = "drop" ->
           LET kept == DOMAIN table.cols \ o.names IN
             [cols |-> Restrict(table.cols, kept),
              rows |-> [i \in DOMAIN rows |-> Restrict(rows[i], kept)]]
      [] o.op = "alter" -> [table EXCEPT !.cols = o.cols ++ @]
      [] o.op = "update" ->
           [table EXCEPT !.rows = [i \in DOMAIN rows |->
              [c \in DOMAIN o.from |-> Assigned(o, rows[i], c)] ++ rows[i]]]

\* Why an operation is refused: "none" if it is not.
Refusal(o, db) ==
  CASE o.op = "drop unnamed" -> "unnamed"
    [] o.op # "drop unnamed" /\ Misfits(o, db) -> "schema"
    [] o.op # "drop unnamed" /\ ~Misfits(o, db) ->
         IF Obstructs(o, db) THEN "rows" ELSE "none"

Perform(db, o) == [db EXCEPT ![o.table] = Changed(o, @)]

\* The tables an operation locks: its own and, where it adds or drops foreign keys,
\* those they refer to.
Locks(o, db) ==
  {o.table} \cup CASE o.op = "create" -> Refers(o.cols)
                   [] o.op = "drop table" -> Refers(db[o.table].cols)
                   [] OTHER -> {}

-----------------------------------------------------------------------------
(* 94aa680a19c8: the initial tables. *)

AclEntries ==
  [id |-> Req("Int"), user_id |-> Req("Int"), ip |-> Req("S45"),
   notes |-> Opt("S255"), added_at |-> Opt("Time"),
   unique_acl_user_ip |-> Index]

ModelVersions ==
  Cols({"id", "user_id"}, Req("Int"))
    ++ [name |-> Req("S100"), filename |-> Req("S255"),
        accuracy |-> Opt("Float"), samples |-> Opt("Int"), is_active |-> Opt("Bool"),
        deployed_at |-> Opt("Time")]

TrainingSamples ==
  [id |-> Req("Int"), label |-> Req("S20")]
    ++ Cols({"event_id", "protocol", "tot_fwd_pkts"}, Opt("Int"))
    ++ Cols({"flow_iat_mean", "pkt_size_avg", "flow_duration"}, Opt("Float"))
    ++ [created_at |-> Opt("Time"), training_samples_event_id_key |-> Index]

upgrade_94aa == <<
  Create("users",
    [id |-> Req("Int")] ++ Cols({"email", "password"}, Req("S255"))
      ++ [is_admin |-> Opt("Bool"), created_at |-> Opt("Time"),
          users_email_key |-> Index]),
  Create("acl_entries", AclEntries),
  Create("blacklist_entries",
    Cols({"id", "user_id"}, Req("Int")) ++ [ip |-> Req("S45"), reason |-> Opt("S20")]
      ++ Cols({"bf_score", "dos_score"}, Opt("Float"))
      ++ [notes |-> Opt("S255"),
          added_at |-> Opt("Time"), unique_blacklist_user_ip |-> Index]),
  Create("model_versions", ModelVersions),
  Create("refresh_tokens",
    Cols({"id", "user_id"}, Req("Int"))
      ++ [jti |-> Req("S36"), revoked |-> Opt("Bool"),
          created_at |-> Opt("Time"), refresh_tokens_jti_key |-> Index]),
  Create("unknown_events",
    Cols({"id", "user_id"}, Req("Int")) ++ [src_ip |-> Opt("S45")]
      ++ Cols({"src_port", "dst_port", "protocol", "size_bytes", "tot_fwd_pkts"}, Opt("Int"))
      ++ Cols({"flow_iat_mean", "pkt_size_avg", "flow_duration", "bf_score", "dos_score"},
              Opt("Float"))
      ++ Cols({"status", "label"}, Opt("S20")) ++ Cols({"created_at", "reviewed_at"}, Opt("Time"))),
  Create("user_settings",
    Cols({"id", "user_id"}, Req("Int"))
      ++ Cols({"block_threshold", "warn_threshold"}, Opt("Float"))
      ++ Cols({"flood_detection", "syn_flood_detection", "bf_model_enabled",
               "dos_model_enabled"}, Opt("Bool"))
      ++ Cols({"flood_pkt_per_sec", "syn_flood_per_sec", "max_log_entries"}, Opt("Int"))
      ++ [user_settings_user_id_key |-> Index]),
  Create("training_samples", TrainingSamples) >>

downgrade_94aa == <<
  DropTable("training_samples"), DropTable("user_settings"), DropTable("unknown_events"),
  DropTable("refresh_tokens"), DropTable("model_versions"), DropTable("blacklist_entries"),
  DropTable("acl_entries"), DropTable("users") >>

(* fcaac66924ad: user names, hardware metrics, the first firewall_logs. *)

upgrade_fcaa == <<
  Create("firewall_logs",
    Cols({"id", "user_id"}, Req("Int")) ++ [src_ip |-> Opt("S45")]
      ++ Cols({"src_port", "dst_port", "protocol", "size_bytes", "tot_fwd_pkts"}, Opt("Int"))
      ++ Cols({"flow_iat_mean", "pkt_size_avg", "flow_duration", "selected_score"}, Opt("Float"))
      ++ Cols({"selected_model", "service_name", "app_name"}, Opt("S100"))
      ++ [all_model_scores |-> Opt("Text"), action |-> Req("S20"),
          threat_type |-> Opt("S50"), app_package |-> Opt("S200"),
          is_system |-> Opt("Bool"), created_at |-> Opt("Time")]),
  Create("hardware_metrics",
    Cols({"id", "user_id", "ram_used_mb", "ram_total_mb"}, Req("Int"))
      ++ [cpu_usage |-> Req("Float"), battery_level |-> Opt("Float"),
          recorded_at |-> Opt("Time")]),
  Add("user_settings", [log_system_traffic |-> Opt("Bool")]),
  Add("users", [username |-> Req("S100")]),
  Add("users", [users_username_key |-> Index]) >>

downgrade_fcaa == <<
  DropUnnamed("users"),
  Drop("users", {"username"}),
  Drop("user_settings", {"log_system_traffic"}),
  DropTable("hardware_metrics"),
  DropTable("firewall_logs") >>

(* fe31bd54168d: firewall_logs gets the features of the models. *)

upgrade_fe31 == <<
  Add("firewall_logs",
    [timestamp |-> Opt("Time"), dst_ip |-> Opt("S45")]
      ++ Cols({"packet_size", "duration", "iat_mean", "iat_std", "fwd_pkts", "bwd_pkts",
               "fwd_max", "fwd_rate", "fwd_mean", "idle_mean", "prob_brute", "prob_dos",
               "prob_adv_dos", "prob_loic", "prob_hoic", "max_attack_prob"}, Opt("Float"))
      ++ [top_threat_type |-> Opt("S20"), action_taken |-> Req("S15")]),
  Drop("firewall_logs",
    {"action", "threat_type", "tot_fwd_pkts", "selected_model", "selected_score",
     "flow_iat_mean", "created_at", "size_bytes", "flow_duration"}) >>

downgrade_fe31 == <<
  Add("firewall_logs",
    Cols({"flow_duration", "flow_iat_mean", "selected_score"}, Opt("Float"))
      ++ Cols({"size_bytes", "tot_fwd_pkts"}, Opt("Int"))
      ++ [created_at |-> Opt("Time"),
          selected_model |-> Opt("S100"), threat_type |-> Opt("S50"),
          action |-> Req("S20")]),
  Drop("firewall_logs",
    {"action_taken", "max_attack_prob", "top_threat_type", "prob_hoic", "prob_loic",
     "prob_adv_dos", "prob_dos", "prob_brute", "idle_mean", "fwd_mean", "fwd_rate", "fwd_max",
     "bwd_pkts", "fwd_pkts", "iat_std", "iat_mean", "duration", "packet_size", "dst_ip",
     "timestamp"}) >>

(* b7f2c9d1a3e4: firewall_logs as the wire contract has it. *)

\* Mutant: the threat type is not copied.
BackfillWithoutThreat ==
  Update("firewall_logs",
    [action |-> "action_taken", size_bytes |-> "packet_size",
     selected_score |-> "max_attack_prob", created_at |-> "timestamp"],
    [action |-> "allowed", created_at |-> "now"] ++ Cols({"size_bytes", "selected_score"}, Null))

\* Mutant: the time is not copied.
BackfillWithoutTime ==
  Update("firewall_logs",
    [action |-> "action_taken", size_bytes |-> "packet_size",
     selected_score |-> "max_attack_prob", threat_type |-> "top_threat_type"],
    [action |-> "allowed"] ++ Cols({"size_bytes", "selected_score", "threat_type"}, Null))

\* "Backfill the contract columns from the legacy ML-feature columns so any existing
\* rows survive the switch."
Backfill ==
  Update("firewall_logs",
    [action |-> "action_taken", size_bytes |-> "packet_size",
     selected_score |-> "max_attack_prob", threat_type |-> "top_threat_type",
     created_at |-> "timestamp"],
    [action |-> "allowed", created_at |-> "now"]
      ++ Cols({"size_bytes", "selected_score", "threat_type"}, Null))

\* Mutant: received_at has no server default.
ContractColumnsNoDefault ==
  [size_bytes |-> Opt("Int"), selected_model |-> Opt("S100"), selected_score |-> Opt("Float"),
   threat_type |-> Opt("S50"), action |-> Opt("S10"), created_at |-> Opt("TimeTz"),
   received_at |-> Req("TimeTz")]

\* The columns that are added before the rows have values for them.
ContractColumns ==
  [size_bytes |-> Opt("Int"), selected_model |-> Opt("S100"), selected_score |-> Opt("Float"),
   threat_type |-> Opt("S50"), action |-> Opt("S10"), created_at |-> Opt("TimeTz"),
   received_at |-> Def("TimeTz")]

upgrade_b7f2 == <<
  Add("firewall_logs", ContractColumns),
  Backfill,
  Alter("firewall_logs",
    [action |-> Req("S10"), created_at |-> Req("TimeTz"), protocol |-> Opt("Small"),
     id |-> Req("Big"), is_system |-> Def("Bool")]),
  Drop("firewall_logs", {"all_model_scores"}),
  Add("firewall_logs", [all_model_scores |-> Opt("Json")]),
  Drop("firewall_logs",
    {"timestamp", "dst_ip", "packet_size", "duration", "iat_mean", "iat_std", "fwd_pkts",
     "bwd_pkts", "fwd_max", "fwd_rate", "fwd_mean", "idle_mean", "pkt_size_avg", "prob_brute",
     "prob_dos", "prob_adv_dos", "prob_loic", "prob_hoic", "top_threat_type",
     "max_attack_prob", "action_taken"}),
  Add("firewall_logs", Cols({"ix_fwlogs_user_created", "ix_fwlogs_user_action"}, Index)) >>

downgrade_b7f2 == <<
  Drop("firewall_logs", {"ix_fwlogs_user_action", "ix_fwlogs_user_created"}),
  Add("firewall_logs",
    [timestamp |-> Opt("Time"), dst_ip |-> Opt("S45")]
      ++ Cols({"packet_size", "duration", "iat_mean", "iat_std", "fwd_pkts", "bwd_pkts",
               "fwd_max", "fwd_rate", "fwd_mean", "idle_mean", "pkt_size_avg", "prob_brute",
               "prob_dos", "prob_adv_dos", "prob_loic", "prob_hoic", "max_attack_prob"},
              Opt("Float"))
      ++ [top_threat_type |-> Opt("S20"), action_taken |-> Opt("S15")]),
  Update("firewall_logs",
    [action_taken |-> "action", packet_size |-> "size_bytes",
     max_attack_prob |-> "selected_score", top_threat_type |-> "threat_type",
     timestamp |-> "created_at"],
    Cols({"action_taken", "packet_size", "max_attack_prob", "top_threat_type", "timestamp"},
         Null)),
  Alter("firewall_logs", [action_taken |-> Req("S15")]),
  Drop("firewall_logs", {"all_model_scores"}),
  Add("firewall_logs", [all_model_scores |-> Opt("Text")]),
  Alter("firewall_logs", [id |-> Req("Int"), protocol |-> Opt("Int")]),
  Drop("firewall_logs", {"received_at", "created_at", "action", "threat_type",
                         "selected_score", "selected_model", "size_bytes"}) >>

(* c1d2e3f4a5b6: three tables are dropped. *)

upgrade_c1d2 == <<
  DropTable("training_samples"), DropTable("model_versions"), DropTable("acl_entries") >>

\* Mutant: the samples are forgotten.
downgrade_c1d2_two_tables == <<
  Create("acl_entries", AclEntries),
  Create("model_versions", ModelVersions) >>

downgrade_c1d2 == <<
  Create("acl_entries", AclEntries),
  Create("model_versions", ModelVersions),
  Create("training_samples", TrainingSamples) >>

(* a3e5c7b9d1f2: five flow features come back to firewall_logs. *)

upgrade_a3e5 == <<
  Add("firewall_logs",
    [dst_ip |-> Opt("S45")] ++ Cols({"duration", "fwd_rate"}, Opt("Float"))
      ++ Cols({"fwd_pkts", "bwd_pkts"}, Opt("Int"))) >>

\* Mutant: dst_ip is not dropped.
downgrade_a3e5_without_ip == <<
  Drop("firewall_logs", {"fwd_rate", "bwd_pkts", "fwd_pkts", "duration"}) >>

downgrade_a3e5 == <<
  Drop("firewall_logs", {"fwd_rate", "bwd_pkts", "fwd_pkts", "duration", "dst_ip"}) >>

(* d4e6f8a1b2c3: three more switches for the models of a user. *)

upgrade_d4e6 == <<
  Add("user_settings",
    Cols({"hulk_model_enabled", "loic_model_enabled", "hoic_model_enabled"}, Def("Bool"))) >>

downgrade_d4e6 == <<
  Drop("user_settings", {"hoic_model_enabled", "loic_model_enabled", "hulk_model_enabled"}) >>

(* e5f7a9b2c4d6: the scores of a blacklist entry. *)

\* Mutant: the two old scores are kept.
upgrade_e5f7_scores_kept == <<
  Add("blacklist_entries",
    [selected_model |-> Opt("S100"), selected_score |-> Opt("Float"),
     all_model_scores |-> Opt("Json")]) >>

upgrade_e5f7 == <<
  Add("blacklist_entries",
    [selected_model |-> Opt("S100"), selected_score |-> Opt("Float"),
     all_model_scores |-> Opt("Json")]),
  Drop("blacklist_entries", {"bf_score", "dos_score"}) >>

downgrade_e5f7 == <<
  Add("blacklist_entries", Cols({"dos_score", "bf_score"}, Opt("Float"))),
  Drop("blacklist_entries", {"all_model_scores", "selected_score", "selected_model"}) >>

(* f6a8b1c3d5e7: the fields of an unknown event. *)

upgrade_f6a8 == <<
  Add("unknown_events",
    [dst_ip |-> Opt("S45")] ++ Cols({"duration", "fwd_rate", "selected_score"}, Opt("Float"))
      ++ Cols({"fwd_pkts", "bwd_pkts"}, Opt("Int"))
      ++ [selected_model |-> Opt("S100"),
          all_model_scores |-> Opt("Json"), threat_type |-> Opt("S50")]),
  Drop("unknown_events",
    {"flow_iat_mean", "tot_fwd_pkts", "pkt_size_avg", "flow_duration", "bf_score",
     "dos_score"}) >>

downgrade_f6a8 == <<
  Add("unknown_events",
    Cols({"dos_score", "bf_score", "flow_duration", "pkt_size_avg", "flow_iat_mean"},
         Opt("Float")) ++ [tot_fwd_pkts |-> Opt("Int")]),
  Drop("unknown_events",
    {"threat_type", "all_model_scores", "selected_score", "selected_model", "fwd_rate",
     "bwd_pkts", "fwd_pkts", "duration", "dst_ip"}) >>

-----------------------------------------------------------------------------
(* The chain: revision v is the v-th from the first, 0 is the empty database. *)

Upgrades ==
  <<upgrade_94aa, upgrade_fcaa, upgrade_fe31, upgrade_b7f2, upgrade_c1d2, upgrade_a3e5,
    upgrade_d4e6, upgrade_e5f7, upgrade_f6a8>>

Downgrades ==
  <<downgrade_94aa, downgrade_fcaa, downgrade_fe31, downgrade_b7f2, downgrade_c1d2,
    downgrade_a3e5, downgrade_d4e6, downgrade_e5f7, downgrade_f6a8>>

Latest == Len(Upgrades)

\* The schemas that upgrading an empty database gives, one revision after the other.
Schemas ==
  LET Upgraded(schemas, ops) == Append(schemas, FoldLeft(Perform, Last(schemas), ops)) IN
    FoldLeft(Upgraded, <<NoTables>>, Upgrades)

SchemaAt(v) == Schemas[v + 1]

-----------------------------------------------------------------------------
(* app/models.py.  A default of the models is filled in by SQLAlchemy, so it is not
   one of the database. *)

Models ==
  [users |->
      [id |-> Req("Int"), username |-> Req("S100")] ++ Cols({"email", "password"}, Req("S255"))
        ++ [is_admin |-> Opt("Bool"), created_at |-> Opt("Time")]
        ++ Cols({"users_username_key", "users_email_key"}, Index),
   refresh_tokens |->
      Cols({"id", "user_id"}, Req("Int"))
        ++ [jti |-> Req("S36"), revoked |-> Opt("Bool"),
            created_at |-> Opt("Time"), refresh_tokens_jti_key |-> Index],
   blacklist_entries |->
      Cols({"id", "user_id"}, Req("Int"))
        ++ [ip |-> Req("S45"), reason |-> Opt("S20"),
            selected_model |-> Opt("S100"), selected_score |-> Opt("Float"),
            all_model_scores |-> Opt("Json"), notes |-> Opt("S255"),
            added_at |-> Opt("Time"), unique_blacklist_user_ip |-> Index],
   unknown_events |->
      Cols({"id", "user_id"}, Req("Int")) ++ Cols({"src_ip", "dst_ip"}, Opt("S45"))
        ++ Cols({"src_port", "dst_port", "protocol", "size_bytes", "fwd_pkts", "bwd_pkts"},
                Opt("Int"))
        ++ Cols({"duration", "fwd_rate", "selected_score"}, Opt("Float"))
        ++ [selected_model |-> Opt("S100"), all_model_scores |-> Opt("Json"),
            threat_type |-> Opt("S50")] ++ Cols({"status", "label"}, Opt("S20"))
        ++ Cols({"created_at", "reviewed_at"}, Opt("Time")),
   user_settings |->
      Cols({"id", "user_id"}, Req("Int"))
        ++ Cols({"block_threshold", "warn_threshold"}, Opt("Float"))
        ++ Cols({"flood_detection", "syn_flood_detection", "bf_model_enabled",
                 "dos_model_enabled", "hulk_model_enabled", "loic_model_enabled",
                 "hoic_model_enabled", "log_system_traffic"}, Opt("Bool"))
        ++ Cols({"flood_pkt_per_sec", "syn_flood_per_sec", "max_log_entries"}, Opt("Int"))
        ++ [user_settings_user_id_key |-> Index],
   hardware_metrics |->
      Cols({"id", "user_id", "ram_used_mb", "ram_total_mb"}, Req("Int"))
        ++ [cpu_usage |-> Req("Float"), battery_level |-> Opt("Float"),
            recorded_at |-> Opt("Time")],
   firewall_logs |->
      [id |-> Req("Big"), user_id |-> Req("Int")] ++ Cols({"src_ip", "dst_ip"}, Opt("S45"))
        ++ Cols({"src_port", "dst_port", "size_bytes", "fwd_pkts", "bwd_pkts"}, Opt("Int"))
        ++ [protocol |-> Opt("Small")] ++ Cols({"duration", "fwd_rate", "selected_score"}, Opt("Float"))
        ++ Cols({"selected_model", "service_name", "app_name"}, Opt("S100"))
        ++ [all_model_scores |-> Opt("Json"), action |-> Req("S10"),
            threat_type |-> Opt("S50"), app_package |-> Opt("S200"),
            is_system |-> Req("Bool")] ++ Cols({"created_at", "received_at"}, Req("TimeTz"))
        ++ Cols({"ix_fwlogs_user_created", "ix_fwlogs_user_action"}, Index)]

\* Three switches may be null in the models (and PATCH /settings writes the null it is
\* sent), but d4e6f8a1b2c3 makes them NOT NULL.
Diverging ==
  {"user_settings"} \X {"hulk_model_enabled", "loic_model_enabled", "hoic_model_enabled"}

\* The tables are those of the models: the same columns and indexes, of the same types,
\* NULL where the models say so, and NOT NULL where they say so or diverge.
FitsModels(db) ==
  \A t \in Tables :
    IF t \notin DOMAIN Models THEN ~Exists(db, t)
    ELSE /\ DOMAIN db[t].cols = DOMAIN Models[t]
         /\ \A c \in DOMAIN Models[t] :
              LET col == db[t].cols[c]  model == Models[t][c] IN
                /\ col.type = model.type
                /\ col.null = (model.null /\ <<t, c>> \notin Diverging)

-----------------------------------------------------------------------------
(* What the revisions are expected to do, one after the other. *)

OperationsOf(command, v) == IF command = "upgrade" THEN Upgrades[v + 1] ELSE Downgrades[v]

\* The revisions that a command may run when the schema is that of revision v.
Runs(command, v) ==
  \/ command = "upgrade" /\ v \in 0 .. Latest - 1
  \/ command = "downgrade" /\ v \in 1 .. Latest

\* The revision it leads to.
Neighbour(command, v) == IF command = "upgrade" THEN v + 1 ELSE v - 1

Unnamed(ops) == \E n \in DOMAIN ops : ops[n].op = "drop unnamed"

\* The schema when n operations of the revision have been performed.
Partway(command, v, n) ==
  IF n = 0 THEN SchemaAt(v)
  ELSE FoldLeft(Perform, SchemaAt(v), SubSeq(OperationsOf(command, v), 1, n))

IsSchema(db) ==
  DOMAIN db = Tables /\ \A t \in Tables : DOMAIN db[t] = {"cols", "rows"}

\* The columns are those that are expected, but is_system may have become NOT NULL.
Follows(cols, expected) ==
  /\ DOMAIN cols = DOMAIN expected
  /\ \A c \in DOMAIN cols :
       cols[c] = expected[c] \/ (c = "is_system" /\ cols[c] = Def("Bool"))

\* The n-th operation of a revision fits the schema that those before it have made.
OperationFits(command, v, n) ==
  LET o == OperationsOf(command, v)[n]  before == Partway(command, v, n - 1) IN
    /\ IsSchema(before)
    /\ o.op \in {"create", "drop table", "add", "drop", "alter", "update"}
    /\ ~Misfits(o, before)
    /\ Partway(command, v, n) = Perform(before, o)

\* Each revision, up and down, can be performed in the schema that it is written for and
\* gives that of the revision it leads to.  One downgrade is never performed, for it begins
\* with the constraint without a name.
RevisionsFit ==
  \A command \in {"upgrade", "downgrade"}, v \in 0 .. Latest : Runs(command, v) =>
    LET ops == OperationsOf(command, v)  reached == Partway(command, v, Len(ops)) IN
      /\ Len(ops) \in 1 .. 8 /\ DOMAIN ops = 1 .. Len(ops)
      /\ \A n \in DOMAIN ops : ops[n].table \in Tables
      /\ IF Unnamed(ops) THEN ops[1].op = "drop unnamed"
         ELSE /\ \A n \in DOMAIN ops : OperationFits(command, v, n)
              /\ \A t \in Tables :
                   Follows(reached[t].cols, SchemaAt(Neighbour(command, v))[t].cols)

\* The schemas of the revisions begin with no table, have the accounts from the first
\* revision on, whose first table that is, and end with the tables of the models.
SchemasFit ==
  /\ SchemaAt(0) = NoTables
  /\ \A v \in 0 .. Latest :
       /\ IsSchema(SchemaAt(v))
       /\ v > 0 => Exists(SchemaAt(v), "users")
       /\ \A command \in {"upgrade", "downgrade"} : Partway(command, v, 0) = SchemaAt(v)
  /\ Upgrades[1][1].op = "create" /\ Upgrades[1][1].table = "users"
  /\ FitsModels(SchemaAt(Latest))
  /\ \A t \in DOMAIN Models :
       "is_system" \in DOMAIN Models[t] => Models[t]["is_system"] = Req("Bool")

-----------------------------------------------------------------------------
(* Where the revisions leave what the logs say. *)

\* Six fields of a log: five that its columns have had under two names, and one whose
\* column changes its type.
Fields == {"verdict", "score", "threat", "size", "time", "protocol"}

Holds(field, c) ==
  c \in CASE field = "verdict" -> {"action", "action_taken"}
          [] field = "score" -> {"selected_score", "max_attack_prob"}
          [] field = "threat" -> {"threat_type", "top_threat_type"}
          [] field = "size" -> {"size_bytes", "packet_size"}
          [] field = "time" -> {"created_at", "timestamp"}
          [] field = "protocol" -> {"protocol"}

\* The column that each field is in, Null where it has none.
Home(cols) ==
  [f \in Fields |-> IF \E c \in DOMAIN cols : Holds(f, c)
                    THEN CHOOSE c \in DOMAIN cols : Holds(f, c) ELSE Null]

\* The operation can only be performed when the table has no row: it adds a column that has
\* to have a value and has none.
NeedsNoRows(o) == o.op = "add" /\ \E c \in DOMAIN o.cols : ~o.cols[c].null /\ ~o.cols[c].default

\* ... when there is no log: it is such a one, or creates their table.
NeedsNoLogs(o) == o.table = "firewall_logs" /\ (o.op = "create" \/ NeedsNoRows(o))

\* One of the first n operations of the revision is of that kind.
Emptied(command, v, n) == \E k \in 1 .. n : NeedsNoLogs(OperationsOf(command, v)[k])

CopiesLogs(o) == o.table = "firewall_logs" /\ o.op = "update"

\* Where the fields are when n operations of the revision have been performed: in the
\* columns of the old schema until an UPDATE copies them into those of the new one.
Where(command, v, n) ==
  LET copied == \E k \in 1 .. n : CopiesLogs(OperationsOf(command, v)[k]) IN
    Home(SchemaAt(IF copied THEN Neighbour(command, v) ELSE v)["firewall_logs"].cols)

\* The n-th operation leaves each field in its column, which stays, or copies it into one
\* that may be null.
KeepsLogs(command, v, n) ==
  LET o == OperationsOf(command, v)[n]
      from == Where(command, v, n - 1)  to == Where(command, v, n) IN
    o.table = "firewall_logs" /\ ~Emptied(command, v, n) =>
      /\ o.op # "drop table"
      /\ \A f \in Fields :
           /\ to[f] \in DOMAIN Partway(command, v, n)["firewall_logs"].cols
           /\ IF CopiesLogs(o) /\ to[f] \in DOMAIN o.from THEN o.from[to[f]] = from[f]
              ELSE to[f] = from[f]
      /\ CopiesLogs(o) => \A c \in DOMAIN o.from :
           /\ c # "is_system"
           /\ Partway(command, v, n - 1)["firewall_logs"].cols[c].null

\* Logs have a column for each field, and a revision that can be performed while there are
\* logs leaves the fields in the columns of the revision it leads to.
LogsKept ==
  /\ \A v \in 0 .. Latest : Exists(SchemaAt(v), "firewall_logs") =>
       \A f \in Fields : \E c \in DOMAIN SchemaAt(v)["firewall_logs"].cols : Holds(f, c)
  /\ \A command \in {"upgrade", "downgrade"}, v \in 0 .. Latest : Runs(command, v) =>
       LET ops == OperationsOf(command, v) IN
         \/ Unnamed(ops)
         \/ /\ \A n \in DOMAIN ops : KeepsLogs(command, v, n)
            /\ \/ Emptied(command, v, Len(ops))
               \/ Where(command, v, Len(ops))
                    = Home(SchemaAt(Neighbour(command, v))["firewall_logs"].cols)

(* Rows that are in the way of an upgrade. *)

\* The n-th operation of the upgrade from revision v is refused for rows of the table in
\* four places only: fcaac needs accounts that have a username, fe31 logs that have an
\* action_taken, and b7f2 logs whose verdict and size fit the columns that its second
\* operation copies them into, and whose protocol fits, and three columns have values, when
\* its third operation makes the one small and the others NOT NULL.
PassesRows(v, n) ==
  LET o == Upgrades[v + 1][n]  before == Partway("upgrade", v, n - 1)[o.table].cols IN
    /\ o.op # "drop unnamed"
    /\ NeedsNoRows(o) => <<v, n, o.table>> \in {<<1, 4, "users">>, <<2, 1, "firewall_logs">>}
    /\ o.op = "update" =>
         /\ <<v, n, o.table>> = <<3, 2, "firewall_logs">>
         /\ \A c \in DOMAIN o.from :
              before[c].type \in Range(Narrow) =>
                \/ c = "action" /\ before[c].type = "S10"
                \/ c = "size_bytes" /\ before[c].type = "Int"
    /\ o.op = "alter" =>
         /\ <<v, n, o.table>> = <<3, 3, "firewall_logs">>
         /\ \A c \in DOMAIN o.cols :
              /\ o.cols[c].type \in Range(Narrow) =>
                   \/ c = "protocol" /\ o.cols[c].type = "Small"
                   \/ c = "action" /\ o.cols[c].type = "S10"
              /\ \/ o.cols[c].null
                 \/ ~before[c].null
                 \/ c \in {"action", "created_at", "is_system"}

\* No other change of the accounts comes before the first of the four, who performs fcaac
\* or fe31 has no logs in its way later, and b7f2 still has what it looks at.
UpgradesPass ==
  /\ \A v \in 0 .. Latest - 1 : \A n \in DOMAIN Upgrades[v + 1] :
       /\ PassesRows(v, n)
       /\ v <= 1 /\ Upgrades[v + 1][n].table = "users"
            => <<v, n>> = <<0, 1>> \/ (v = 1 /\ n >= 4)
  /\ \A v \in {1, 2} : Emptied("upgrade", v, Len(Upgrades[v + 1]))
  /\ \A n \in 0 .. 1 : {"is_system", "action_taken", "packet_size", "protocol"}
                        \subseteq DOMAIN Partway("upgrade", 3, n)["firewall_logs"].cols

-----------------------------------------------------------------------------
\* The chain of revisions is sound, whoever performs it.
ChainFits == RevisionsFit /\ SchemasFit /\ LogsKept /\ UpgradesPass
=============================================================================
