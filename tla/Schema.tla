-------------------------------- MODULE Schema --------------------------------
(***************************************************************************)
(* The database schema (alembic/versions): what each revision does and       *)
(* undoes, and, at the newest one, what the foreign keys do when a row is     *)
(* deleted.  A run of Alembic is one transaction over all its revisions       *)
(* (alembic/env.py), but for 0025: it commits what the run has done so far,   *)
(* builds or drops its indexes one by one in no transaction at all, and its   *)
(* version is written by the next one, with the rest of the run.            *)
(*                                                                          *)
(* Abstracted: columns, but for those added later; indexes, but for those of  *)
(* 0025 (the unique ones are in the modules they matter to).  Every added     *)
(* column has a default or may be null, so rows are no obstacle to it.        *)
(***************************************************************************)
EXTENDS Naturals, Sequences, FiniteSets

CONSTANTS Nothing,
          MaxMoves,  \* bound: runs of Alembic
          MaxCuts    \* bound: runs of 0025 that are cut

VARIABLES
  version,  \* alembic_version
  db,       \* tables, keys, columns added, tables under a policy
  indexes,  \* [0025's indexes -> "absent", "valid" or "invalid"]
  building, \* Nothing or the version a run of 0025 goes to and its next index
  enrolled, \* an encrypted second factor, longer than the old column, is stored
  stuck,    \* versions a run has failed to leave, 0025 until one has left it
  deletion, \* Nothing or a deletion of a row: the rows there are, and what is still to be done
  moves, cuts

schemaVars == <<version, db, indexes, building, enrolled, stuck, deletion, moves, cuts>>

-----------------------------------------------------------------------------
(* Statements.  "?" marks a column that may be null.                        *)
Key(column, to, does) == [column |-> column, to |-> to, does |-> does, nullable |-> FALSE]
Maybe(column, to, does) == [column |-> column, to |-> to, does |-> does, nullable |-> TRUE]
Owner == Key("tenant_id", "tenants", "CASCADE")
Create(table, keys) == <<[does |-> "create", table |-> table, keys |-> keys]>>
Owned(table, keys) == Create(table, keys \cup {Owner})
AddColumns(table, columns) == <<[does |-> "add", table |-> table, columns |-> columns]>>
DropColumns(table, columns) == <<[does |-> "remove", table |-> table, columns |-> columns]>>
(* enable_tenant_rls_sql, enable_identity_rls_sql and their opposites.       *)
Guard(tables) == <<[does |-> "guard", tables |-> tables]>>
Unguard(tables) == <<[does |-> "unguard", tables |-> tables]>>
Drop(table) == <<[does |-> "drop", table |-> table]>>
NarrowSecret == <<[does |-> "narrow"]>>

Up0001 == Create("tenants", {}) \o Owned("tenant_domains", {})
Down0001 == Drop("tenant_domains") \o Drop("tenants")

Up0002 ==
  Create("users", {Maybe("tenant_id", "tenants", "CASCADE")})
  \o Create("sessions", {Key("user_id", "users", "CASCADE")})
  \o Guard({"users", "sessions"})
Down0002 == Unguard({"sessions", "users"}) \o Drop("sessions") \o Drop("users")

Listings0003 ==
  Owned("listings", {Maybe("agent_id", "users", "SET NULL"), Maybe("created_by", "users", "SET NULL")})
Up0003 ==
  Listings0003
  \o Owned("listing_status_history",
           {Key("listing_id", "listings", "CASCADE"), Maybe("changed_by", "users", "SET NULL")})
  \o Owned("listing_reference_counters", {})
  \o Guard({"listings", "listing_status_history", "listing_reference_counters"})
Down0003 ==
  Unguard({"listing_reference_counters", "listing_status_history", "listings"})
  \o Drop("listing_reference_counters") \o Drop("listing_status_history") \o Drop("listings")

Up0004 == AddColumns("listings", {"stale_flagged_at"})
Down0004 == DropColumns("listings", {"stale_flagged_at"})

Up0005 ==
  Owned("listing_media",
        {Key("listing_id", "listings", "CASCADE"), Maybe("created_by", "users", "SET NULL")})
  \o Guard({"listing_media"})
Down0005 == Unguard({"listing_media"}) \o Drop("listing_media")

Up0006 == AddColumns("listings", {"featured"}) \o AddColumns("listings", {"search_vector"})
Down0006 == DropColumns("listings", {"search_vector"}) \o DropColumns("listings", {"featured"})

Leads0007 ==
  Owned("contacts", {})
  \o Owned("leads", {Key("contact_id", "contacts", "CASCADE"),
                     Maybe("listing_id", "listings", "SET NULL"), Maybe("agent_id", "users", "SET NULL")})
Up0007 ==
  Leads0007
  \o Owned("lead_activities", {Key("lead_id", "leads", "CASCADE"), Maybe("actor_id", "users", "SET NULL")})
  \o Owned("assignment_rules", {})
  \o Owned("lead_drip_state", {Key("lead_id", "leads", "CASCADE")})
  \o Guard({"contacts", "leads", "lead_activities", "assignment_rules", "lead_drip_state"})
Down0007 ==
  Unguard({"lead_drip_state", "assignment_rules", "lead_activities", "leads", "contacts"})
  \o Drop("lead_drip_state") \o Drop("assignment_rules") \o Drop("lead_activities")
  \o Drop("leads") \o Drop("contacts")

Agents0008 ==
  Owned("agent_profiles", {Key("user_id", "users", "CASCADE")})
  \o Owned("teams", {Maybe("lead_user_id", "users", "SET NULL")})
Up0008 ==
  Agents0008
  \o Owned("team_members", {Key("team_id", "teams", "CASCADE"), Key("user_id", "users", "CASCADE")})
  \o Guard({"agent_profiles", "teams", "team_members"})
Down0008 ==
  Unguard({"team_members", "teams", "agent_profiles"})
  \o Drop("team_members") \o Drop("teams") \o Drop("agent_profiles")

Up0009 ==
  Owned("favorites", {Key("user_id", "users", "CASCADE"), Key("listing_id", "listings", "CASCADE")})
  \o Owned("saved_searches", {Maybe("user_id", "users", "CASCADE")})
  \o Guard({"favorites", "saved_searches"})
Down0009 == Unguard({"saved_searches", "favorites"}) \o Drop("saved_searches") \o Drop("favorites")

Up0010 == AddColumns("agent_profiles", {"whatsapp_number"})
Down0010 == DropColumns("agent_profiles", {"whatsapp_number"})

Up0011 ==
  Owned("agent_availability", {Key("agent_user_id", "users", "CASCADE")})
  \o Owned("appointments",
           {Key("agent_user_id", "users", "CASCADE"), Maybe("listing_id", "listings", "SET NULL"),
            Key("contact_id", "contacts", "CASCADE"), Maybe("lead_id", "leads", "SET NULL")})
  \o Guard({"agent_availability", "appointments"})
Down0011 ==
  Unguard({"appointments", "agent_availability"}) \o Drop("appointments") \o Drop("agent_availability")

Up0012 ==
  Owned("valuation_requests",
        {Maybe("contact_id", "contacts", "SET NULL"), Maybe("lead_id", "leads", "SET NULL")})
  \o Guard({"valuation_requests"})
Down0012 == Unguard({"valuation_requests"}) \o Drop("valuation_requests")

Up0013 == Owned("content_pages", {}) \o Owned("legal_pages", {}) \o Guard({"content_pages", "legal_pages"})
Down0013 == Unguard({"legal_pages", "content_pages"}) \o Drop("legal_pages") \o Drop("content_pages")

Up0014 ==
  Owned("blog_categories", {})
  \o Owned("blog_posts", {Maybe("category_id", "blog_categories", "SET NULL")})
  \o Guard({"blog_categories", "blog_posts"})
Down0014 == Unguard({"blog_posts", "blog_categories"}) \o Drop("blog_posts") \o Drop("blog_categories")

Up0015 ==
  Owned("reviews", {Maybe("agent_user_id", "users", "CASCADE"), Maybe("listing_id", "listings", "SET NULL"),
                    Maybe("moderated_by", "users", "SET NULL")})
  \o Guard({"reviews"})
Down0015 == Unguard({"reviews"}) \o Drop("reviews")

Up0016 ==
  Owned("neighborhood_guides", {}) \o Owned("market_reports", {})
  \o Guard({"neighborhood_guides", "market_reports"})
Down0016 ==
  Unguard({"market_reports", "neighborhood_guides"}) \o Drop("market_reports") \o Drop("neighborhood_guides")

Notifications0017 ==
  Owned("notifications", {Key("user_id", "users", "CASCADE")})
  \o Owned("notification_preferences", {Key("user_id", "users", "CASCADE")})
Up0017 ==
  Notifications0017
  \o Owned("notification_sends", {Maybe("notification_id", "notifications", "SET NULL")})
  \o Owned("notification_digest_items",
           {Key("user_id", "users", "CASCADE"), Key("notification_id", "notifications", "CASCADE")})
  \o Guard({"notifications", "notification_preferences", "notification_sends", "notification_digest_items"})
Down0017 ==
  Unguard({"notifications", "notification_preferences", "notification_sends", "notification_digest_items"})
  \o Drop("notification_digest_items") \o Drop("notification_sends")
  \o Drop("notification_preferences") \o Drop("notifications")

Deals0018 ==
  Owned("deals", {Key("owner_user_id", "users", "RESTRICT"), Maybe("listing_id", "listings", "SET NULL"),
                  Maybe("lead_id", "leads", "SET NULL"), Maybe("contact_id", "contacts", "SET NULL")})
Up0018 ==
  Deals0018
  \o Owned("deal_milestones", {Key("deal_id", "deals", "CASCADE"), Maybe("owner_user_id", "users", "SET NULL")})
  \o Owned("deal_documents", {Key("deal_id", "deals", "CASCADE"), Maybe("uploaded_by", "users", "SET NULL")})
  \o Guard({"deals", "deal_milestones", "deal_documents"})
Down0018 ==
  Unguard({"deals", "deal_milestones", "deal_documents"})
  \o Drop("deal_documents") \o Drop("deal_milestones") \o Drop("deals")

Up0019 == Owned("portal_sync_state", {Key("listing_id", "listings", "CASCADE")}) \o Guard({"portal_sync_state"})
Down0019 == Unguard({"portal_sync_state"}) \o Drop("portal_sync_state")

(* The partitions of the months around today are parts of the one table.     *)
Events0020 == Owned("analytics_events", {}) \o Guard({"analytics_events"})
Up0020 ==
  Events0020
  \o Owned("listing_stats_daily", {}) \o Guard({"listing_stats_daily"})
  \o Owned("lead_funnel_daily", {}) \o Guard({"lead_funnel_daily"})
  \o Owned("source_performance_daily", {}) \o Guard({"source_performance_daily"})
Down0020 ==
  Unguard({"source_performance_daily"}) \o Drop("source_performance_daily")
  \o Unguard({"lead_funnel_daily"}) \o Drop("lead_funnel_daily")
  \o Unguard({"listing_stats_daily"}) \o Drop("listing_stats_daily")
  \o Unguard({"analytics_events"}) \o Drop("analytics_events")

Columns0021 ==
  AddColumns("tenants", {"plan", "trial_ends_at", "offboarding_at", "deletion_scheduled_at", "deleted_at",
                  "export_object_key"})
  \o AddColumns("tenant_domains", {"verification_token", "verification_status"})
Up0021 ==
  Columns0021
  \o Owned("tenant_usage", {}) \o Owned("tenant_subscriptions", {})
  \o Create("billing_events", {})
  \o Create("audit_log", {Maybe("tenant_id", "tenants", "SET NULL")})
Down0021 ==
  Drop("audit_log") \o Drop("billing_events") \o Drop("tenant_subscriptions") \o Drop("tenant_usage")
  \o DropColumns("tenant_domains", {"verification_status", "verification_token"})
  \o DropColumns("tenants", {"export_object_key", "deleted_at", "deletion_scheduled_at", "offboarding_at",
                        "trial_ends_at", "plan"})

Up0022 ==
  Owned("consent_records",
        {Maybe("user_id", "users", "SET NULL"), Maybe("legal_page_id", "legal_pages", "SET NULL")})
  \o Guard({"consent_records"})
  \o Owned("cookie_consent_configs", {}) \o Guard({"cookie_consent_configs"})
  \o Owned("dsr_requests", {Maybe("user_id", "users", "SET NULL")}) \o Guard({"dsr_requests"})
Down0022 ==
  Unguard({"dsr_requests"}) \o Drop("dsr_requests")
  \o Unguard({"cookie_consent_configs"}) \o Drop("cookie_consent_configs")
  \o Unguard({"consent_records"}) \o Drop("consent_records")

Up0023 ==
  AddColumns("users", {"mfa_pending_secret", "mfa_enabled", "mfa_enrolled_at"})
  \o AddColumns("sessions", {"last_used_at"})
  \o Create("oauth_identities", {Key("user_id", "users", "CASCADE")}) \o Guard({"oauth_identities"})
Down0023 ==
  Unguard({"oauth_identities"}) \o Drop("oauth_identities")
  \o DropColumns("sessions", {"last_used_at"})
  \o DropColumns("users", {"mfa_enrolled_at", "mfa_enabled", "mfa_pending_secret"})
  \o NarrowSecret

Up0024 ==
  Owned("outbox", {}) \o Guard({"outbox"})
  \o Owned("webhook_endpoints", {}) \o Guard({"webhook_endpoints"})
  \o Owned("webhook_deliveries", {Key("endpoint_id", "webhook_endpoints", "CASCADE")})
  \o Guard({"webhook_deliveries"})
Down0024 ==
  Unguard({"webhook_deliveries"}) \o Drop("webhook_deliveries")
  \o Unguard({"webhook_endpoints"}) \o Drop("webhook_endpoints")
  \o Unguard({"outbox"}) \o Drop("outbox")

Ups ==
  <<Up0001, Up0002, Up0003, Up0004, Up0005, Up0006, Up0007, Up0008, Up0009, Up0010, Up0011, Up0012,
    Up0013, Up0014, Up0015, Up0016, Up0017, Up0018, Up0019, Up0020, Up0021, Up0022, Up0023, Up0024>>
Downs ==
  <<Down0001, Down0002, Down0003, Down0004, Down0005, Down0006, Down0007, Down0008, Down0009, Down0010,
    Down0011, Down0012, Down0013, Down0014, Down0015, Down0016, Down0017, Down0018, Down0019, Down0020,
    Down0021, Down0022, Down0023, Down0024>>
Newest == Len(Ups) + 1

-----------------------------------------------------------------------------
(* What PostgreSQL makes of a statement; the first that fails ends the run.  *)
Possible(s, secret, st) ==
  CASE st.does = "create"  -> /\ st.table \notin s.tables
                              /\ \A k \in st.keys : k.to \in s.tables
    [] st.does = "drop"    -> /\ st.table \in s.tables
                              /\ \A k \in s.keys : k.to = st.table => k.from = st.table
    [] st.does = "add"     -> /\ st.table \in s.tables
                              /\ ({st.table} \X st.columns) \cap s.columns = {}
    [] st.does = "remove"  -> ({st.table} \X st.columns) \subseteq s.columns
    [] st.does = "guard"   -> st.tables \subseteq s.tables \ s.guarded
    [] st.does = "unguard" -> st.tables \subseteq s.guarded
    [] st.does = "narrow"  -> ~secret

Done(s, st) ==
  CASE st.does = "create"  ->
         [s EXCEPT !.tables = @ \cup {st.table},
                   !.keys = @ \cup {[from |-> st.table, column |-> k.column, to |-> k.to, does |-> k.does,
                                     nullable |-> k.nullable] : k \in st.keys}]
    [] st.does = "drop"    ->
         [s EXCEPT !.tables = @ \ {st.table}, !.keys = {k \in @ : k.from # st.table},
                   !.columns = {c \in @ : c[1] # st.table}, !.guarded = @ \ {st.table}]
    [] st.does = "add"     -> [s EXCEPT !.columns = @ \cup ({st.table} \X st.columns)]
    [] st.does = "remove"  -> [s EXCEPT !.columns = @ \ ({st.table} \X st.columns)]
    [] st.does = "guard"   -> [s EXCEPT !.guarded = @ \cup st.tables]
    [] st.does = "unguard" -> [s EXCEPT !.guarded = @ \ st.tables]
    [] st.does = "narrow"  -> s

Try(s, secret, st) ==
  IF s.ok /\ Possible(s, secret, st) THEN Done(s, st) ELSE [s EXCEPT !.ok = FALSE]
Execute(s, secret, statements) ==
  LET after[n \in 0..Len(statements)] ==
        IF n = 0 THEN s ELSE Try(after[n - 1], secret, statements[n])
  IN  after[Len(statements)]
(* A run of Alembic: the scripts of its revisions, one after another, up to   *)
(* one that fails.                                                          *)
Continue(s, secret, script) == IF s.ok THEN Execute(s, secret, script) ELSE s
Migrate(s, secret, scripts) ==
  LET after[n \in 0..Len(scripts)] ==
        IF n = 0 THEN s ELSE Continue(after[n - 1], secret, scripts[n])
  IN  after[Len(scripts)]
Empty == [tables |-> {}, keys |-> {}, columns |-> {}, guarded |-> {}, ok |-> TRUE]

Above(v, to) == [n \in 1..(to - v) |-> Ups[v + n]]
Below(v, to) == [n \in 1..(v - to) |-> Downs[v + 1 - n]]

(* The schema of each version, built from nothing.                          *)
Built == [v \in 0..(Newest - 1) |-> Migrate(Empty, FALSE, Above(0, v))]

PlatformIndexes == 1..3

Init ==
  /\ version = 0 /\ db = Empty
  /\ indexes = [i \in PlatformIndexes |-> "absent"] /\ building = Nothing
  /\ enrolled = FALSE /\ stuck = {} /\ deletion = Nothing
  /\ moves = 0 /\ cuts = 0

-----------------------------------------------------------------------------
Ready == building = Nothing /\ deletion = Nothing
Move == Ready /\ moves < MaxMoves /\ moves' = moves + 1

Upgrade(to) ==
  /\ to > version /\ Move
  /\ LET new == Migrate(db, enrolled, Above(version, to))
     IN  IF new.ok THEN db' = new /\ version' = to /\ UNCHANGED stuck
         ELSE stuck' = stuck \cup {version} /\ UNCHANGED <<db, version>>
  /\ UNCHANGED <<indexes, building, enrolled, deletion, cuts>>

Downgrade(to) ==
  /\ to < version /\ version < Newest /\ Move
  /\ LET new == Migrate(db, enrolled, Below(version, to))
     IN  IF new.ok THEN db' = new /\ version' = to /\ UNCHANGED stuck
         ELSE stuck' = stuck \cup {version} /\ UNCHANGED <<db, version>>
  /\ UNCHANGED <<indexes, building, enrolled, deletion, cuts>>

(* 0025 commits what the run did before it, then builds its indexes ...        *)
StartIndexes ==
  /\ version < Newest /\ Move
  /\ LET new == Migrate(db, enrolled, Above(version, Newest - 1))
     IN  IF new.ok THEN /\ db' = new /\ version' = Newest - 1
                        /\ building' = [to |-> Newest, next |-> 1] /\ UNCHANGED stuck
         ELSE stuck' = stuck \cup {version} /\ UNCHANGED <<db, version, building>>
  /\ UNCHANGED <<indexes, enrolled, deletion, cuts>>

(* ... or, on the way down, drops them ...                                   *)
StartDrops(to) ==
  /\ version = Newest /\ Move
  /\ building' = [to |-> to, next |-> 1]
  /\ UNCHANGED <<version, db, indexes, enrolled, stuck, deletion, cuts>>

(* ... IF NOT EXISTS, or IF EXISTS: an index a cut build has left is invalid, *)
(* but it exists ...                                                        *)
BuildIndex ==
  /\ building # Nothing /\ building.to = Newest /\ building.next \in PlatformIndexes
  /\ LET i == building.next
     IN  \/ /\ indexes' = [indexes EXCEPT ![i] = IF @ = "absent" THEN "valid" ELSE @]
            /\ building' = [building EXCEPT !.next = i + 1]
            /\ UNCHANGED cuts
         \/ /\ cuts < MaxCuts /\ cuts' = cuts + 1
            /\ \E left \in {"absent", "invalid"} :
                 indexes' = [indexes EXCEPT ![i] = IF @ = "absent" THEN left ELSE @]
            /\ building' = Nothing
  /\ UNCHANGED <<version, db, enrolled, stuck, deletion, moves>>

DropIndex ==
  /\ building # Nothing /\ building.to # Newest /\ building.next \in PlatformIndexes
  /\ LET i == building.next
     IN  \/ /\ indexes' = [indexes EXCEPT ![i] = "absent"]
            /\ building' = [building EXCEPT !.next = i + 1]
            /\ UNCHANGED cuts
         \/ /\ cuts < MaxCuts /\ cuts' = cuts + 1
            /\ \E left \in {indexes[i], "invalid"} :
                 indexes' = [indexes EXCEPT ![i] = IF @ = "absent" THEN @ ELSE left]
            /\ building' = Nothing
  /\ UNCHANGED <<version, db, enrolled, stuck, deletion, moves>>

(* ... and the next transaction writes the version, after which a downgrade   *)
(* goes on; when it fails, or is cut before it commits, the version is still   *)
(* the one the run found, whatever became of the indexes.                   *)
EndIndexes ==
  /\ building # Nothing /\ building.next \notin PlatformIndexes
  /\ building' = Nothing
  /\ \/ /\ building.to = Newest /\ version' = Newest
        /\ UNCHANGED <<db, stuck, cuts>>
     \/ /\ building.to # Newest
        /\ LET new == Migrate(db, enrolled, Below(Newest - 1, building.to))
           IN  IF new.ok THEN db' = new /\ version' = building.to /\ stuck' = stuck \ {Newest}
               ELSE stuck' = stuck \cup {Newest} /\ UNCHANGED <<db, version>>
        /\ UNCHANGED cuts
     \/ /\ cuts < MaxCuts /\ cuts' = cuts + 1
        /\ UNCHANGED <<version, db, stuck>>
  /\ UNCHANGED <<indexes, enrolled, deletion, moves>>

(* Somebody confirms a second factor, or whoever has one turns it off; a       *)
(* downgrade may be dropping the indexes meanwhile.                         *)
Enrol ==
  /\ version = Newest /\ deletion = Nothing
  /\ enrolled' = ~enrolled
  /\ UNCHANGED <<version, db, indexes, building, stuck, deletion, moves, cuts>>

-----------------------------------------------------------------------------
(* What the code deletes; listings, leads, contacts, users and legal pages    *)
(* only lose their content or their flag.                                    *)
Deletable ==
  {"tenants", "tenant_domains", "agent_profiles", "teams", "team_members", "agent_availability",
   "blog_categories", "blog_posts", "content_pages", "neighborhood_guides", "market_reports",
   "favorites", "saved_searches", "listing_media", "reviews", "notifications",
   "notification_preferences", "notification_digest_items", "deals", "deal_milestones",
   "deal_documents", "webhook_endpoints"}

(* The keys that are set in a row of their table: all, or those that must be.  *)
SetKeys(full) == {k \in db.keys : full \/ ~k.nullable \/ k.column = "tenant_id"}
Reached(rows, keys) == rows \cup {k.to : k \in {x \in keys : x.from \in rows}}
(* No row is more than five keys away from its tenant.                      *)
Closed(rows, keys) ==
  LET once == Reached(rows, keys)
      twice == Reached(once, keys)
      thrice == Reached(twice, keys)
      four == Reached(thrice, keys)
  IN  Reached(four, keys)

(* The row, one that refers to it, and all they refer to; or one row of the   *)
(* tenant in each table.                                                     *)
Delete(table) ==
  /\ Ready /\ version = Newest /\ moves < MaxMoves /\ moves' = moves + 1
  /\ \E full \in BOOLEAN, other \in {k.from : k \in {x \in db.keys : x.to = table}} \cup {Nothing} :
       LET keys == SetKeys(full)
           rows == IF other = Nothing THEN db.tables ELSE Closed({table, other}, keys)
       IN  deletion' = [of |-> table, rows |-> rows \ {table}, keys |-> {k \in keys : k.from \in rows \ {table}},
                        gone |-> {table}, ok |-> TRUE]
  /\ UNCHANGED <<version, db, indexes, building, enrolled, stuck, cuts>>

(* The triggers of the rows just deleted are queued behind those that were     *)
(* queued before: a level of them sees what the level above has deleted.     *)
(* A consent of a user only has no other subject, which a check demands.     *)
Cascade ==
  /\ deletion # Nothing /\ deletion.ok /\ deletion.gone # {}
  /\ LET hit == {k \in deletion.keys : k.to \in deletion.gone /\ k.from \in deletion.rows}
         gone == {k.from : k \in {x \in hit : x.does = "CASCADE"}}
         cleared == {k \in hit : k.does = "SET NULL"}
         blocked == \/ \E k \in hit : k.does = "RESTRICT"
                    \/ \E k \in cleared : k.from = "consent_records" /\ k.column = "user_id"
         rows == deletion.rows \ gone
     IN  deletion' = IF blocked THEN [deletion EXCEPT !.ok = FALSE]
                     ELSE [deletion EXCEPT !.rows = rows, !.gone = gone,
                             !.keys = {k \in @ \ cleared : k.from \in rows}]
  /\ UNCHANGED <<version, db, indexes, building, enrolled, stuck, moves, cuts>>

EndDeletion ==
  /\ deletion # Nothing /\ (~deletion.ok \/ deletion.gone = {})
  /\ deletion' = Nothing
  /\ UNCHANGED <<version, db, indexes, building, enrolled, stuck, moves, cuts>>

Next ==
  \/ \E to \in 0..(Newest - 1) : Upgrade(to) \/ Downgrade(to)
  \/ \E to \in 0..(Newest - 1) : StartDrops(to)
  \/ StartIndexes \/ BuildIndex \/ DropIndex \/ EndIndexes \/ Enrol
  \/ \E table \in Deletable : Delete(table)
  \/ Cascade \/ EndDeletion

-----------------------------------------------------------------------------
(* A version has one schema, whichever upgrades and downgrades led to it; the *)
(* only thing a run stumbles over is the column 0023 made wider; and at 0025   *)
(* its indexes are complete, unless a run of it was cut, or stumbled on its    *)
(* way down after they were dropped.                                        *)
VersionsAreSound ==
  /\ db = Built[IF version = Newest THEN Newest - 1 ELSE version]
  /\ stuck \subseteq {Newest - 2, Newest - 1, Newest}
  /\ version = Newest /\ cuts = 0 /\ building = Nothing /\ Newest \notin stuck =>
       \A i \in PlatformIndexes : indexes[i] = "valid"

(* The tables "deliberately not under RLS" (0001, 0021).                     *)
Platform == {"tenants", "tenant_domains", "tenant_usage", "tenant_subscriptions", "billing_events", "audit_log"}

(* "Tenant-owned tables ... must call enable_tenant_rls_sql in their            *)
(* migration" (0001), so at every version each table but the platform's has    *)
(* its policy.                                                              *)
TablesAreGuarded == db.guarded = db.tables \ Platform

(* "The CASCADE FKs drop every owned row" (workers/tasks/tenants.py): the      *)
(* deletion of a tenant, or of anything the code deletes, is refused by no     *)
(* key, leaves no row that refers to one that is gone, and of a tenant's rows  *)
(* no more than its audit trail and the events of the billing provider.      *)
DeletionsComplete ==
  deletion # Nothing =>
    /\ deletion.ok
    /\ deletion.gone = {} =>
         /\ \A k \in deletion.keys : k.from \in deletion.rows => k.to \in deletion.rows
         /\ deletion.of = "tenants" => deletion.rows \subseteq {"audit_log", "billing_events"}

SchemaIsSound == VersionsAreSound /\ TablesAreGuarded /\ DeletionsComplete
=============================================================================
