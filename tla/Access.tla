------------------------------- MODULE Access -------------------------------
(***************************************************************************)
(* What a request may do (core/permissions, agents' scopes, users, tenants/   *)
(* admin).  An access token carries the role its user had when it was issued, *)
(* and that role decides; the row is not read again.  What makes a token end  *)
(* with the role is the denylist: a change of role denies the tokens Redis    *)
(* has tracked for the user, before it commits.  A scope is read from the     *)
(* teams and the row's owner when the request looks its row up.               *)
(*                                                                          *)
(* One team and one row with an owner; sessions, disabled accounts and        *)
(* signing out are in Accounts, and a token's end after fifteen minutes,       *)
(* which only shortens all this, is left out.                                *)
(*                                                                          *)
(* It begins with who may call what: the roles and their permissions, and     *)
(* every route of the API (main.py, modules/*/router.py), each with what it   *)
(* reads or changes, the permissions its dependencies require, the roles the  *)
(* service behind it lets in and how far it reaches.  A route is named by     *)
(* its handler.                                                             *)
(***************************************************************************)
EXTENDS Naturals

CONSTANTS Users, Tokens, Requests, Nothing,
          RolesGiven,   \* the roles an administrator gives here
          FirstRole,    \* [Users -> the role of their row at first]
          FirstUser,       \* [Tokens -> the user a token was issued to, or Nothing]
          FirstTeam,    \* the team: its lead and its members
          MaxRequests,
          MaxOutages    \* bound: times Redis fails a request

-----------------------------------------------------------------------------
(* Permissions ("user:view" ...).                                           *)
ROLE_PERMISSIONS ==
  LET agent == {"LISTING_MANAGE", "LEAD_MANAGE", "APPOINTMENT_MANAGE"}
      manager == agent \cup {"LEAD_VIEW_ALL", "LEAD_ASSIGN", "AGENT_MANAGE", "ANALYTICS_VIEW"}
      editor == {"CONTENT_MANAGE", "REVIEW_MODERATE"}
      back == {"USER_VIEW", "USER_MANAGE", "COMPLIANCE_MANAGE", "WEBHOOK_MANAGE"}
  IN  [buyer_renter     |-> {},
       seller           |-> {},
       agent            |-> agent \cup {"DEAL_MANAGE"},
       team_lead        |-> manager \cup {"LISTING_PUBLISH", "DEAL_MANAGE"},
       marketing        |-> manager \cup editor,
       admin            |-> manager \cup editor \cup back \cup {"LISTING_PUBLISH", "DEAL_MANAGE"},
       platform_support |-> {"PLATFORM_TENANT_VIEW"},
       platform_admin   |-> {"PLATFORM_TENANT_VIEW", "PLATFORM_TENANT_MANAGE", "PLATFORM_STAFF_MANAGE"}]

Roles == DOMAIN ROLE_PERMISSIONS
PLATFORM_ROLES == {"platform_admin", "platform_support"}

-----------------------------------------------------------------------------
Route(on, needs, roles, reach, names) ==
  {[does |-> n, on |-> on, needs |-> needs, roles |-> roles, reach |-> reach] : n \in names}

(* No access token, though some ask for a ticket of their own; a token, for    *)
(* what is one's own; a permission, for all of the tenant, or for the rows in  *)
(* the actor's scope; the platform's staff.                                  *)
Anybody(on, names) == Route(on, {}, Roles, "anybody", names)
Oneself(on, names) == Route(on, {}, Roles, "own", names)
Holders(on, permission, names) == Route(on, {permission}, Roles, "tenant", names)
InScope(on, needs, names) == Route(on, needs, Roles, "scope", names)
Staff(on, needs, names) == Route(on, needs, Roles, "platform", names)

AgentsPublic == Anybody("site", {"list_agents", "get_agent"})
AgentsPortal ==
  Oneself("account", {"create_profile", "get_own_profile"})
  \cup Holders("roster", "AGENT_MANAGE", {"create_profile", "list_profiles"})
  \cup InScope("profile", {}, {"get_profile", "update_profile", "delete_profile", "request_photo_upload",
                               "confirm_photo", "agent_stats"})
(* A team is its lead's and the administrators'; only they make or undo one.  *)
Teams ==
  Route("team", {"AGENT_MANAGE"}, {"admin"}, "tenant", {"create_team", "delete_team"})
  \cup Route("team", {"AGENT_MANAGE"}, Roles, "team",
             {"list_teams", "get_team", "update_team", "list_team_members", "add_team_member",
              "remove_team_member"})

Analytics ==
  Anybody("site", {"ingest_events"})
  \cup Holders("figures", "ANALYTICS_VIEW", {"traffic", "top_listings", "lead_funnel", "source_performance"})
  \cup InScope("own figures", {}, {"listing_performance"})

Appointments ==
  Anybody("site", {"get_slots", "book_tour", "ical_feed"})
  \cup Oneself("account", {"list_my_appointments"})
AppointmentsPortal ==
  InScope("appointment", {"APPOINTMENT_MANAGE"},
          {"list_appointments", "get_appointment", "transition_appointment"})
  \cup InScope("profile", {}, {"get_availability", "put_availability", "get_ical_url"})

Auth ==
  Anybody("site", {"register", "login", "verify_mfa", "refresh", "forgot_password", "reset_password",
                   "verify_email"})
  \cup Oneself("account", {"logout", "logout_all", "request_email_verification"})
AuthSecurity ==
  Oneself("account", {"mfa_status", "begin_mfa_enrolment", "confirm_mfa_enrolment", "disable_mfa",
                      "list_sessions", "revoke_session"})
  \cup Anybody("site", {"list_oauth_providers", "start_oauth", "complete_oauth"})
  \cup Anybody("platform", {"platform_login", "platform_verify_mfa", "platform_refresh"})
  \cup Staff("own session", {}, {"platform_logout"})

BlogPublic == Anybody("site", {"list_public_categories", "list_public_posts", "get_public_post", "blog_rss"})
BlogPortal ==
  Holders("content", "CONTENT_MANAGE",
          {"create_category", "list_categories", "get_category", "update_category", "delete_category",
           "create_post", "list_posts", "get_post", "update_post", "delete_post", "publish_post",
           "unpublish_post"})

CompliancePublic == Anybody("site", {"submit_consent", "get_cookie_config"})
ComplianceMe == Oneself("account", {"export_my_data", "erase_my_account", "get_my_dsr"})
CompliancePortal ==
  Holders("compliance", "COMPLIANCE_MANAGE",
          {"portal_get_cookie_config", "portal_put_cookie_config", "portal_audit_log"})

ContentPublic ==
  Anybody("site", {"get_public_page", "preview_page", "list_legal", "get_legal"})
ReportsPublic ==
  Anybody("site", {"list_public_guides", "get_public_guide", "get_public_report", "download_report"})
PagesPortal ==
  Holders("content", "CONTENT_MANAGE",
          {"create_page", "list_pages", "get_page", "update_page", "delete_page", "publish_page",
           "unpublish_page", "mint_preview_token", "list_legal_current", "legal_history", "publish_legal"})
GuidesPortal ==
  Holders("content", "CONTENT_MANAGE",
          {"create_guide", "list_guides", "get_guide", "update_guide", "delete_guide", "publish_guide",
           "unpublish_guide"})
ReportsPortal ==
  Holders("content", "CONTENT_MANAGE",
          {"create_report", "list_reports", "get_report", "update_report", "delete_report",
           "publish_report", "unpublish_report"})

Favorites ==
  Oneself("account", {"add_favorite", "remove_favorite", "list_favorites", "create_saved_search",
                      "list_saved_searches", "get_saved_search", "update_saved_search",
                      "delete_saved_search"})
SavedSearches ==
  Anybody("site", {"signup_saved_search", "confirm_saved_search", "unsubscribe_saved_search"})

LeadsPublic == Anybody("site", {"capture_lead", "capture_whatsapp_click"})
LeadsPortal ==
  Holders("new lead", "LEAD_MANAGE", {"create_lead"})
  \cup InScope("lead", {"LEAD_MANAGE"},
               {"list_leads", "get_lead", "update_lead", "transition_lead_stage", "list_lead_activities",
                "create_lead_activity"})
  \cup Holders("assignment", "LEAD_ASSIGN", {"get_assignment_rule", "update_assignment_rule"})
ContactsPortal ==
  Holders("contact", "LEAD_VIEW_ALL", {"get_contact", "update_contact", "get_contact_timeline"})

ListingsPublic ==
  Anybody("site", {"list_published_listings", "map_published_listings"})
ListingsSeo == Anybody("site", {"get_published_listing", "sitemap"})
ListingsPortal ==
  Holders("new listing", "LISTING_MANAGE", {"create_listing"})
  \cup InScope("listing", {"LISTING_MANAGE"},
               {"list_listings", "get_listing", "update_listing", "delete_listing", "transition_listing",
                "duplicate_listing", "generate_listing_description", "listing_history"})
Media ==
  InScope("listing", {"LISTING_MANAGE"},
          {"request_upload", "create_embed", "list_media", "confirm_upload", "update_media", "delete_media",
           "download_media"})

Notifications ==
  Oneself("account", {"list_notifications", "unread_count", "mark_read", "create_ws_ticket",
                      "get_preferences", "update_preferences"})
  \cup Anybody("site", {"notifications_ws"})

ReviewsPublic ==
  Anybody("site", {"submit_review", "list_agency_reviews", "agency_review_summary", "list_agent_reviews"})
ReviewsPortal ==
  Holders("review", "REVIEW_MODERATE", {"list_reviews", "get_review", "moderate_review", "delete_review"})

Feeds == Anybody("site", {"listings_feed"})
SyndicationPortal ==
  Holders("syndication", "LISTING_MANAGE",
          {"get_settings", "put_settings", "list_state", "listing_state", "repush_listing"})

(* A tenant is seen by all staff (_view) and managed by its administrators.   *)
TenantsPlatform ==
  Staff("tenant seen", {"PLATFORM_TENANT_VIEW"}, {"list_tenants", "get_tenant", "get_subscription"})
  \cup Staff("tenant", {"PLATFORM_TENANT_VIEW", "PLATFORM_TENANT_MANAGE"},
             {"create_tenant", "update_tenant", "suspend_tenant", "activate_tenant", "add_domain",
              "remove_domain", "verify_domain", "set_plan", "offboard_tenant", "cancel_offboard",
              "start_checkout", "impersonate_tenant"})
PlatformAdmin == Staff("tenant seen", {"PLATFORM_TENANT_VIEW"}, {"platform_metrics", "list_audit_log"})
Site == Anybody("site", {"get_site_config"}) \cup Anybody("platform", {"billing_webhook"})

Deals ==
  Route("new deal", {"DEAL_MANAGE"}, Roles, "tenant", {"create_deal"})
  \cup InScope("deal", {"DEAL_MANAGE"},
               {"list_deals", "get_deal", "update_deal", "transition_deal", "delete_deal"})
  \cup Route("commission", {"DEAL_MANAGE"}, {"admin"}, "tenant", {"get_commission", "set_commission"})
DealParts ==
  InScope("deal", {"DEAL_MANAGE"},
          {"list_milestones", "add_milestone", "update_milestone", "delete_milestone", "list_documents",
           "request_document_upload", "confirm_document_upload", "download_document", "delete_document"})

UsersOwn == Oneself("account", {"get_my_profile", "update_my_profile"})
UsersAdmin ==
  Holders("user", "USER_MANAGE", {"create_user", "update_user", "delete_user"})
  \cup Holders("user", "USER_VIEW", {"list_users", "get_user"})
PlatformStaff == Staff("staff", {"PLATFORM_STAFF_MANAGE"}, {"create_platform_staff", "list_platform_staff"})

ValuationsPublic ==
  Anybody("site", {"start_valuation", "update_valuation_details", "complete_valuation",
                   "mortgage_estimate", "mortgage_estimate_email"})
Webhooks ==
  Holders("webhook", "WEBHOOK_MANAGE",
          {"create_endpoint", "list_endpoints", "get_endpoint", "update_endpoint", "delete_endpoint",
           "list_deliveries"})

(* build_api_v1_router.                                                     *)
AllRoutes ==
  UNION {AgentsPublic, AgentsPortal, Teams, Analytics, Appointments, AppointmentsPortal, Auth, AuthSecurity,
         BlogPublic, BlogPortal, CompliancePublic, ComplianceMe, CompliancePortal, ContentPublic,
         ReportsPublic, PagesPortal, GuidesPortal, ReportsPortal, Favorites, SavedSearches, LeadsPublic,
         LeadsPortal, ContactsPortal, ListingsPublic, ListingsSeo, ListingsPortal, Media, Notifications,
         ReviewsPublic, ReviewsPortal, Feeds, SyndicationPortal, TenantsPlatform, PlatformAdmin, Site,
         Deals, DealParts, UsersOwn, UsersAdmin, PlatformStaff, ValuationsPublic, Webhooks}

-----------------------------------------------------------------------------
VARIABLES
  role,      \* the committed rows of users
  team,      \* [lead, members]
  owner,     \* whose the row is, or Nothing
  tokens,    \* access tokens that were issued
  request,   \* requests under way
  requests, outages,
  verdicts   \* history: for each act the row of its actor did not allow, why it was done

vars == <<role, team, owner, tokens, request, requests, outages, verdicts>>

Token(user, claim) == [user |-> user, role |-> claim, tracked |-> TRUE, denied |-> FALSE, why |-> {}]

Init ==
  /\ role = FirstRole /\ team = FirstTeam /\ owner \in Users \cup {Nothing}
  /\ owner # Nothing => role[owner] \notin PLATFORM_ROLES
  /\ tokens = [t \in Tokens |-> IF FirstUser[t] = Nothing THEN Nothing ELSE Token(FirstUser[t], role[FirstUser[t]])]
  /\ request = [r \in Requests |-> Nothing]
  /\ requests = 0 /\ outages = 0 /\ verdicts = {}

-----------------------------------------------------------------------------
(* scope_user_ids_for: the whole tenant, one's team and oneself, or oneself.  *)
TENANT_WIDE_MANAGER_ROLES == {"admin", "marketing"}
Scoped(user, as) ==
  \/ as \in TENANT_WIDE_MANAGER_ROLES
  \/ owner = user
  \/ as = "team_lead" /\ team.lead = user /\ owner \in team.members

(* _team_or_404.                                                            *)
OwnTeam(user, as) == as = "admin" \/ team.lead = user

Reached(user, as, reach) ==
  /\ reach = "scope" => Scoped(user, as)
  /\ reach = "team" => OwnTeam(user, as)

(* get_current_user and require: the token is for this site, or for the       *)
(* platform, is not on the denylist, and its role holds the permissions.      *)
Admitted(claims, route) ==
  /\ (claims.role \in PLATFORM_ROLES) = (route.reach = "platform")
  /\ route.needs \subseteq ROLE_PERMISSIONS[claims.role]
  /\ claims.role \in route.roles

(* The routes that differ here, and what each may change.                    *)
Kinds == {[on |-> r.on, needs |-> r.needs, roles |-> r.roles, reach |-> r.reach] : r \in AllRoutes}

Effect(does, subject, to) == [does |-> does, subject |-> subject, to |-> to]
Plain == Effect("plain", Nothing, Nothing)

PROFILE_ROLES == {"agent", "team_lead"}
TeamMembers == {u \in Users : role[u] \in PROFILE_ROLES}
TeamEffects(actor) ==
  {Effect("add", u, Nothing) : u \in TeamMembers \ team.members}
  \cup {Effect("remove", u, Nothing) : u \in team.members}
  \cup (IF actor.role = "admin" THEN {Effect("lead", u, Nothing) : u \in TeamMembers \cup {Nothing}} ELSE {})

(* admin_update: one's own role is left alone.                               *)
RoleEffects(actor) ==
  {Effect("role", u, r) : u \in {x \in Users : role[x] \notin PLATFORM_ROLES} \ {actor.user}, r \in RolesGiven}

(* Listings and leads are reassigned by the roles that manage them all, deals  *)
(* by those whose scope is the tenant.                                       *)
MANAGES_ALL_ROLES == {"admin", "team_lead", "marketing"}
OwnerEffects(actor, on) ==
  IF actor.role \in (IF on = "deal" THEN TENANT_WIDE_MANAGER_ROLES ELSE MANAGES_ALL_ROLES)
  THEN {Effect("owner", u, Nothing) : u \in {x \in Users : role[x] \notin PLATFORM_ROLES} \ {owner}} ELSE {}

(* impersonate: a token for an administrator, who is read now.                *)
Impersonations == {Effect("impersonate", u, "admin") : u \in {x \in Users : role[x] = "admin"}}

(* login and refresh: a token with the role the row has now.                  *)
SignIns == {Effect("sign in", u, role[u]) : u \in Users}

Effects(actor, kind) ==
  CASE kind.on = "team"                         -> TeamEffects(actor)
    [] kind.on = "user"                         -> {Plain} \cup RoleEffects(actor)
    [] kind.on \in {"listing", "lead", "deal"}  -> {Plain} \cup OwnerEffects(actor, kind.on)
    [] kind.on = "tenant"                       -> {Plain} \cup Impersonations
    [] kind.reach = "anybody"                   -> {Plain} \cup SignIns
    [] OTHER                                    -> {Plain}

-----------------------------------------------------------------------------
(* Who has business with what, whatever the routes say: the comments of        *)
(* core/permissions.  Nobody: a visitor who has not signed in.                *)
Business(on) ==
  CASE on \in {"site", "platform"}                       -> Roles \cup {"nobody"}
    [] on \in {"account", "profile", "own figures"}      -> Roles \ PLATFORM_ROLES
    [] on \in {"listing", "new listing", "lead", "new lead", "appointment", "syndication"} ->
                                                            {"agent", "team_lead", "marketing", "admin"}
    [] on \in {"deal", "new deal"}                       -> {"agent", "team_lead", "admin"}
    [] on \in {"contact", "assignment", "roster", "figures"} -> {"team_lead", "marketing", "admin"}
    [] on = "team"                                       -> {"team_lead", "marketing", "admin"}
    [] on \in {"content", "review"}                      -> {"marketing", "admin"}
    [] on \in {"user", "compliance", "webhook", "commission"} -> {"admin"}
    [] on \in {"tenant seen", "own session"}             -> PLATFORM_ROLES
    [] on \in {"tenant", "staff"}                        -> {"platform_admin"}

Nobody == [user |-> Nothing, role |-> "nobody", denied |-> FALSE, why |-> {}]

(* The token is checked and the rows are read.  Redis out of reach lets a      *)
(* token on the denylist pass.                                               *)
Begin(r) ==
  /\ request[r] = Nothing /\ requests < MaxRequests
  /\ \E t \in Tokens \cup {Nothing}, kind \in Kinds :
       LET actor == IF t = Nothing THEN Nobody ELSE tokens[t]
       IN  /\ actor # Nothing
           /\ IF t = Nothing THEN kind.reach = "anybody"
              ELSE kind.reach # "anybody" /\ Admitted(actor, kind) /\ Reached(actor.user, actor.role, kind.reach)
           /\ IF actor.denied THEN outages < MaxOutages /\ outages' = outages + 1 ELSE UNCHANGED outages
           /\ \E effect \in Effects(actor, kind) :
                request' = [request EXCEPT ![r] =
                  [user |-> actor.user, business |-> Business(kind.on), reach |-> kind.reach, effect |-> effect,
                   sent |-> FALSE, why |-> actor.why \cup (IF actor.denied THEN {"redis"} ELSE {})]]
  /\ requests' = requests + 1
  /\ UNCHANGED <<role, team, owner, tokens, verdicts>>

(* update_user: the row is locked by its update, and force_logout_user denies  *)
(* the tokens that were tracked, which Redis may fail to do.                  *)
Changing(u) ==
  \E r \in Requests : request[r] # Nothing /\ request[r].sent /\ request[r].effect.subject = u

\* A logout for a status only: a change of role denies no token.
StatusOnly(r) ==
  /\ request[r] # Nothing /\ request[r].effect.does = "role" /\ ~request[r].sent
  /\ ~Changing(request[r].effect.subject)
  /\ request' = [request EXCEPT ![r].sent = TRUE]
  /\ UNCHANGED <<role, team, owner, tokens, requests, outages, verdicts>>

ForceLogout(r) ==
  /\ request[r] # Nothing /\ request[r].effect.does = "role" /\ ~request[r].sent
  /\ LET u == request[r].effect.subject
         held == {t \in Tokens : tokens[t] # Nothing /\ tokens[t].user = u /\ tokens[t].tracked}
     IN  /\ ~Changing(u)
         /\ \/ /\ tokens' = [t \in Tokens |->
                               IF t \in held THEN [tokens[t] EXCEPT !.denied = TRUE, !.tracked = FALSE] ELSE tokens[t]]
               /\ UNCHANGED outages
            \/ /\ outages < MaxOutages /\ outages' = outages + 1
               /\ tokens' = [t \in Tokens |->
                               IF t \in held THEN [tokens[t] EXCEPT !.why = @ \cup {"redis"}] ELSE tokens[t]]
  /\ request' = [request EXCEPT ![r].sent = TRUE]
  /\ UNCHANGED <<role, team, owner, requests, verdicts>>

-----------------------------------------------------------------------------
(* The row, as it is when the request takes effect, allows the act.           *)
Allowed(q) ==
  LET as == IF q.user = Nothing THEN "nobody" ELSE role[q.user]
  IN  as \in q.business /\ Reached(q.user, as, q.reach)

(* A change that a request has overlapped.                                  *)
Overtaken(q, e) ==
  \/ e.does = "role" /\ q.user = e.subject
  \/ e.does = "role" /\ q.effect.does = "sign in" /\ q.effect.subject = e.subject
  \/ e.does \in {"add", "remove", "lead"} /\ q.reach \in {"scope", "team"}
  \/ e.does = "owner" /\ q.reach = "scope"

Minted(q) ==
  [Token(q.effect.subject, q.effect.to) EXCEPT
     !.why = IF q.effect.does = "impersonate" THEN {"impersonation"}
             ELSE (q.why \cap {"overtaken"}) \cup (IF Changing(q.effect.subject) THEN {"overtaken"} ELSE {}),
     !.tracked = q.effect.does = "sign in"]

Untracked(token) == [token EXCEPT !.tracked = FALSE, !.why = @ \cup {"redis"}]

Commit(r) ==
  LET q == request[r]
      e == q.effect
  IN  /\ q # Nothing /\ (e.does = "role" => q.sent)
      /\ verdicts' = IF Allowed(q) THEN verdicts ELSE verdicts \cup {q.why}
      /\ role' = IF e.does = "role" THEN [role EXCEPT ![e.subject] = e.to] ELSE role
      /\ team' = CASE e.does = "add"    -> [team EXCEPT !.members = @ \cup {e.subject}]
                   [] e.does = "remove" -> [team EXCEPT !.members = @ \ {e.subject}]
                   [] e.does = "lead"   -> [team EXCEPT !.lead = e.subject]
                   [] OTHER             -> team
      /\ owner' = IF e.does = "owner" THEN e.subject ELSE owner
      /\ IF e.does \in {"sign in", "impersonate"}
         THEN \E t \in Tokens :
                /\ tokens[t] = Nothing
                /\ \/ tokens' = [tokens EXCEPT ![t] = Minted(q)] /\ UNCHANGED outages
                   \/ /\ e.does = "sign in" /\ outages < MaxOutages /\ outages' = outages + 1
                      /\ tokens' = [tokens EXCEPT ![t] = Untracked(Minted(q))]
         ELSE UNCHANGED <<tokens, outages>>
      /\ request' = [x \in Requests |->
                       IF x = r THEN Nothing
                       ELSE IF request[x] # Nothing /\ Overtaken(request[x], e)
                       THEN [request[x] EXCEPT !.why = @ \cup {"overtaken"}] ELSE request[x]]
      /\ UNCHANGED requests

(* The transaction fails; what Redis was told stands.                        *)
Abort(r) ==
  /\ request[r] # Nothing /\ request[r].sent
  /\ request' = [request EXCEPT ![r] = Nothing]
  /\ UNCHANGED <<role, team, owner, tokens, requests, outages, verdicts>>

Next == \E r \in Requests : Begin(r) \/ ForceLogout(r) \/ Commit(r) \/ Abort(r)

Spec == Init /\ [][Next]_vars

-----------------------------------------------------------------------------
(* "Disable/demotion must bite now, not when the 15-min token expires"         *)
(* (users/router.py), and "the permission alone is not an ownership check"    *)
(* (agents/service.py): whoever does something has the business to, and the   *)
(* row in their reach, when it takes effect, unless the role, the team or the  *)
(* owner changed under the request or while the token was being issued, Redis  *)
(* failed, or platform staff acted through a token that nobody tracks.         *)
ActsAreExplained == {} \notin verdicts
=============================================================================
