------------------------------- MODULE Agency -------------------------------
(***************************************************************************)
(* What concerns an agency's accounts, one part in each behaviour: sessions   *)
(* and user management (Accounts); failed sign-ins (Lockout); a person who    *)
(* signs up, is erased and comes back (Erasure); its domains and settings     *)
(* (Sites); its figures (Analytics); the schema of the database (Schema); and  *)
(* what roles let their holders do (Access).                                *)
(***************************************************************************)
EXTENDS Accounts, TLC

CONSTANTS
  Emails, EmailThreshold, AddressThreshold, Idle, MaxGuesses,       \* Lockout
  Persons, Contacts, Purges, MaxErasures, MaxStops,                 \* Erasure
  Domains, FirstDomain, Namespaces, Editors, MaxChanges,                  \* Sites
  Visits, Runs, MonthDays, RAW_RETENTION_DAYS,                      \* Analytics
  PARTITION_LOOKAHEAD_MONTHS, MaxDay, MaxEvents,
  MaxMoves, MaxCuts,                                                \* Schema
  Actors, Tokens, FirstRole, FirstUser, FirstTeam, RolesGiven,      \* Access
  MaxActs, MaxLosses

VARIABLE about  \* the part that moves

VARIABLES count, locked, attempt, failures, outages, guesses, lapses

Signins == INSTANCE Lockout WITH
  Attempts <- Processes, MaxFailures <- MaxGuesses, MaxOutages <- MaxLosses,
  Threshold <- [k \in Emails \cup {"ip"} |-> IF k = "ip" THEN AddressThreshold ELSE EmailThreshold]

signins == <<count, locked, attempt, failures, outages, guesses, lapses>>

VARIABLES account, contact, call, dsr, purge, stops, wronged, doubled

Compliance == INSTANCE Erasure WITH
  Accounts <- Persons, Calls <- Processes, MaxFailures <- MaxStops, failures <- stops

people == <<account, contact, call, dsr, purge, stops, wronged, doubled>>

VARIABLES domain, settings, record, change, changes, accepted, proven, crossed

Tenancy == INSTANCE Sites WITH
  First <- FirstDomain, Keys <- Namespaces, Requests <- Editors, MaxRequests <- MaxChanges,
  request <- change, requests <- changes, overlapped <- crossed

sites == <<domain, settings, record, change, changes, accepted, proven, crossed>>

VARIABLES day, partition, events, won, figures, visit, rollup, consent, happened, ingested,
          hadWon, counted, stale, overlapped, ahead, lost

Figures == INSTANCE Analytics

daily == <<day, partition, events, won, figures, visit, rollup, consent, happened, ingested,
           hadWon, counted, stale, overlapped, ahead, lost>>

VARIABLES version, db, indexes, building, enrolled, stuck, deletion, moves, cuts

Tables == INSTANCE Schema

tables == <<version, db, indexes, building, enrolled, stuck, deletion, moves, cuts>>

VARIABLES role, team, owner, tokens, act, acts, losses, verdicts

Acting == INSTANCE Access WITH
  Users <- Actors, Requests <- Processes, MaxRequests <- MaxActs, MaxOutages <- MaxLosses,
  request <- act, requests <- acts, outages <- losses

roles == <<role, team, owner, tokens, act, acts, losses, verdicts>>

AgencyInit ==
  /\ Init /\ Signins!Init /\ Compliance!Init /\ Tenancy!Init /\ Figures!Init
  /\ Tables!Init /\ Acting!Init
  /\ about \in {"requests", "sign in", "person", "site", "figures", "schema", "roles"}
  /\ about = "requests" <=> menu # {}
  /\ about # "roles" => owner = Nothing
  /\ about # "figures" => consent = TRUE
AgencyNext ==
  /\ UNCHANGED about
  /\ \/ /\ about = "requests" /\ Next
        /\ UNCHANGED <<signins, people, sites, daily, tables, roles>>
     \/ /\ about = "sign in" /\ Signins!Next
        /\ UNCHANGED <<vars, people, sites, daily, tables, roles>>
     \/ /\ about = "person" /\ Compliance!Next
        /\ UNCHANGED <<vars, signins, sites, daily, tables, roles>>
     \/ /\ about = "site" /\ Tenancy!Next
        /\ UNCHANGED <<vars, signins, people, daily, tables, roles>>
     \/ /\ about = "figures" /\ Figures!Next
        /\ UNCHANGED <<vars, signins, people, sites, tables, roles>>
     \/ /\ about = "schema" /\ Tables!Next
        /\ UNCHANGED <<vars, signins, people, sites, daily, roles>>
     \/ /\ about = "roles" /\ Acting!Next
        /\ UNCHANGED <<vars, signins, people, sites, daily, tables>>
agency == <<about, vars, signins, people, sites, daily, tables, roles>>
AgencySpec == AgencyInit /\ [][AgencyNext]_agency

(* Failures on an account or address are bounded, and what is done with a      *)
(* role that is gone is explained (see Lockout and Access). *)
AccessIsGuarded ==
  /\ about = "sign in" => Signins!GuessesAreBounded
  /\ about = "roles" => Acting!ActsAreExplained
(* Who comes back is not erased with who left (see Erasure). *)
ErasureSparesWhoReturns == Compliance!ErasureSparesWhoReturns
(* The settings and domains of a tenant are kept, its figures are those of    *)
(* its events, and the schema keeps its rows apart and deletes them all (see   *)
(* Sites, Analytics and Schema). *)
TenantDataIsKept ==
  /\ about = "site" => Tenancy!SitesAreKept
  /\ about = "figures" => Figures!AnalyticsIsSound
  /\ about = "schema" => Tables!SchemaIsSound

-----------------------------------------------------------------------------
(* The run's values: two administrators on one device each, their requests of  *)
(* a session or of user management; and, of those who act, an administrator,   *)
(* a team's lead and its member, and the platform's staff.                    *)
Devices     == "d1" :> "u1" @@ "d2" :> "u2"
SessionMenu == {"login", "verify", "refresh", "logout", "logout_all", "forgot", "reset"}
AdminMenu   == {"refresh", "disable", "enable", "delete", "erase"}
BothMenus   == {SessionMenu, AdminMenu, {}}
FirstRoles  == "a" :> "admin" @@ "b" :> "team_lead" @@ "c" :> "agent" @@ "s" :> "platform_admin"
FirstUsers  == "ta" :> "a" @@ "tb" :> "b" @@ "tc" :> "c" @@ "ts" :> "s" @@ "t1" :> Nothing
OneTeam     == [lead |-> "b", members |-> {"c"}]
Symmetry    == Permutations(Processes)
=============================================================================
