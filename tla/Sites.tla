-------------------------------- MODULE Sites --------------------------------
(***************************************************************************)
(* The domains and the settings of one tenant (modules/tenants): platform     *)
(* staff add, remove and verify domains, staff and the tenant's own modules  *)
(* write settings, and a daily sweep verifies what is pending.  Nothing      *)
(* locks a row: a transaction reads it, and at its commit writes the columns *)
(* it changed; only the name of a domain is unique.                          *)
(*                                                                          *)
(* Abstracted: names, the challenge, the values of settings (versions); the  *)
(* caches, which TenantCache is about.                                      *)
(***************************************************************************)
EXTENDS Naturals, FiniteSets

CONSTANTS Domains, First, \* the domain the tenant was created with
          Keys, Requests, Nothing,
          MaxRequests  \* bound: requests, sweeps and changes of the DNS

VARIABLES
  domain,    \* [Domains -> Nothing or id, primary, status and stamped (verified_at is set)]
  settings,  \* [Keys -> version of the namespace]
  record,    \* ids of the domain rows whose challenge is in the DNS
  request,   \* [Requests -> Nothing or a transaction: what it read and what it writes]
  requests,
  accepted,  \* history: [Keys -> the version whoever wrote the key last was told is stored]
  proven,    \* history: ids of those whose challenge a lookup has found
  overlapped \* history: a transaction changed what had changed since it read it

siteVars == <<domain, settings, record, request, requests, accepted, proven, overlapped>>

(* create.                                                                  *)
Fresh(id, primary) == [id |-> id, primary |-> primary, status |-> "pending", stamped |-> FALSE]
Init ==
  /\ domain = [d \in Domains |-> IF d = First THEN Fresh(0, TRUE) ELSE Nothing]
  /\ settings = [k \in Keys |-> 0]
  /\ record = {} /\ request = [r \in Requests |-> Nothing] /\ requests = 0
  /\ accepted = [k \in Keys |-> 0]
  /\ proven = {} /\ overlapped = FALSE

Registered == {d \in Domains : domain[d] # Nothing}

-----------------------------------------------------------------------------
Open(r, newDomain, newSettings, keys) ==
  /\ request[r] = Nothing
  /\ requests < MaxRequests /\ requests' = requests + 1
  /\ request' = [request EXCEPT ![r] =
       [domain |-> domain, settings |-> settings,
        newDomain |-> newDomain, newSettings |-> newSettings, keys |-> keys]]
  /\ UNCHANGED <<domain, settings, record, accepted, overlapped>>

(* Mutation: the domain that was primary stays so. *)
StillPrimary(d, primary) ==
  [e \in Domains |-> IF e = d THEN Fresh(requests + 1, primary) ELSE domain[e]]

(* A new primary domain takes the flag from every other one.                *)
WithDomain(d, primary) ==
  [e \in Domains |-> CASE e = d -> Fresh(requests + 1, primary)
                       [] e # d /\ domain[e] # Nothing /\ primary -> [domain[e] EXCEPT !.primary = FALSE]
                       [] OTHER -> domain[e]]

AddDomain(r, d, primary) ==
  /\ d \notin Registered
  /\ Open(r, WithDomain(d, primary), settings, {})
  /\ UNCHANGED proven

RemoveDomain(r, d) ==
  /\ d \in Registered /\ ~domain[d].primary
  /\ Open(r, [domain EXCEPT ![d] = Nothing], settings, {})
  /\ UNCHANGED proven

(* txt_record_present, of the rows found: a lookup that fails finds nothing. *)
Lookup(found) ==
  /\ {domain[d].id : d \in found} \subseteq record
  /\ proven' = proven \cup {domain[d].id : d \in found}

Verified(row) == [row EXCEPT !.status = "verified", !.stamped = TRUE]

(* verify_domain: what is not found is marked failed, verified or not.      *)
VerifyDomain(r, d) ==
  /\ d \in Registered
  /\ \E found \in SUBSET {d} :
       /\ Lookup(found)
       /\ Open(r, [domain EXCEPT ![d] = IF d \in found THEN Verified(@) ELSE [@ EXCEPT !.status = "failed"]],
               settings, {})

(* verify_pending_domains: what is not found is left as it is.              *)
VerifyPending(r) ==
  \E found \in SUBSET {d \in Registered : domain[d].status # "verified"} :
    /\ Lookup(found)
    /\ Open(r, [d \in Domains |-> IF d \in found THEN Verified(domain[d]) ELSE domain[d]], settings, {})

(* replace_settings_key writes all the settings: those it read, and its own. *)
ReplaceSettingsKey(r, k) ==
  /\ Open(r, domain, [settings EXCEPT ![k] = requests + 1], {k})
  /\ UNCHANGED proven

(* update replaces all the settings.                                        *)
Update(r) ==
  /\ Open(r, domain, [k \in Keys |-> requests + 1], Keys)
  /\ UNCHANGED proven

-----------------------------------------------------------------------------
(* A row that changed or went away between the read and the commit.         *)
Touched(r) == {d \in Domains : request[r].newDomain[d] # request[r].domain[d]}
Writes(r) == request[r].keys # {}

(* A name that is taken meanwhile is a 409, and a row that is gone fails the  *)
(* transaction; else the changed columns are written over what is there.    *)
Possible(r) ==
  \A d \in Touched(r) :
    IF request[r].domain[d] = Nothing THEN domain[d] = Nothing
    ELSE domain[d] # Nothing /\ domain[d].id = request[r].domain[d].id

Row(r, d) ==
  LET old == request[r].domain[d]
      new == request[r].newDomain[d]
  IN  CASE d \notin Touched(r) -> domain[d]
        [] d \in Touched(r) /\ (old = Nothing \/ new = Nothing) -> new
        [] OTHER -> [c \in DOMAIN new |-> IF new[c] # old[c] THEN new[c] ELSE domain[d][c]]

Commit(r) ==
  /\ request[r] # Nothing /\ Possible(r)
  /\ domain' = [d \in Domains |-> Row(r, d)]
  /\ settings' = IF Writes(r) THEN request[r].newSettings ELSE settings
  /\ accepted' = [k \in Keys |-> IF k \in request[r].keys THEN request[r].newSettings[k] ELSE accepted[k]]
  /\ overlapped' = (overlapped \/ domain # request[r].domain \/ settings # request[r].settings)
  /\ request' = [request EXCEPT ![r] = Nothing]
  /\ UNCHANGED <<record, requests, proven>>

Rollback(r) ==
  /\ request[r] # Nothing
  /\ request' = [request EXCEPT ![r] = Nothing]
  /\ UNCHANGED <<domain, settings, record, requests, accepted, proven, overlapped>>

(* The owner of a domain edits its DNS.                                     *)
EditRecord(d) ==
  /\ d \in Registered
  /\ requests < MaxRequests /\ requests' = requests + 1
  /\ record' = IF domain[d].id \in record THEN record \ {domain[d].id} ELSE record \cup {domain[d].id}
  /\ UNCHANGED <<domain, settings, request, accepted, proven, overlapped>>

Next ==
  \/ \E r \in Requests :
       \/ \E d \in Domains : \/ \E primary \in BOOLEAN : AddDomain(r, d, primary)
                             \/ RemoveDomain(r, d) \/ VerifyDomain(r, d)
       \/ \E k \in Keys : ReplaceSettingsKey(r, k)
       \/ VerifyPending(r) \/ Update(r) \/ Commit(r) \/ Rollback(r)
  \/ \E d \in Domains : EditRecord(d)

-----------------------------------------------------------------------------
(* A tenant has one primary domain, and "every other namespace untouched"     *)
(* (service.py): a settings key holds what was accepted for it last, unless   *)
(* two transactions overlapped.  A domain is verified, however they overlap,  *)
(* only if a lookup found its challenge, and then it carries the stamp.      *)
SitesAreKept ==
  /\ ~overlapped =>
       /\ Cardinality({d \in Registered : domain[d].primary}) = 1
       /\ settings = accepted
  /\ \A d \in Registered : domain[d].status = "verified" => domain[d].id \in proven /\ domain[d].stamped
=============================================================================
