------------------------------ MODULE Onboarding ------------------------------
(***************************************************************************)
(* Tenant initialisation: tenant-service behind POST /api/tenant/init of    *)
(* the web BFF, which also seeds the authorisation tuples, and user-service *)
(* over the same user_tenant table.                                         *)
(*                                                                         *)
(* Every statement and every call of the authorisation store is a step of   *)
(* its own: nothing here runs in a transaction.  A tenant's id is its place *)
(* in creation order; 0 is no tenant.                                       *)
(***************************************************************************)
EXTENDS Naturals, FiniteSets, Sequences

CONSTANTS
  Logins,      \* tasks that initialise a tenant
  Subs,        \* user_sub values
  MaxCalls,    \* bound: calls in a behaviour
  MaxFailures, \* bound: calls that a store error or a disconnect ends
  MaxDeletes   \* bound: tenants deleted

ASSUME LoginsAssumption == IsFiniteSet(Logins) /\ MaxCalls \in Nat

VARIABLES
  doors,     \* the services in use, "tenant" (through the BFF) and "user"
  surreal,   \* the repositories of user-service are those over SurrealDB
  allowAll,  \* the authorisation store is the mock that allows all while empty
  userRows,  \* user_sub values with a row in user
  tenantRows, \* ids of the rows of tenant
  created,   \* tenants created so far
  deletes,   \* tenants deleted so far
  binding,   \* user_sub -> tenant in user_tenant, 0 without a row
  tuples,    \* authorisation tuples <<user_sub, relation, tenant>>
  login,     \* task -> its call
  calls,     \* calls so far
  failures,  \* calls ended by a store error or a disconnect
  refused,   \* calls ended by a unique key or a duplicate tuple
  answers    \* <<service, user_sub, tenant>> of the Ok answers (history)

onboardingVars == <<doors, surreal, allowAll, userRows, tenantRows, created, deletes, binding, tuples, login, calls, failures, refused, answers>>

Away == [step |-> "away", door |-> "none", sub |-> "none", tenant |-> 0, grant |-> 1]

OnboardingInit ==
  /\ doors \in {{"tenant"}, {"user"}, {"tenant", "user"}}
  /\ surreal \in IF "user" \in doors THEN BOOLEAN ELSE {FALSE}
  /\ allowAll \in IF "tenant" \in doors THEN BOOLEAN ELSE {FALSE}
  /\ userRows = {} /\ tenantRows = {} /\ tuples = {} /\ answers = {}
  /\ binding = [u \in Subs |-> 0]
  /\ login = [k \in Logins |-> Away]
  /\ created = 0 /\ deletes = 0 /\ calls = 0 /\ failures = 0 /\ refused = 0

\* The call of k goes on with the record new and nothing else changes but the
\* variables an action names.
GoesTo(k, new) == login' = [login EXCEPT ![k] = new]
At(k, step) == login[k].step = step
Rows == <<userRows, tenantRows, created, binding, tuples>>
Rest == <<doors, surreal, allowAll, deletes>>

\* Statements of the repositories: tenant-service's look-up of a binding, and
\* user-service's look-ups of a binding, a user and a tenant.
FindUserTenant(u) == binding[u]
FindBinding(u) == binding[u]
FindBySub(u) == u \in userRows
FindById(t) == t \in tenantRows

\* INSERT INTO tenant with a new id, and INSERT INTO user_tenant.
InsertTenant ==
  /\ created' = created + 1
  /\ tenantRows' = tenantRows \cup {created + 1}
InsertBinding(u, t) == binding' = [binding EXCEPT ![u] = t]

Begin(k, door, u) ==
  /\ At(k, "away") /\ calls < MaxCalls /\ door \in doors
  /\ calls' = calls + 1
  /\ GoesTo(k, [Away EXCEPT !.step = "find", !.door = door, !.sub = u])
  /\ UNCHANGED <<Rows, Rest, failures, refused, answers>>

\* An Ok answer names the tenant t.
Answer(k, t) ==
  /\ answers' = answers \cup {<<login[k].door, login[k].sub, t>>}
  /\ GoesTo(k, Away)

\* A unique key or the authorisation store refuses a write: the call fails.
Refuse(k) ==
  /\ refused' = refused + 1
  /\ GoesTo(k, Away)

\* find_user_tenant of tenant-service: an existing binding is the result, and
\* the handler goes on to seed its tuples.
FindTenantBinding(k) ==
  LET t == FindUserTenant(login[k].sub)
  IN  /\ At(k, "find") /\ login[k].door = "tenant"
      /\ GoesTo(k, [login[k] EXCEPT !.step = IF t # 0 THEN "check" ELSE "create", !.tenant = t])
      /\ UNCHANGED <<Rows, Rest, calls, failures, refused, answers>>

\* find_user_tenant of user-service: an existing binding is answered at once
\* (the update of last_login may fail unnoticed).
FindUserBinding(k) ==
  LET t == FindBinding(login[k].sub)
  IN  /\ At(k, "find") /\ login[k].door = "user"
      /\ IF t # 0 THEN Answer(k, t)
                  ELSE GoesTo(k, [login[k] EXCEPT !.step = "user"]) /\ UNCHANGED answers
      /\ UNCHANGED <<Rows, Rest, calls, failures, refused>>

\* find_by_sub.
FindUser(k) ==
  /\ At(k, "user")
  /\ GoesTo(k, [login[k] EXCEPT !.step = IF FindBySub(login[k].sub) THEN "create" ELSE "adduser"])
  /\ UNCHANGED <<Rows, Rest, calls, failures, refused, answers>>

\* create_user: user_sub is unique.
CreateUser(k) ==
  LET u == login[k].sub
  IN  /\ At(k, "adduser")
      /\ IF u \in userRows
         THEN Refuse(k) /\ UNCHANGED userRows
         ELSE GoesTo(k, [login[k] EXCEPT !.step = "create"]) /\ userRows' = userRows \cup {u} /\ UNCHANGED refused
      /\ UNCHANGED <<tenantRows, created, binding, tuples, Rest, calls, failures, answers>>

\* create_tenant: the id is new.
CreateTenant(k) ==
  /\ At(k, "create")
  /\ InsertTenant
  /\ GoesTo(k, [login[k] EXCEPT !.step = "bind", !.tenant = created + 1])
  /\ UNCHANGED <<userRows, binding, tuples, Rest, calls, failures, refused, answers>>

\* The binding: user_sub is unique in user_tenant.
CreateBinding(k) ==
  LET u == login[k].sub
  IN  /\ At(k, "bind") /\ ~(surreal /\ login[k].door = "user")
      /\ IF binding[u] # 0
         THEN Refuse(k) /\ UNCHANGED binding
         ELSE /\ InsertBinding(u, login[k].tenant)
              /\ GoesTo(k, [login[k] EXCEPT !.step = IF login[k].door = "tenant" THEN "check" ELSE "fetch"])
              /\ UNCHANGED refused
      /\ UNCHANGED <<userRows, tenantRows, created, tuples, Rest, calls, failures, answers>>

\* user-service over libSQL reads the binding it wrote.
FetchBinding(k) ==
  /\ At(k, "fetch")
  /\ Answer(k, FindBinding(login[k].sub))
  /\ UNCHANGED <<Rows, Rest, calls, failures, refused>>

\* Over SurrealDB the creation returns the row.
CreateBindingSurreal(k) ==
  LET u == login[k].sub
  IN  /\ At(k, "bind") /\ surreal /\ login[k].door = "user"
      /\ IF binding[u] # 0
         THEN Refuse(k) /\ UNCHANGED <<binding, answers>>
         ELSE InsertBinding(u, login[k].tenant) /\ Answer(k, login[k].tenant) /\ UNCHANGED refused
      /\ UNCHANGED <<userRows, tenantRows, created, tuples, Rest, calls, failures>>

\* The tuples of seed_dev_counter_authz, in their order.
Grants == <<"owner", "member", "can_read", "can_write">>

\* AuthzPort::check.
Check(u, relation, t) == (allowAll /\ tuples = {}) \/ <<u, relation, t>> \in tuples

\* Mutant: the first tuple that exists ends the loop.
SeedCheckStops(k) ==
  LET it == login[k]
      exists == it.grant > Len(Grants) \/ Check(it.sub, Grants[it.grant], it.tenant)
  IN  /\ At(k, "check")
      /\ IF exists THEN Answer(k, it.tenant)
                   ELSE GoesTo(k, [it EXCEPT !.step = "write"]) /\ UNCHANGED answers
      /\ UNCHANGED <<Rows, Rest, calls, failures, refused>>

\* The check before each tuple; after the last one the call is answered.
SeedCheck(k) ==
  LET it == login[k]
      exists == Check(it.sub, Grants[it.grant], it.tenant)
  IN  /\ At(k, "check")
      /\ \/ it.grant > Len(Grants) /\ Answer(k, it.tenant)
         \/ it.grant <= Len(Grants) /\ exists /\ GoesTo(k, [it EXCEPT !.grant = @ + 1]) /\ UNCHANGED answers
         \/ it.grant <= Len(Grants) /\ ~exists /\ GoesTo(k, [it EXCEPT !.step = "write"]) /\ UNCHANGED answers
      /\ UNCHANGED <<Rows, Rest, calls, failures, refused>>

\* write_tuple.  OpenFGA may refuse a tuple that exists by now.
SeedWrite(k) ==
  LET it == login[k]
      tuple == <<it.sub, Grants[it.grant], it.tenant>>
  IN  /\ At(k, "write")
      /\ \/ /\ tuples' = tuples \cup {tuple}
            /\ GoesTo(k, [it EXCEPT !.step = "check", !.grant = @ + 1])
            /\ UNCHANGED refused
         \/ /\ tuple \in tuples /\ ~allowAll
            /\ Refuse(k)
            /\ UNCHANGED tuples
      /\ UNCHANGED <<userRows, tenantRows, created, binding, Rest, calls, failures, answers>>

\* A store error returned with `?`, or a dropped request.  When the last
\* statement took effect before its reply was lost, the call fails one step later.
Fails(k) ==
  /\ ~At(k, "away") /\ failures < MaxFailures
  /\ failures' = failures + 1
  /\ GoesTo(k, Away)
  /\ UNCHANGED <<Rows, Rest, calls, refused, answers>>

\* delete_tenant of tenant-service leaves user_tenant alone.
DeleteTenant(t) ==
  /\ deletes < MaxDeletes /\ t \in tenantRows
  /\ deletes' = deletes + 1
  /\ tenantRows' = tenantRows \ {t}
  /\ UNCHANGED <<doors, surreal, allowAll, userRows, created, binding, tuples, login, calls, failures, refused, answers>>

\* What the BFF reads.  resolve_tenant_context: the bound tenant, unless the
\* token claims another one; 0 stands for the refusals.
NoClaim == 0
ResolveTenant(u, claim) == IF claim \in {NoClaim, FindBinding(u)} THEN FindBinding(u) ELSE 0

\* get_user_tenants: the bound tenant, with its name when its row exists.
UserTenants(u) == {[tenant |-> t, named |-> FindById(t)] : t \in {FindBinding(u)} \ {0}}

OnboardingNext ==
  \/ \E k \in Logins :
       \/ \E door \in {"tenant", "user"}, u \in Subs : Begin(k, door, u)
       \/ FindTenantBinding(k) \/ FindUserBinding(k) \/ FindUser(k) \/ CreateUser(k) \/ CreateTenant(k)
       \/ CreateBinding(k) \/ CreateBindingSurreal(k) \/ FetchBinding(k) \/ SeedCheck(k) \/ SeedWrite(k) \/ Fails(k)
  \/ \E t \in tenantRows : DeleteTenant(t)

-----------------------------------------------------------------------------
\* Properties

\* The tables of tenant and user service have their types.
OnboardingTypeOK ==
  /\ userRows \subseteq Subs /\ tenantRows \subseteq 1..MaxCalls
  /\ binding \in [Subs -> 0..created]
  /\ tuples \subseteq Subs \X {Grants[i] : i \in DOMAIN Grants} \X (1..created)

\* "Returns existing or newly created tenant_id": every Ok answer for a user
\* names the one tenant the user is bound to, through either service and
\* however first logins race, so the user's later requests resolve to it and
\* the user's list shows it (without a name once it is deleted).
AnswersAgree ==
  \A a \in answers :
    /\ \A claim \in {NoClaim, a[3]} : ResolveTenant(a[2], claim) = a[3]
    /\ UserTenants(a[2]) = {[tenant |-> a[3], named |-> a[3] \in tenantRows]}

\* After an Ok answer of the BFF the user may read and write the tenant's
\* counter, also when an earlier call or a concurrent one seeded only some of
\* the tuples, and in the allow-all mock, where the seeding finds every tuple.
AnsweredMayUse ==
  \A a \in answers : a[1] = "tenant" => Check(a[2], "can_read", a[3]) /\ Check(a[2], "can_write", a[3])

\* A tenant nobody is bound to comes from a call that is still running, that
\* failed, or that lost the race for the binding: no Ok answer leaves one behind.
OrphansAreFailures ==
  LET bound == {binding[u] : u \in Subs} \ {0}
      binding_now == {k \in Logins : At(k, "bind")}
  IN  created <= Cardinality(bound) + Cardinality(binding_now) + failures + refused

\* As long as only user-service onboards, a bound user has a row in user.  (The
\* BFF's door makes none, and user-service then finds the binding and makes
\* none either.)
BoundHasUserRow == doors = {"user"} => \A u \in Subs : binding[u] # 0 => u \in userRows

\* An Ok answer means that the user is onboarded: bound to the tenant the answer
\* names and to no other, allowed to use it, and with no tenant left over.
AnsweredIsOnboarded ==
  AnswersAgree /\ AnsweredMayUse /\ OrphansAreFailures /\ BoundHasUserRow

OnboardingSpec == OnboardingInit /\ [][OnboardingNext]_onboardingVars
=============================================================================
