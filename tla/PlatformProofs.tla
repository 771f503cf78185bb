--------------------------- MODULE PlatformProofs ---------------------------
(***************************************************************************)
(* Proofs about the initialisation of a user's tenant by tenant-service    *)
(* and user-service, for any tasks, users and bounds, about the memory     *)
(* adapters of packages/runtime (lock, state store and queue), for any     *)
(* number of tasks and messages, and about the indexer, for any number of  *)
(* sources, sinks and listeners.                                           *)
(***************************************************************************)
EXTENDS Onboarding, RuntimeAdapters, Indexer, FiniteSetTheorems, TLAPS

-----------------------------------------------------------------------------
(* The initialisation of a user's tenant.  The invariant says of every     *)
(* call in flight what the tables hold for it: the tenant it created is    *)
(* nobody's until it binds it, the tenant it seeds is the one its user is  *)
(* bound to, and the tuples the loop has passed are there.  Counting the   *)
(* calls at each step accounts for every tenant.                           *)
\* The invariant of the calls

LoginSteps == {"away", "find", "user", "adduser", "create", "bind", "fetch", "check", "write"}
LoginStates == [step : LoginSteps, door : {"none", "tenant", "user"}, sub : Subs \cup {"none"}, tenant : Nat, grant : 1..5]
GrantNames == {Grants[i] : i \in DOMAIN Grants}

OnboardingTypes ==
  /\ doors \subseteq {"tenant", "user"} /\ created \in Nat
  /\ userRows \subseteq Subs /\ tenantRows \subseteq 1..created
  /\ binding \in [Subs -> 0..created]
  /\ tuples \subseteq Subs \X GrantNames \X (1..created)
  /\ answers \subseteq {"tenant", "user"} \X Subs \X (1..created)
  /\ login \in [Logins -> LoginStates]

\* The tuples that the loop of seed_dev_counter_authz has passed exist.
Seeded(u, t, n) == allowAll \/ \A i \in 1..4 : i < n => <<u, Grants[i], t>> \in tuples

\* A call that seeds does so for the tenant its user is bound to; the tenant of a
\* call that is about to bind is nobody's yet.
Known(it) ==
  /\ it.step # "away" => it.sub \in Subs /\ it.door \in doors
  /\ it.step \in {"check", "write"} =>
       it.door = "tenant" /\ it.tenant # 0 /\ binding[it.sub] = it.tenant /\ Seeded(it.sub, it.tenant, it.grant)
  /\ it.step \notin {"check", "write"} => it.grant = 1
  /\ it.step = "write" => ~allowAll /\ it.grant <= 4
  /\ it.step \in {"user", "adduser", "fetch"} => it.door = "user"
  /\ it.step = "fetch" => binding[it.sub] # 0
  /\ it.step = "bind" => it.tenant \in 1..created /\ \A u \in Subs : binding[u] # it.tenant
  /\ it.step \in {"create", "bind", "fetch"} /\ it.door = "user" => it.sub \in userRows

OwnTenants ==
  \A j, k \in Logins : At(j, "bind") /\ At(k, "bind") /\ login[j].tenant = login[k].tenant => j = k

\* An Ok answer names the tenant its user is bound to, and the BFF's has seeded it.
AnswersKnown ==
  \A a \in answers : binding[a[2]] = a[3] /\ (a[1] = "tenant" => Seeded(a[2], a[3], 5))

OnboardingFacts ==
  /\ OnboardingTypes
  /\ \A k \in Logins : Known(login[k])
  /\ OwnTenants /\ AnswersKnown /\ BoundHasUserRow
  /\ allowAll => tuples = {}

\* The relations that are granted.
LEMMA GrantsAre ==
  /\ Len(Grants) = 4 /\ Grants[3] = "can_read" /\ Grants[4] = "can_write"
  /\ \A i \in 1..4 : Grants[i] \in GrantNames
<1>1. DOMAIN Grants = 1..4
  BY DEF Grants
<1>. QED BY Zenon, <1>1 DEF Grants, GrantNames

\* A step of the call of k that only adds to the tables keeps what is known of
\* the other calls and of the answers.
LEMMA OneLogin ==
  ASSUME OnboardingFacts, NEW k \in Logins, NEW new \in LoginStates, GoesTo(k, new),
         UNCHANGED <<doors, allowAll>>, created' \in Nat, created <= created',
         binding' \in [Subs -> 0..created'],
         \A u \in Subs : binding[u] # 0 => binding'[u] = binding[u],
         \A u \in Subs : binding'[u] # binding[u] => binding'[u] = login[k].tenant /\ At(k, "bind"),
         userRows \subseteq userRows', tuples \subseteq tuples',
         Known(new)', new.step = "bind" => created' = created + 1 /\ new.tenant = created'
  PROVE  login' \in [Logins -> LoginStates] /\ OwnTenants' /\ \A j \in Logins : Known(login[j])'
<1>1. /\ login \in [Logins -> LoginStates] /\ created \in Nat /\ binding \in [Subs -> 0..created]
      /\ \A j \in Logins : Known(login[j])
  BY Zenon DEF OnboardingFacts, OnboardingTypes
<1>2. /\ login' \in [Logins -> LoginStates] /\ login'[k] = new
      /\ \A j \in Logins : j # k => login'[j] = login[j]
  BY Zenon, <1>1 DEF GoesTo
<1>3. ASSUME NEW j \in Logins PROVE Known(login[j])'
  <2>1. CASE j = k
    BY Zenon, <1>2, <2>1 DEF Known, Seeded
  <2>2. CASE j # k
    <3>1. PICK it \in LoginStates : it = login[j]
      BY Zenon, <1>1
    <3>2. login'[j] = it /\ Known(it)
      BY Zenon, <1>1, <1>2, <2>2, <3>1
    <3>3. it.step = "bind" => \A u \in Subs : binding'[u] # it.tenant
      <4>. SUFFICES ASSUME it.step = "bind", NEW u \in Subs PROVE binding'[u] # it.tenant
        BY Zenon
      <4>1. binding[u] # it.tenant
        BY Zenon, <3>2 DEF Known
      <4>2. At(k, "bind") => login[k].tenant # it.tenant
        BY Zenon, <2>2, <3>1 DEF OnboardingFacts, OwnTenants, At
      <4>. QED BY Zenon, <4>1, <4>2
    <3>4. it.step = "bind" => it.tenant \in 1..created'
      BY <1>1, <3>2 DEF Known
    <3>5. \A u, t, n : Seeded(u, t, n) => Seeded(u, t, n)'
      BY Zenon DEF Seeded
    <3>6. Known(it)'
      BY Zenon, <3>2, <3>3, <3>4, <3>5 DEF Known
    <3>. QED BY Zenon, <3>2, <3>6 DEF Known, Seeded
  <2>. QED BY Zenon, <2>1, <2>2
<1>4. OwnTenants'
  <2>. SUFFICES ASSUME NEW i \in Logins, NEW j \in Logins, At(i, "bind")', At(j, "bind")', login'[i].tenant = login'[j].tenant
                PROVE  i = j
    BY Zenon DEF OwnTenants
  <2>1. \A x \in Logins : x # k /\ At(x, "bind")' => At(x, "bind") /\ login'[x].tenant = login[x].tenant /\ login[x].tenant \in 1..created
    BY <1>1, <1>2 DEF At, Known
  <2>2. At(k, "bind")' => login'[k].tenant = created + 1
    BY Zenon, <1>2 DEF At
  <2>3. CASE i # k /\ j # k
    BY Zenon, <2>1, <2>3 DEF OnboardingFacts, OwnTenants
  <2>4. CASE i = k \/ j = k
    BY <1>1, <2>1, <2>2, <2>4
  <2>. QED BY Zenon, <2>3, <2>4
<1>. QED BY Zenon, <1>2, <1>3, <1>4

\* The answers stay true when the tables only grow.
LEMMA OldAnswers ==
  ASSUME OnboardingFacts, UNCHANGED <<allowAll>>, created' \in Nat, created <= created',
         \A u \in Subs : binding[u] # 0 => binding'[u] = binding[u], tuples \subseteq tuples',
         NEW a \in answers
  PROVE  /\ a \in {"tenant", "user"} \X Subs \X (1..created')
         /\ binding'[a[2]] = a[3] /\ (a[1] = "tenant" => Seeded(a[2], a[3], 5)')
<1>1. a \in {"tenant", "user"} \X Subs \X (1..created) /\ created \in Nat
  BY Zenon DEF OnboardingFacts, OnboardingTypes
<1>2. binding[a[2]] = a[3] /\ (a[1] = "tenant" => Seeded(a[2], a[3], 5))
  BY Zenon DEF OnboardingFacts, AnswersKnown
<1>3. a[1] \in {"tenant", "user"} /\ a[2] \in Subs /\ a[3] \in 1..created /\ a = <<a[1], a[2], a[3]>>
  BY <1>1
<1>4. a[3] \in 1..created' /\ binding'[a[2]] = a[3]
  BY <1>1, <1>2, <1>3
<1>5. Seeded(a[2], a[3], 5) => Seeded(a[2], a[3], 5)'
  BY Zenon DEF Seeded
<1>6. a \in {"tenant", "user"} \X Subs \X (1..created')
  BY Zenon, <1>3, <1>4
<1>. QED BY Zenon, <1>2, <1>4, <1>5, <1>6

\* A step of one call.
LEMMA LoginStep ==
  ASSUME OnboardingFacts, NEW k \in Logins, NEW new \in LoginStates, GoesTo(k, new),
         UNCHANGED <<doors, allowAll>>, created' \in Nat, created <= created',
         userRows' \subseteq Subs, tenantRows' \subseteq 1..created', binding' \in [Subs -> 0..created'],
         tuples' \subseteq Subs \X GrantNames \X (1..created'), allowAll => tuples' = {},
         \A u \in Subs : binding[u] # 0 => binding'[u] = binding[u],
         \A u \in Subs : binding'[u] # binding[u] => binding'[u] = login[k].tenant /\ At(k, "bind"),
         userRows \subseteq userRows', tuples \subseteq tuples', BoundHasUserRow',
         Known(new)', new.step = "bind" => created' = created + 1 /\ new.tenant = created',
         \A a \in answers' : a \in answers \/
           (/\ a \in {"tenant", "user"} \X Subs \X (1..created')
            /\ binding'[a[2]] = a[3] /\ (a[1] = "tenant" => Seeded(a[2], a[3], 5)'))
  PROVE  OnboardingFacts'
<1>1. login' \in [Logins -> LoginStates] /\ OwnTenants' /\ \A j \in Logins : Known(login[j])'
  BY Zenon, OneLogin
<1>2. \A a \in answers' :
        /\ a \in {"tenant", "user"} \X Subs \X (1..created')
        /\ binding'[a[2]] = a[3] /\ (a[1] = "tenant" => Seeded(a[2], a[3], 5)')
  BY Zenon, OldAnswers
<1>3. AnswersKnown' /\ answers' \subseteq {"tenant", "user"} \X Subs \X (1..created')
  BY Zenon, <1>2 DEF AnswersKnown
<1>4. doors' \subseteq {"tenant", "user"}
  BY Zenon DEF OnboardingFacts, OnboardingTypes
<1>5. OnboardingTypes'
  BY Zenon, <1>1, <1>3, <1>4 DEF OnboardingTypes, GrantNames
<1>. QED BY Zenon, <1>1, <1>3, <1>5 DEF OnboardingFacts

\* A step that changes no table.
LEMMA QuietLogin ==
  ASSUME OnboardingFacts, NEW k \in Logins, NEW new \in LoginStates, GoesTo(k, new), UNCHANGED <<Rows, Rest>>,
         Known(new), new.step # "bind",
         \A a \in answers' : a \in answers \/
           (/\ a \in {"tenant", "user"} \X Subs \X (1..created)
            /\ binding[a[2]] = a[3] /\ (a[1] = "tenant" => Seeded(a[2], a[3], 5)))
  PROVE  OnboardingFacts'
<1>1. UNCHANGED <<userRows, tenantRows, created, binding, tuples, doors, allowAll>>
  BY Zenon DEF Rows, Rest
<1>2. /\ created \in Nat /\ userRows \subseteq Subs /\ tenantRows \subseteq 1..created /\ binding \in [Subs -> 0..created]
      /\ tuples \subseteq Subs \X GrantNames \X (1..created) /\ BoundHasUserRow /\ (allowAll => tuples = {})
  BY Zenon DEF OnboardingFacts, OnboardingTypes
<1>3. Known(new)' /\ BoundHasUserRow' /\ \A u, t, n : Seeded(u, t, n)' <=> Seeded(u, t, n)
  BY Zenon, <1>1, <1>2 DEF Known, Seeded, BoundHasUserRow
<1>. QED BY <1>1, <1>2, <1>3, LoginStep

\* A call that ends knows nothing.
LEMMA AwayIsFree == Away \in LoginStates /\ Known(Away) /\ Away.step = "away"
  BY DEF Away, LoginStates, LoginSteps, Known

\* A call that fails or is refused.
LEMMA EndLogin ==
  ASSUME OnboardingFacts, NEW k \in Logins, GoesTo(k, Away), UNCHANGED <<Rows, Rest, answers>>
  PROVE  OnboardingFacts'
  BY Zenon, AwayIsFree, QuietLogin

\* A call that is answered with the tenant its user is bound to.
LEMMA AnswerLogin ==
  ASSUME OnboardingFacts, NEW k \in Logins, ~At(k, "away"), NEW t \in 1..created, Answer(k, t), UNCHANGED <<Rows, Rest>>,
         binding[login[k].sub] = t, login[k].door = "tenant" => Seeded(login[k].sub, t, 5)
  PROVE  OnboardingFacts'
<1>1. login \in [Logins -> LoginStates] /\ doors \subseteq {"tenant", "user"} /\ Known(login[k])
  BY Zenon DEF OnboardingFacts, OnboardingTypes
<1>2. login[k].sub \in Subs /\ login[k].door \in {"tenant", "user"}
  BY Zenon, <1>1 DEF Known, At
<1>3. PICK a : a = <<login[k].door, login[k].sub, t>>
  BY Zenon
<1>4. a \in {"tenant", "user"} \X Subs \X (1..created) /\ a[1] = login[k].door /\ a[2] = login[k].sub /\ a[3] = t
  BY Zenon, <1>2, <1>3
<1>5. answers' = answers \cup {a} /\ GoesTo(k, Away)
  BY Zenon, <1>3 DEF Answer
<1>. QED BY Zenon, <1>4, <1>5, AwayIsFree, QuietLogin

\* The steps that read, and the end of a call.
LEMMA ReadSteps ==
  ASSUME OnboardingFacts, NEW k \in Logins,
         FindTenantBinding(k) \/ FindUserBinding(k) \/ FindUser(k) \/ FetchBinding(k) \/ SeedCheck(k) \/ Fails(k)
  PROVE  OnboardingFacts'
<1>1. PICK it \in LoginStates : it = login[k]
  BY Zenon DEF OnboardingFacts, OnboardingTypes
<1>2. Known(it) /\ created \in Nat /\ binding \in [Subs -> 0..created]
  BY Zenon, <1>1 DEF OnboardingFacts, OnboardingTypes
<1>3. /\ it.step \in LoginSteps /\ it.door \in {"none", "tenant", "user"} /\ it.sub \in Subs \cup {"none"}
      /\ it.tenant \in Nat /\ it.grant \in 1..5
  BY Zenon DEF LoginStates
<1>4. CASE FindTenantBinding(k)
  <2>1. it.step = "find" /\ it.door = "tenant" /\ it.sub \in Subs
    BY Zenon, <1>1, <1>2, <1>4 DEF FindTenantBinding, At, Known
  <2>2. PICK new, next : next = (IF binding[it.sub] # 0 THEN "check" ELSE "create")
                         /\ new = [it EXCEPT !.step = next, !.tenant = binding[it.sub]]
    BY Zenon
  <2>3. GoesTo(k, new) /\ UNCHANGED <<Rows, Rest, answers>>
    BY Zenon, <1>1, <1>4, <2>2 DEF FindTenantBinding, FindUserTenant
  <2>4. next \in LoginSteps /\ next # "bind" /\ binding[it.sub] \in Nat
    BY <1>2, <2>1, <2>2 DEF LoginSteps
  <2>5. /\ new \in LoginStates /\ new.step = next
        /\ new.door = "tenant" /\ new.sub = it.sub /\ new.tenant = binding[it.sub] /\ new.grant = it.grant
    BY Zenon, <2>1, <2>2, <2>4 DEF LoginStates
  <2>6. Known(new)
    BY <1>2, <2>1, <2>2, <2>5 DEF Known, Seeded
  <2>. QED BY Zenon, <2>3, <2>4, <2>5, <2>6, QuietLogin
<1>5. CASE FindUserBinding(k)
  <2>1. it.step = "find" /\ it.door = "user" /\ it.sub \in Subs /\ UNCHANGED <<Rows, Rest>>
    BY Zenon, <1>1, <1>2, <1>5 DEF FindUserBinding, At, Known
  <2>2. CASE binding[it.sub] # 0
    <3>1. Answer(k, binding[it.sub]) /\ binding[it.sub] \in 1..created
      BY <1>1, <1>2, <1>5, <2>1, <2>2 DEF FindUserBinding, FindBinding
    <3>. QED BY Zenon, <1>1, <2>1, <3>1, AnswerLogin DEF At
  <2>3. CASE binding[it.sub] = 0
    <3>1. PICK new : new = [it EXCEPT !.step = "user"]
      BY Zenon
    <3>2. GoesTo(k, new) /\ UNCHANGED answers
      BY Zenon, <1>1, <1>5, <2>3, <3>1 DEF FindUserBinding, FindBinding
    <3>3. /\ new \in LoginStates /\ new.step = "user" /\ new.door = "user" /\ new.sub = it.sub /\ new.grant = it.grant
      BY Zenon, <2>1, <3>1 DEF LoginStates, LoginSteps
    <3>4. Known(new)
      BY Zenon, <1>2, <2>1, <3>3 DEF Known
    <3>. QED BY Zenon, <2>1, <3>2, <3>3, <3>4, QuietLogin
  <2>. QED BY Zenon, <2>2, <2>3
<1>6. CASE FindUser(k)
  <2>1. it.step = "user" /\ it.door = "user" /\ it.sub \in Subs
    BY Zenon, <1>1, <1>2, <1>6 DEF FindUser, At, Known
  <2>2. PICK new : new = [it EXCEPT !.step = IF it.sub \in userRows THEN "create" ELSE "adduser"]
    BY Zenon
  <2>3. GoesTo(k, new) /\ UNCHANGED <<Rows, Rest, answers>>
    BY Zenon, <1>1, <1>6, <2>2 DEF FindUser, FindBySub
  <2>4. /\ new \in LoginStates /\ new.step = (IF it.sub \in userRows THEN "create" ELSE "adduser")
        /\ new.door = "user" /\ new.sub = it.sub /\ new.grant = it.grant
    BY Zenon, <2>1, <2>2 DEF LoginStates, LoginSteps
  <2>5. Known(new)
    BY Zenon, <1>2, <2>1, <2>4 DEF Known
  <2>. QED BY Zenon, <2>3, <2>4, <2>5, QuietLogin
<1>7. CASE FetchBinding(k)
  <2>1. it.step = "fetch" /\ it.door = "user" /\ it.sub \in Subs /\ binding[it.sub] # 0
    BY Zenon, <1>1, <1>2, <1>7 DEF FetchBinding, At, Known
  <2>2. Answer(k, binding[it.sub]) /\ binding[it.sub] \in 1..created /\ UNCHANGED <<Rows, Rest>>
    BY <1>1, <1>2, <1>7, <2>1 DEF FetchBinding, FindBinding
  <2>. QED BY Zenon, <1>1, <2>1, <2>2, AnswerLogin DEF At
<1>8. CASE SeedCheck(k)
  <2>1. /\ it.step = "check" /\ it.door = "tenant" /\ it.sub \in Subs /\ it.tenant # 0 /\ binding[it.sub] = it.tenant
        /\ Seeded(it.sub, it.tenant, it.grant) /\ UNCHANGED <<Rows, Rest>> /\ it.tenant \in 1..created
    BY <1>1, <1>2, <1>8 DEF SeedCheck, At, Known
  <2>2. CASE it.grant > Len(Grants) /\ Answer(k, it.tenant)
    <3>1. Seeded(it.sub, it.tenant, 5)
      BY <1>3, <2>1, <2>2, GrantsAre DEF Seeded
    <3>. QED BY Zenon, <1>1, <2>1, <2>2, <3>1, AnswerLogin DEF At
  <2>3. CASE it.grant <= Len(Grants) /\ Check(it.sub, Grants[it.grant], it.tenant) /\ GoesTo(k, [it EXCEPT !.grant = @ + 1]) /\ UNCHANGED answers
    <3>1. PICK new : new = [it EXCEPT !.grant = it.grant + 1]
      BY Zenon
    <3>2. GoesTo(k, new)
      BY Zenon, <2>3, <3>1
    <3>3. /\ new \in LoginStates /\ new.step = "check" /\ new.door = "tenant" /\ new.sub = it.sub /\ new.tenant = it.tenant
          /\ new.grant = it.grant + 1
      BY <1>3, <2>1, <2>3, <3>1, GrantsAre DEF LoginStates
    <3>4. Seeded(it.sub, it.tenant, it.grant + 1)
      <4>1. allowAll \/ <<it.sub, Grants[it.grant], it.tenant>> \in tuples
        BY Zenon, <2>3 DEF Check
      <4>2. \A i \in 1..4 : i < it.grant + 1 => i < it.grant \/ i = it.grant
        BY <1>3
      <4>. QED BY Zenon, <2>1, <4>1, <4>2 DEF Seeded
    <3>5. Known(new)
      BY Zenon, <1>2, <2>1, <3>3, <3>4 DEF Known
    <3>. QED BY Zenon, <2>1, <2>3, <3>2, <3>3, <3>5, QuietLogin
  <2>4. CASE it.grant <= Len(Grants) /\ ~Check(it.sub, Grants[it.grant], it.tenant) /\ GoesTo(k, [it EXCEPT !.step = "write"]) /\ UNCHANGED answers
    <3>1. PICK new : new = [it EXCEPT !.step = "write"]
      BY Zenon
    <3>2. /\ new \in LoginStates /\ new.step = "write" /\ new.door = "tenant" /\ new.sub = it.sub /\ new.tenant = it.tenant
          /\ new.grant = it.grant
      BY Zenon, <2>1, <3>1 DEF LoginStates, LoginSteps
    <3>3. ~allowAll
      BY Zenon, <2>4 DEF Check, OnboardingFacts
    <3>4. Known(new)
      BY Zenon, <1>2, <1>3, <2>1, <2>4, <3>2, <3>3, GrantsAre DEF Known
    <3>. QED BY Zenon, <2>1, <2>4, <3>1, <3>2, <3>4, QuietLogin
  <2>. QED BY Zenon, <1>1, <1>8, <2>2, <2>3, <2>4 DEF SeedCheck
<1>9. CASE Fails(k)
  BY Zenon, <1>9, EndLogin DEF Fails
<1>. QED BY Zenon, <1>4, <1>5, <1>6, <1>7, <1>8, <1>9

\* A call begins.
LEMMA BeginStep ==
  ASSUME OnboardingFacts, NEW k \in Logins, NEW door \in {"tenant", "user"}, NEW u \in Subs, Begin(k, door, u)
  PROVE  OnboardingFacts'
<1>1. PICK new : new = [Away EXCEPT !.step = "find", !.door = door, !.sub = u]
  BY Zenon
<1>2. /\ new \in LoginStates /\ new.step = "find" /\ new.door = door /\ new.sub = u /\ new.grant = 1
  <2>1. new = [step |-> "find", door |-> door, sub |-> u, tenant |-> 0, grant |-> 1]
    BY Zenon, <1>1 DEF Away
  <2>2. "find" \in LoginSteps
    BY Zenon DEF LoginSteps
  <2>. QED BY <2>1, <2>2 DEF LoginStates
<1>3. Known(new)
  BY Zenon, <1>2 DEF Known, Begin
<1>4. GoesTo(k, new) /\ UNCHANGED <<Rows, Rest, answers>>
  BY Zenon, <1>1 DEF Begin
<1>. QED BY Zenon, <1>2, <1>3, <1>4, QuietLogin

\* create_user and create_tenant.
LEMMA CreateSteps ==
  ASSUME OnboardingFacts, NEW k \in Logins, CreateUser(k) \/ CreateTenant(k)
  PROVE  OnboardingFacts'
<1>1. PICK it \in LoginStates : it = login[k]
  BY Zenon DEF OnboardingFacts, OnboardingTypes
<1>2. /\ Known(it) /\ created \in Nat /\ userRows \subseteq Subs /\ tenantRows \subseteq 1..created
      /\ binding \in [Subs -> 0..created] /\ BoundHasUserRow
      /\ tuples \subseteq Subs \X GrantNames \X (1..created) /\ (allowAll => tuples = {})
  BY Zenon, <1>1 DEF OnboardingFacts, OnboardingTypes
<1>3. CASE CreateUser(k)
  <2>1. /\ it.step = "adduser" /\ it.door = "user" /\ it.sub \in Subs /\ it.grant = 1 /\ it.door \in doors
        /\ UNCHANGED <<tenantRows, created, binding, tuples, Rest, answers>>
    BY Zenon, <1>1, <1>2, <1>3 DEF CreateUser, At, Known
  <2>2. CASE it.sub \in userRows
    <3>1. GoesTo(k, Away) /\ UNCHANGED <<Rows, Rest, answers>>
      BY Zenon, <1>1, <1>3, <2>1, <2>2 DEF CreateUser, Refuse, Rows
    <3>. QED BY Zenon, <3>1, EndLogin
  <2>3. CASE it.sub \notin userRows
    <3>1. PICK new : new = [it EXCEPT !.step = "create"]
      BY Zenon
    <3>2. GoesTo(k, new) /\ userRows' = userRows \cup {it.sub} /\ UNCHANGED <<doors, allowAll>>
      BY Zenon, <1>1, <1>3, <2>3, <3>1 DEF CreateUser, Rest
    <3>3. new \in LoginStates /\ new.step = "create" /\ new.door = "user" /\ new.sub = it.sub /\ new.grant = 1
      BY Zenon, <2>1, <3>1 DEF LoginStates, LoginSteps
    <3>4. Known(new)'
      BY Zenon, <2>1, <3>2, <3>3 DEF Known
    <3>5. BoundHasUserRow'
      BY Zenon, <1>2, <2>1, <3>2 DEF BoundHasUserRow
    <3>. QED BY <1>2, <2>1, <3>2, <3>3, <3>4, <3>5, LoginStep
  <2>. QED BY Zenon, <2>2, <2>3
<1>4. CASE CreateTenant(k)
  <2>1. /\ it.step = "create" /\ it.sub \in Subs /\ it.grant = 1 /\ it.door \in doors
        /\ (it.door = "user" => it.sub \in userRows) /\ created' = created + 1 /\ tenantRows' = tenantRows \cup {created + 1}
        /\ UNCHANGED <<userRows, binding, tuples, answers, doors, allowAll>>
    BY Zenon, <1>1, <1>2, <1>4 DEF CreateTenant, InsertTenant, At, Known, Rest
  <2>2. PICK new : new = [it EXCEPT !.step = "bind", !.tenant = created + 1]
    BY Zenon
  <2>3. GoesTo(k, new)
    BY Zenon, <1>1, <1>4, <2>2 DEF CreateTenant
  <2>4. /\ new \in LoginStates /\ new.step = "bind" /\ new.door = it.door /\ new.sub = it.sub /\ new.grant = 1
        /\ new.tenant = created + 1
    <3>1. "bind" \in LoginSteps /\ created + 1 \in Nat
      BY <1>2 DEF LoginSteps
    <3>. QED BY Zenon, <2>1, <2>2, <3>1 DEF LoginStates
  <2>5. binding' \in [Subs -> 0..created'] /\ (\A u \in Subs : binding'[u] # created + 1) /\ tenantRows' \subseteq 1..created'
    BY <1>2, <2>1
  <2>6. tuples' \subseteq Subs \X GrantNames \X (1..created') /\ created' \in Nat /\ created <= created'
    <3>1. 1..created \subseteq 1..(created + 1)
      BY <1>2
    <3>. QED BY <1>2, <2>1, <3>1
  <2>7. Known(new)'
    BY Zenon, <1>2, <2>1, <2>4, <2>5 DEF Known
  <2>8. BoundHasUserRow'
    BY Zenon, <1>2, <2>1 DEF BoundHasUserRow
  <2>. QED BY Zenon, <1>2, <2>1, <2>3, <2>4, <2>5, <2>6, <2>7, <2>8, LoginStep
<1>. QED BY Zenon, <1>3, <1>4

\* The binding is created, or the unique key refuses it.
LEMMA BindSteps ==
  ASSUME OnboardingFacts, NEW k \in Logins, CreateBinding(k) \/ CreateBindingSurreal(k)
  PROVE  OnboardingFacts'
<1>1. PICK it \in LoginStates : it = login[k]
  BY Zenon DEF OnboardingFacts, OnboardingTypes
<1>2. /\ Known(it) /\ created \in Nat /\ userRows \subseteq Subs /\ tenantRows \subseteq 1..created
      /\ binding \in [Subs -> 0..created] /\ BoundHasUserRow /\ doors \subseteq {"tenant", "user"}
      /\ tuples \subseteq Subs \X GrantNames \X (1..created) /\ (allowAll => tuples = {})
  BY Zenon, <1>1 DEF OnboardingFacts, OnboardingTypes
<1>3. /\ it.step = "bind" /\ it.sub \in Subs /\ it.grant = 1 /\ it.door \in doors /\ it.tenant \in 1..created
      /\ (it.door = "user" => it.sub \in userRows)
      /\ UNCHANGED <<userRows, tenantRows, created, tuples, doors, allowAll, Rest>>
  BY Zenon, <1>1, <1>2 DEF CreateBinding, CreateBindingSurreal, At, Known, Rest
<1>4. CASE binding[it.sub] # 0
  <2>1. GoesTo(k, Away) /\ UNCHANGED <<Rows, Rest, answers>>
    BY Zenon, <1>1, <1>3, <1>4 DEF CreateBinding, CreateBindingSurreal, Refuse, Rows
  <2>. QED BY Zenon, <2>1, EndLogin
<1>5. CASE binding[it.sub] = 0
  <2>1. binding' = [binding EXCEPT ![it.sub] = it.tenant]
    BY Zenon, <1>1, <1>5 DEF CreateBinding, CreateBindingSurreal, InsertBinding
  <2>2. /\ binding' \in [Subs -> 0..created'] /\ binding'[it.sub] = it.tenant
        /\ \A u \in Subs : binding[u] # 0 => binding'[u] = binding[u]
        /\ \A u \in Subs : binding'[u] # binding[u] => binding'[u] = login[k].tenant /\ At(k, "bind")
    BY <1>1, <1>2, <1>3, <1>5, <2>1 DEF At
  <2>3. BoundHasUserRow'
    BY Zenon, <1>2, <1>3, <2>1 DEF BoundHasUserRow
  <2>4. CASE CreateBinding(k)
    <3>1. PICK new, next : next = (IF it.door = "tenant" THEN "check" ELSE "fetch") /\ new = [it EXCEPT !.step = next]
      BY Zenon
    <3>2. GoesTo(k, new) /\ UNCHANGED answers
      BY Zenon, <1>1, <1>5, <2>4, <3>1 DEF CreateBinding
    <3>3. next \in LoginSteps /\ next # "bind"
      BY Zenon, <3>1 DEF LoginSteps
    <3>4. /\ new \in LoginStates /\ new.step = next /\ new.door = it.door /\ new.sub = it.sub /\ new.grant = 1
          /\ new.tenant = it.tenant
      BY Zenon, <1>3, <3>1, <3>3 DEF LoginStates
    <3>5. Seeded(it.sub, it.tenant, 1)'
      BY DEF Seeded
    <3>6. Known(new)'
      BY <1>2, <1>3, <2>2, <3>1, <3>4, <3>5 DEF Known
    <3>. QED BY <1>2, <1>3, <2>2, <2>3, <3>2, <3>3, <3>4, <3>6, LoginStep
  <2>5. CASE CreateBindingSurreal(k)
    <3>1. PICK a : a = <<it.door, it.sub, it.tenant>>
      BY Zenon
    <3>2. it.door = "user" /\ GoesTo(k, Away) /\ answers' = answers \cup {a}
      BY Zenon, <1>1, <1>5, <2>5, <3>1 DEF CreateBindingSurreal, Answer
    <3>3. a \in {"tenant", "user"} \X Subs \X (1..created') /\ a[1] = "user" /\ a[2] = it.sub /\ a[3] = it.tenant
      BY Zenon, <1>3, <3>1, <3>2
    <3>4. Known(Away)'
      BY Zenon DEF Away, Known
    <3>. QED BY <1>2, <1>3, <2>2, <2>3, <3>2, <3>3, <3>4, AwayIsFree, LoginStep
  <2>. QED BY Zenon, <2>4, <2>5
<1>. QED BY Zenon, <1>2, <1>3, <1>4, <1>5

\* write_tuple.
LEMMA SeedWriteStep ==
  ASSUME OnboardingFacts, NEW k \in Logins, SeedWrite(k)
  PROVE  OnboardingFacts'
<1>1. PICK it \in LoginStates : it = login[k]
  BY Zenon DEF OnboardingFacts, OnboardingTypes
<1>2. /\ Known(it) /\ created \in Nat /\ userRows \subseteq Subs /\ tenantRows \subseteq 1..created
      /\ binding \in [Subs -> 0..created] /\ BoundHasUserRow
      /\ tuples \subseteq Subs \X GrantNames \X (1..created)
  BY Zenon, <1>1 DEF OnboardingFacts, OnboardingTypes
<1>3. /\ it.step = "write" /\ it.sub \in Subs /\ it.grant \in 1..4 /\ it.door = "tenant" /\ it.door \in doors
      /\ it.tenant # 0 /\ binding[it.sub] = it.tenant /\ it.tenant \in 1..created /\ ~allowAll
      /\ Seeded(it.sub, it.tenant, it.grant)
      /\ UNCHANGED <<userRows, tenantRows, created, binding, doors, allowAll, Rest, answers>>
  BY <1>1, <1>2 DEF SeedWrite, At, Known, Rest, LoginStates
<1>4. PICK tuple : tuple = <<it.sub, Grants[it.grant], it.tenant>>
  BY Zenon
<1>5. CASE tuples' = tuples \cup {tuple} /\ GoesTo(k, [it EXCEPT !.step = "check", !.grant = @ + 1])
  <2>1. PICK new : new = [it EXCEPT !.step = "check", !.grant = it.grant + 1]
    BY Zenon
  <2>2. GoesTo(k, new)
    BY Zenon, <1>5, <2>1
  <2>3. /\ new \in LoginStates /\ new.step = "check" /\ new.door = "tenant" /\ new.sub = it.sub /\ new.tenant = it.tenant
        /\ new.grant = it.grant + 1
    <3>1. "check" \in LoginSteps /\ it.grant + 1 \in 1..5
      BY <1>3 DEF LoginSteps
    <3>. QED BY Zenon, <1>3, <2>1, <3>1 DEF LoginStates
  <2>4. \A i \in 1..4 : i < it.grant + 1 => i < it.grant \/ i = it.grant
    BY <1>3
  <2>5. Seeded(it.sub, it.tenant, it.grant + 1)'
    BY Zenon, <1>3, <1>4, <1>5, <2>4 DEF Seeded
  <2>6. Known(new)'
    BY Zenon, <1>3, <2>3, <2>5 DEF Known
  <2>7. Grants[it.grant] \in GrantNames
    BY Zenon, <1>3, GrantsAre
  <2>8. tuples' \subseteq Subs \X GrantNames \X (1..created')
    BY <1>2, <1>3, <1>4, <1>5, <2>7
  <2>9. BoundHasUserRow' /\ tuples \subseteq tuples'
    BY Zenon, <1>2, <1>3, <1>5 DEF BoundHasUserRow
  <2>. QED BY <1>2, <1>3, <2>2, <2>3, <2>6, <2>8, <2>9, LoginStep
<1>6. CASE Refuse(k) /\ UNCHANGED tuples
  <2>1. GoesTo(k, Away) /\ UNCHANGED <<Rows, Rest, answers>>
    BY Zenon, <1>3, <1>6 DEF Refuse, Rows
  <2>. QED BY Zenon, <2>1, EndLogin
<1>. QED BY Zenon, <1>1, <1>4, <1>5, <1>6 DEF SeedWrite

-----------------------------------------------------------------------------
\* How many tenants there are

EarlySteps == {"find", "user", "adduser", "create"}
Early == {k \in Logins : login[k].step \in EarlySteps}
Binding == {k \in Logins : login[k].step \in {"bind"}}
Bound == {binding[u] : u \in Subs} \ {0}

\* Every call that began creates at most one tenant, and a tenant that is bound
\* to nobody belongs to a call that is about to bind it or that ended without.
TenantsCounted ==
  /\ calls \in Nat /\ failures \in Nat /\ refused \in Nat /\ calls <= MaxCalls
  /\ created + Cardinality(Early) <= calls
  /\ created <= Cardinality(Bound) + Cardinality(Binding) + failures + refused

\* One element counts for one.
LEMMA WithOrWithout ==
  ASSUME NEW S, NEW k, IsFiniteSet(S)
  PROVE  /\ IsFiniteSet(S \ {k}) /\ Cardinality(S \ {k}) \in Nat /\ Cardinality(S) \in Nat
         /\ k \in S => Cardinality(S) = Cardinality(S \ {k}) + 1
         /\ k \notin S => Cardinality(S) = Cardinality(S \ {k})
<1>1. IsFiniteSet(S \ {k}) /\ Cardinality(S) \in Nat
  BY Zenon, FS_Subset, FS_CardinalityType
<1>2. Cardinality(S \ {k}) \in Nat
  BY Zenon, <1>1, FS_CardinalityType
<1>3. CASE k \in S
  <2>1. (S \ {k}) \cup {k} = S /\ k \notin S \ {k}
    BY Zenon, <1>3
  <2>2. Cardinality((S \ {k}) \cup {k}) = Cardinality(S \ {k}) + 1
    BY Zenon, <1>1, <2>1, FS_AddElement
  <2>. QED BY Zenon, <1>1, <1>2, <1>3, <2>1, <2>2
<1>4. CASE k \notin S
  <2>1. S \ {k} = S
    BY Zenon, <1>4
  <2>. QED BY Zenon, <1>1, <1>2, <1>4, <2>1
<1>. QED BY Zenon, <1>3, <1>4

\* The calls at some steps when one call goes on.
LEMMA Moves ==
  ASSUME NEW P, NEW k \in Logins, NEW new \in LoginStates, GoesTo(k, new), login \in [Logins -> LoginStates]
  PROVE  LET S == {j \in Logins : login[j].step \in P}
             T == {j \in Logins : login'[j].step \in P}
         IN  /\ Cardinality(S) \in Nat /\ Cardinality(T) \in Nat
             /\ login[k].step \in P /\ new.step \in P => Cardinality(T) = Cardinality(S)
             /\ login[k].step \notin P /\ new.step \notin P => Cardinality(T) = Cardinality(S)
             /\ login[k].step \notin P /\ new.step \in P => Cardinality(T) = Cardinality(S) + 1
             /\ login[k].step \in P /\ new.step \notin P => Cardinality(S) = Cardinality(T) + 1
<1>1. PICK S, T : S = {j \in Logins : login[j].step \in P} /\ T = {j \in Logins : login'[j].step \in P}
  BY Zenon
<1>2. IsFiniteSet(S) /\ IsFiniteSet(T)
  BY Zenon, <1>1, LoginsAssumption, FS_Subset
<1>3. login'[k] = new /\ \A j \in Logins : j # k => login'[j] = login[j]
  BY Zenon DEF GoesTo
<1>4. S \ {k} = T \ {k} /\ (k \in S <=> login[k].step \in P) /\ (k \in T <=> new.step \in P)
  BY Zenon, <1>1, <1>3
<1>5. /\ Cardinality(S) \in Nat /\ Cardinality(S \ {k}) \in Nat
      /\ login[k].step \in P => Cardinality(S) = Cardinality(S \ {k}) + 1
      /\ login[k].step \notin P => Cardinality(S) = Cardinality(S \ {k})
  BY Zenon, <1>2, <1>4, WithOrWithout
<1>6. /\ Cardinality(T) \in Nat
      /\ new.step \in P => Cardinality(T) = Cardinality(S \ {k}) + 1
      /\ new.step \notin P => Cardinality(T) = Cardinality(S \ {k})
  BY Zenon, <1>2, <1>4, WithOrWithout
<1>. QED BY Zenon, <1>1, <1>5, <1>6

\* The tenants somebody is bound to can be counted.
LEMMA BoundIsFinite ==
  ASSUME OnboardingTypes
  PROVE  IsFiniteSet(Bound) /\ Cardinality(Bound) \in Nat
<1>1. Bound \subseteq 1..created /\ created \in Nat
  BY DEF Bound, OnboardingTypes
<1>2. IsFiniteSet(1..created)
  BY <1>1, FS_Interval
<1>3. IsFiniteSet(Bound)
  BY Zenon, <1>1, <1>2, FS_Subset
<1>. QED BY Zenon, <1>3, FS_CardinalityType

\* One of c calls ends, and is counted among the f that failed or the r refused.
LEMMA OneEnds ==
  ASSUME NEW n \in Nat, NEW b \in Nat, NEW c \in Nat, NEW d \in Nat,
         NEW f \in Nat, NEW r \in Nat, NEW g \in Nat, NEW s \in Nat,
         n <= b + c + f + r, f <= g, r <= s, d = c \/ (c = d + 1 /\ f + r + 1 <= g + s)
  PROVE  n <= b + d + g + s
  OBVIOUS

\* A call that ends unbound fails or is refused.
LEMMA QuietCount ==
  ASSUME OnboardingTypes, TenantsCounted, NEW k \in Logins, NEW new \in LoginStates, GoesTo(k, new),
         UNCHANGED <<created, binding, calls>>, failures' \in Nat, refused' \in Nat,
         failures <= failures', refused <= refused', new.step # "bind",
         new.step \in EarlySteps => login[k].step \in EarlySteps,
         At(k, "bind") => failures + refused + 1 <= failures' + refused'
  PROVE  TenantsCounted'
<1>1. login \in [Logins -> LoginStates] /\ created \in Nat
  BY Zenon DEF OnboardingTypes
<1>2. /\ Cardinality(Early) \in Nat /\ Cardinality(Early') \in Nat /\ Cardinality(Early') <= Cardinality(Early)
  <2>1. Early' = {j \in Logins : login'[j].step \in EarlySteps}
    BY Zenon DEF Early
  <2>2. /\ Cardinality(Early) \in Nat /\ Cardinality(Early') \in Nat
        /\ (login[k].step \in EarlySteps /\ new.step \in EarlySteps) => Cardinality(Early') = Cardinality(Early)
        /\ (login[k].step \notin EarlySteps /\ new.step \notin EarlySteps) => Cardinality(Early') = Cardinality(Early)
        /\ (login[k].step \in EarlySteps /\ new.step \notin EarlySteps) => Cardinality(Early) = Cardinality(Early') + 1
    BY Zenon, <1>1, <2>1, Moves DEF Early
  <2>. QED BY <2>2
<1>3. /\ Cardinality(Binding) \in Nat /\ Cardinality(Binding') \in Nat
      /\ Cardinality(Binding') = Cardinality(Binding) \/ (At(k, "bind") /\ Cardinality(Binding) = Cardinality(Binding') + 1)
  <2>1. Binding' = {j \in Logins : login'[j].step \in {"bind"}} /\ new.step \notin {"bind"}
    BY Zenon DEF Binding
  <2>2. /\ Cardinality(Binding) \in Nat /\ Cardinality(Binding') \in Nat
        /\ login[k].step \notin {"bind"} => Cardinality(Binding') = Cardinality(Binding)
        /\ login[k].step \in {"bind"} => Cardinality(Binding) = Cardinality(Binding') + 1
    BY Zenon, <1>1, <2>1, Moves DEF Binding
  <2>. QED BY Zenon, <2>2 DEF At
<1>4. Bound' = Bound /\ Cardinality(Bound) \in Nat
  BY Zenon, BoundIsFinite DEF Bound
<1>5. TenantsCounted
  BY Zenon
<1>6. created' = created /\ calls' = calls
  BY Zenon
<1>7. created + Cardinality(Early') <= calls
  BY <1>1, <1>2, <1>5 DEF TenantsCounted
<1>8. created <= Cardinality(Bound) + Cardinality(Binding') + failures' + refused'
  <2>1. PICK b, c, d : b = Cardinality(Bound) /\ c = Cardinality(Binding) /\ d = Cardinality(Binding')
    BY Zenon
  <2>2. b \in Nat /\ c \in Nat /\ d \in Nat /\ (d = c \/ (c = d + 1 /\ At(k, "bind")))
    BY Zenon, <1>3, <1>4, <2>1
  <2>3. failures \in Nat /\ refused \in Nat /\ created <= b + c + failures + refused
    BY Zenon, <1>5, <2>1 DEF TenantsCounted
  <2>4. d = c \/ (c = d + 1 /\ failures + refused + 1 <= failures' + refused')
    BY Zenon, <2>2
  <2>5. created <= b + d + failures' + refused'
    BY Zenon, <1>1, <2>2, <2>3, <2>4, OneEnds
  <2>. QED BY Zenon, <2>1, <2>5
<1>. QED BY Zenon, <1>4, <1>5, <1>6, <1>7, <1>8 DEF TenantsCounted

\* A call begins.
LEMMA BeginCount ==
  ASSUME OnboardingTypes, TenantsCounted, NEW k \in Logins, NEW door \in {"tenant", "user"}, NEW u \in Subs,
         Begin(k, door, u)
  PROVE  TenantsCounted'
<1>1. PICK new : new = [Away EXCEPT !.step = "find", !.door = door, !.sub = u]
  BY Zenon
<1>2. new = [step |-> "find", door |-> door, sub |-> u, tenant |-> 0, grant |-> 1]
  BY Zenon, <1>1 DEF Away
<1>3. new \in LoginStates /\ new.step = "find" /\ new.step \in EarlySteps /\ new.step \notin {"bind"}
  <2>1. "find" \in LoginSteps /\ "find" \in EarlySteps
    BY Zenon DEF LoginSteps, EarlySteps
  <2>. QED BY <1>2, <2>1 DEF LoginStates
<1>4. /\ GoesTo(k, new) /\ login[k].step = "away" /\ calls < MaxCalls /\ calls' = calls + 1
      /\ UNCHANGED <<created, binding, failures, refused>>
  BY Zenon, <1>1 DEF Begin, At, Rows
<1>5. login[k].step \notin EarlySteps /\ login[k].step \notin {"bind"} /\ login \in [Logins -> LoginStates]
  BY Zenon, <1>4 DEF EarlySteps, OnboardingTypes
<1>6. Cardinality(Early') = Cardinality(Early) + 1 /\ Cardinality(Early) \in Nat
  <2>1. Early' = {j \in Logins : login'[j].step \in EarlySteps}
    BY Zenon DEF Early
  <2>. QED BY Zenon, <1>3, <1>4, <1>5, <2>1, Moves DEF Early
<1>7. Cardinality(Binding') = Cardinality(Binding)
  <2>1. Binding' = {j \in Logins : login'[j].step \in {"bind"}}
    BY Zenon DEF Binding
  <2>. QED BY Zenon, <1>3, <1>4, <1>5, <2>1, Moves DEF Binding
<1>8. Bound' = Bound
  BY Zenon, <1>4 DEF Bound
<1>9. TenantsCounted /\ created \in Nat
  BY Zenon DEF OnboardingTypes
<1>10. calls' \in Nat /\ calls' <= MaxCalls /\ created' + Cardinality(Early') <= calls'
  BY <1>4, <1>6, <1>9, LoginsAssumption DEF TenantsCounted
<1>. QED BY Zenon, <1>4, <1>7, <1>8, <1>9, <1>10 DEF TenantsCounted

\* create_tenant: the call creates its one tenant.
LEMMA CreateCount ==
  ASSUME OnboardingTypes, TenantsCounted, NEW k \in Logins, CreateTenant(k)
  PROVE  TenantsCounted'
<1>1. PICK it \in LoginStates : it = login[k]
  BY Zenon DEF OnboardingTypes
<1>2. PICK new : new = [it EXCEPT !.step = "bind", !.tenant = created + 1]
  BY Zenon
<1>3. /\ GoesTo(k, new) /\ it.step = "create" /\ created' = created + 1
      /\ UNCHANGED <<binding, calls, failures, refused>>
  BY Zenon, <1>1, <1>2 DEF CreateTenant, InsertTenant, At
<1>4. created \in Nat /\ login \in [Logins -> LoginStates]
  BY Zenon DEF OnboardingTypes
<1>5. new \in LoginStates /\ new.step = "bind"
  <2>1. "bind" \in LoginSteps /\ created + 1 \in Nat
    BY <1>4 DEF LoginSteps
  <2>. QED BY Zenon, <1>2, <2>1 DEF LoginStates
<1>6. /\ new.step \notin EarlySteps /\ login[k].step \in EarlySteps
      /\ new.step \in {"bind"} /\ login[k].step \notin {"bind"}
  BY Zenon, <1>1, <1>3, <1>5 DEF EarlySteps
<1>7. Cardinality(Early) = Cardinality(Early') + 1 /\ Cardinality(Early') \in Nat
  <2>1. Early' = {j \in Logins : login'[j].step \in EarlySteps}
    BY Zenon DEF Early
  <2>. QED BY Zenon, <1>3, <1>4, <1>5, <1>6, <2>1, Moves DEF Early
<1>8. Cardinality(Binding') = Cardinality(Binding) + 1 /\ Cardinality(Binding) \in Nat
  <2>1. Binding' = {j \in Logins : login'[j].step \in {"bind"}}
    BY Zenon DEF Binding
  <2>. QED BY Zenon, <1>3, <1>4, <1>5, <1>6, <2>1, Moves DEF Binding
<1>9. Bound' = Bound /\ Cardinality(Bound) \in Nat
  BY Zenon, <1>3, BoundIsFinite DEF Bound
<1>10. TenantsCounted
  BY Zenon
<1>11. created' + Cardinality(Early') <= calls'
  BY <1>3, <1>4, <1>7, <1>10 DEF TenantsCounted
<1>12. created' <= Cardinality(Bound') + Cardinality(Binding') + failures' + refused'
  <2>1. PICK b, c : b = Cardinality(Bound) /\ c = Cardinality(Binding)
    BY Zenon
  <2>2. b \in Nat /\ c \in Nat /\ failures \in Nat /\ refused \in Nat /\ created <= b + c + failures + refused
    BY Zenon, <1>8, <1>9, <1>10, <2>1 DEF TenantsCounted
  <2>3. created + 1 <= b + (c + 1) + failures + refused
    BY <1>4, <2>2
  <2>. QED BY Zenon, <1>3, <1>8, <1>9, <2>1, <2>3
<1>. QED BY Zenon, <1>3, <1>10, <1>11, <1>12 DEF TenantsCounted

\* The binding of a tenant that was nobody's.
LEMMA BindCount ==
  ASSUME OnboardingFacts, TenantsCounted, NEW k \in Logins, NEW new \in LoginStates, GoesTo(k, new),
         At(k, "bind"), new.step # "bind", new.step \notin EarlySteps, binding[login[k].sub] = 0,
         InsertBinding(login[k].sub, login[k].tenant), UNCHANGED <<created, calls, failures, refused>>
  PROVE  TenantsCounted'
<1>1. OnboardingTypes /\ created \in Nat /\ login \in [Logins -> LoginStates] /\ binding \in [Subs -> 0..created] /\ Known(login[k])
  BY Zenon DEF OnboardingFacts, OnboardingTypes
<1>2. PICK u \in Subs, t \in 1..created : u = login[k].sub /\ t = login[k].tenant /\ \A v \in Subs : binding[v] # t
  BY Zenon, <1>1 DEF Known, At
<1>3. binding' = [binding EXCEPT ![u] = t] /\ binding[u] = 0 /\ t # 0
  BY Zenon, <1>2 DEF InsertBinding
<1>4. Bound' = Bound \cup {t} /\ t \notin Bound
  <2>1. /\ binding'[u] = t /\ \A v \in Subs : v # u => binding'[v] = binding[v]
    BY Zenon, <1>1, <1>3
  <2>2. Bound' = {binding'[v] : v \in Subs} \ {0}
    BY Zenon DEF Bound
  <2>3. t \in Bound' /\ \A v \in Bound : v \in Bound'
    BY <1>3, <2>1, <2>2 DEF Bound
  <2>4. \A v \in Bound' : v = t \/ v \in Bound
    BY Zenon, <2>1, <2>2 DEF Bound
  <2>. QED BY Zenon, <1>2, <2>3, <2>4 DEF Bound
<1>5. IsFiniteSet(Bound) /\ Cardinality(Bound) \in Nat
  BY Zenon, <1>1, BoundIsFinite
<1>6. Cardinality(Bound') = Cardinality(Bound) + 1
  BY Zenon, <1>4, <1>5, FS_AddElement
<1>7. login[k].step \notin EarlySteps /\ login[k].step \in {"bind"} /\ new.step \notin {"bind"}
  BY Zenon DEF At, EarlySteps
<1>8. Cardinality(Early') = Cardinality(Early)
  <2>1. Early' = {j \in Logins : login'[j].step \in EarlySteps}
    BY Zenon DEF Early
  <2>. QED BY Zenon, <1>1, <1>7, <2>1, Moves DEF Early
<1>9. Cardinality(Binding) = Cardinality(Binding') + 1 /\ Cardinality(Binding') \in Nat
  <2>1. Binding' = {j \in Logins : login'[j].step \in {"bind"}}
    BY Zenon DEF Binding
  <2>. QED BY Zenon, <1>1, <1>7, <2>1, Moves DEF Binding
<1>10. TenantsCounted
  BY Zenon
<1>11. created <= Cardinality(Bound') + Cardinality(Binding') + failures + refused
  <2>1. PICK b, c : b = Cardinality(Bound) /\ c = Cardinality(Binding')
    BY Zenon
  <2>2. b \in Nat /\ c \in Nat /\ failures \in Nat /\ refused \in Nat /\ created <= b + (c + 1) + failures + refused
    BY Zenon, <1>5, <1>9, <1>10, <2>1 DEF TenantsCounted
  <2>3. created <= (b + 1) + c + failures + refused
    BY <1>1, <2>2
  <2>. QED BY Zenon, <1>6, <2>1, <2>3
<1>. QED BY Zenon, <1>8, <1>10, <1>11 DEF TenantsCounted

\* Every step of a call that neither begins, creates nor binds.
LEMMA RestCount ==
  ASSUME OnboardingFacts, TenantsCounted, NEW k \in Logins,
         \/ FindTenantBinding(k) \/ FindUserBinding(k) \/ FindUser(k) \/ CreateUser(k)
         \/ FetchBinding(k) \/ SeedCheck(k) \/ SeedWrite(k) \/ Fails(k)
  PROVE  TenantsCounted'
<1>1. OnboardingTypes /\ failures \in Nat /\ refused \in Nat
  BY Zenon DEF OnboardingFacts, TenantsCounted
<1>2. UNCHANGED <<created, binding, calls>>
  BY Zenon DEF FindTenantBinding, FindUserBinding, FindUser, CreateUser, FetchBinding, SeedCheck, SeedWrite, Fails, Rows
<1>3. /\ failures' = failures \/ (failures' = failures + 1 /\ ~At(k, "away"))
      /\ refused' = refused \/ refused' = refused + 1
      /\ At(k, "bind") => failures' = failures + 1
  BY Zenon DEF FindTenantBinding, FindUserBinding, FindUser, CreateUser, FetchBinding, SeedCheck, SeedWrite, Fails, Refuse, At
<1>4. /\ failures' \in Nat /\ refused' \in Nat /\ failures <= failures' /\ refused <= refused'
      /\ At(k, "bind") => failures + refused + 1 <= failures' + refused'
  BY <1>1, <1>3
<1>5. SUFFICES \E new \in LoginStates :
        /\ GoesTo(k, new) /\ new.step # "bind" /\ (new.step \in EarlySteps => login[k].step \in EarlySteps)
  BY Zenon, <1>1, <1>2, <1>4, QuietCount
<1>6. PICK it \in LoginStates : it = login[k]
  BY Zenon, <1>1 DEF OnboardingTypes
<1>7. CASE GoesTo(k, Away)
  <2>1. Away.step \notin EarlySteps
    BY Zenon DEF Away, EarlySteps
  <2>. QED BY Zenon, <1>7, <2>1, AwayIsFree
<1>8. CASE FindTenantBinding(k)
  <2>1. PICK new, next : next = (IF binding[it.sub] # 0 THEN "check" ELSE "create")
                         /\ new = [it EXCEPT !.step = next, !.tenant = binding[it.sub]]
    BY Zenon
  <2>2. GoesTo(k, new) /\ it.step = "find"
    BY Zenon, <1>6, <1>8, <2>1 DEF FindTenantBinding, FindUserTenant, At
  <2>3. next \in LoginSteps /\ next # "bind" /\ it.step \in EarlySteps
    BY Zenon, <2>1, <2>2 DEF LoginSteps, EarlySteps
  <2>4. it.sub \in Subs /\ binding \in [Subs -> 0..created] /\ created \in Nat
    BY Zenon, <1>6, <2>2 DEF OnboardingFacts, OnboardingTypes, Known
  <2>5. binding[it.sub] \in Nat
    BY <2>4
  <2>6. new \in LoginStates /\ new.step = next
    BY Zenon, <2>1, <2>3, <2>5 DEF LoginStates
  <2>. QED BY Zenon, <1>6, <2>2, <2>3, <2>6
<1>9. CASE FindUserBinding(k) \/ FindUser(k) \/ CreateUser(k)
  <2>1. it.step \in EarlySteps
    BY Zenon, <1>6, <1>9 DEF FindUserBinding, FindUser, CreateUser, At, EarlySteps
  <2>2. GoesTo(k, Away) \/ \E next \in EarlySteps : GoesTo(k, [it EXCEPT !.step = next])
    BY Zenon, <1>6, <1>9 DEF FindUserBinding, FindUser, CreateUser, Answer, Refuse, EarlySteps
  <2>3. ASSUME NEW next \in EarlySteps, GoesTo(k, [it EXCEPT !.step = next])
        PROVE  \E new \in LoginStates :
                 /\ GoesTo(k, new) /\ new.step # "bind" /\ (new.step \in EarlySteps => login[k].step \in EarlySteps)
    <3>1. PICK new : new = [it EXCEPT !.step = next]
      BY Zenon
    <3>2. next \in LoginSteps /\ next # "bind"
      BY Zenon DEF LoginSteps, EarlySteps
    <3>3. new \in LoginStates /\ new.step = next
      BY Zenon, <3>1, <3>2 DEF LoginStates
    <3>. QED BY Zenon, <1>6, <2>1, <2>3, <3>1, <3>2, <3>3
  <2>. QED BY Zenon, <1>7, <2>2, <2>3
<1>10. CASE SeedCheck(k) \/ SeedWrite(k)
  <2>1. it.step \in {"check", "write"} /\ Known(it)
    BY Zenon, <1>6, <1>10 DEF SeedCheck, SeedWrite, At, OnboardingFacts
  <2>2. \/ GoesTo(k, Away) \/ GoesTo(k, [it EXCEPT !.step = "write"])
        \/ it.grant <= 4 /\ GoesTo(k, [it EXCEPT !.grant = @ + 1])
        \/ it.grant <= 4 /\ GoesTo(k, [it EXCEPT !.step = "check", !.grant = @ + 1])
    BY Zenon, <1>6, <1>10, <2>1, GrantsAre DEF SeedCheck, SeedWrite, Answer, Refuse, Known, At
  <2>3. /\ "write" \in LoginSteps /\ "check" \in LoginSteps /\ "write" \notin EarlySteps /\ "check" \notin EarlySteps
        /\ it.step \notin EarlySteps
    BY Zenon, <2>1 DEF LoginSteps, EarlySteps
  <2>4. ASSUME GoesTo(k, [it EXCEPT !.step = "write"])
        PROVE  \E new \in LoginStates : GoesTo(k, new) /\ new.step # "bind" /\ new.step \notin EarlySteps
    <3>1. PICK new : new = [it EXCEPT !.step = "write"]
      BY Zenon
    <3>2. new \in LoginStates /\ new.step = "write"
      BY Zenon, <2>3, <3>1 DEF LoginStates
    <3>. QED BY Zenon, <2>3, <2>4, <3>1, <3>2
  <2>5. ASSUME NEW next \in {"check", "write"}, it.grant <= 4, GoesTo(k, [it EXCEPT !.step = next, !.grant = @ + 1])
        PROVE  \E new \in LoginStates : GoesTo(k, new) /\ new.step # "bind" /\ new.step \notin EarlySteps
    <3>1. PICK new : new = [it EXCEPT !.step = next, !.grant = it.grant + 1]
      BY Zenon
    <3>2. it.grant + 1 \in 1..5 /\ next \in LoginSteps /\ next \notin EarlySteps /\ next # "bind"
      BY <2>3, <2>5 DEF LoginStates
    <3>3. new \in LoginStates /\ new.step = next
      BY Zenon, <3>1, <3>2 DEF LoginStates
    <3>. QED BY Zenon, <2>5, <3>1, <3>2, <3>3
  <2>6. ASSUME it.grant <= 4, GoesTo(k, [it EXCEPT !.grant = @ + 1])
        PROVE  \E next \in {"check", "write"} : GoesTo(k, [it EXCEPT !.step = next, !.grant = @ + 1])
    <3>1. [it EXCEPT !.step = it.step, !.grant = @ + 1] = [it EXCEPT !.grant = @ + 1]
      BY Zenon DEF LoginStates
    <3>. QED BY Zenon, <2>1, <2>6, <3>1
  <2>. QED BY Zenon, <1>7, <2>2, <2>4, <2>5, <2>6
<1>11. CASE FetchBinding(k) \/ Fails(k)
  BY Zenon, <1>7, <1>11 DEF FetchBinding, Fails, Answer
<1>. QED BY Zenon, <1>8, <1>9, <1>10, <1>11

-----------------------------------------------------------------------------
\* The inductive invariant

OnboardingInv == OnboardingFacts /\ TenantsCounted

\* The initial state has the invariant.
LEMMA OnboardingInvInit == OnboardingInit => OnboardingInv
<1>. SUFFICES ASSUME OnboardingInit PROVE OnboardingInv
  BY Zenon
<1>1. /\ doors \subseteq {"tenant", "user"} /\ created = 0 /\ userRows = {} /\ tenantRows = {} /\ tuples = {} /\ answers = {}
      /\ binding = [u \in Subs |-> 0] /\ login = [k \in Logins |-> Away] /\ calls = 0 /\ failures = 0 /\ refused = 0
  BY Zenon DEF OnboardingInit
<1>2. OnboardingTypes
  BY <1>1, AwayIsFree DEF OnboardingTypes
<1>3. \A k \in Logins : Known(login[k]) /\ login[k].step = "away"
  BY Zenon, <1>1, AwayIsFree
<1>4. OwnTenants /\ AnswersKnown /\ BoundHasUserRow
  BY Zenon, <1>1, <1>3 DEF OwnTenants, AnswersKnown, BoundHasUserRow, At
<1>5. Early = {} /\ Binding = {} /\ Bound = {}
  BY Zenon, <1>1, <1>3 DEF Early, Binding, Bound, EarlySteps
<1>6. Cardinality({}) = 0
  BY Zenon, FS_EmptySet
<1>7. TenantsCounted
  BY <1>1, <1>5, <1>6, LoginsAssumption DEF TenantsCounted
<1>. QED BY Zenon, <1>1, <1>2, <1>3, <1>4, <1>7 DEF OnboardingInv, OnboardingFacts

\* The binding step, counted: the tenant is somebody's now, or the call is refused.
LEMMA BindingCount ==
  ASSUME OnboardingFacts, TenantsCounted, NEW k \in Logins, CreateBinding(k) \/ CreateBindingSurreal(k)
  PROVE  TenantsCounted'
<1>1. PICK it \in LoginStates : it = login[k]
  BY Zenon DEF OnboardingFacts, OnboardingTypes
<1>2. OnboardingTypes /\ it.step = "bind" /\ At(k, "bind") /\ UNCHANGED <<created, calls, failures>> /\ failures \in Nat /\ refused \in Nat
  BY Zenon, <1>1 DEF CreateBinding, CreateBindingSurreal, At, OnboardingFacts, TenantsCounted
<1>3. Away \in LoginStates /\ Away.step # "bind" /\ Away.step \notin EarlySteps
  BY Zenon, AwayIsFree DEF EarlySteps
<1>4. CASE binding[it.sub] # 0
  <2>1. GoesTo(k, Away) /\ refused' = refused + 1 /\ UNCHANGED binding
    BY Zenon, <1>1, <1>4 DEF CreateBinding, CreateBindingSurreal, Refuse
  <2>2. refused' \in Nat /\ refused <= refused' /\ failures' \in Nat /\ failures <= failures' /\ failures + refused + 1 <= failures' + refused'
    BY <1>2, <2>1
  <2>. QED BY Zenon, <1>2, <1>3, <2>1, <2>2, QuietCount
<1>5. CASE binding[it.sub] = 0 /\ CreateBinding(k)
  <2>1. PICK new, next : next = (IF it.door = "tenant" THEN "check" ELSE "fetch") /\ new = [it EXCEPT !.step = next]
    BY Zenon
  <2>2. GoesTo(k, new) /\ InsertBinding(login[k].sub, login[k].tenant) /\ UNCHANGED refused
    BY Zenon, <1>1, <1>5, <2>1 DEF CreateBinding
  <2>3. next \in LoginSteps /\ next # "bind" /\ next \notin EarlySteps
    BY Zenon, <2>1 DEF LoginSteps, EarlySteps
  <2>4. new \in LoginStates /\ new.step = next
    BY Zenon, <2>1, <2>3 DEF LoginStates
  <2>. QED BY Zenon, <1>1, <1>2, <1>5, <2>2, <2>3, <2>4, BindCount
<1>6. CASE binding[it.sub] = 0 /\ CreateBindingSurreal(k)
  <2>1. GoesTo(k, Away) /\ InsertBinding(login[k].sub, login[k].tenant) /\ UNCHANGED refused
    BY Zenon, <1>1, <1>6 DEF CreateBindingSurreal, Answer
  <2>. QED BY Zenon, <1>1, <1>2, <1>3, <1>6, <2>1, BindCount
<1>. QED BY Zenon, <1>4, <1>5, <1>6

\* delete_tenant takes a row of tenant and nothing else.
LEMMA DeleteStep ==
  ASSUME OnboardingInv, NEW t, DeleteTenant(t)
  PROVE  OnboardingInv'
<1>1. UNCHANGED <<doors, allowAll, userRows, created, binding, tuples, login, calls, failures, refused, answers>>
  BY Zenon DEF DeleteTenant
<1>2. tenantRows' \subseteq tenantRows
  BY Zenon DEF DeleteTenant
<1>3. OnboardingTypes'
  BY Zenon, <1>1, <1>2 DEF OnboardingInv, OnboardingFacts, OnboardingTypes
<1>4. (\A k \in Logins : Known(login[k])') /\ OwnTenants' /\ AnswersKnown' /\ BoundHasUserRow'
  BY Zenon, <1>1 DEF OnboardingInv, OnboardingFacts, OwnTenants, AnswersKnown, BoundHasUserRow, Known, Seeded, At
<1>5. TenantsCounted'
  BY Zenon, <1>1 DEF OnboardingInv, TenantsCounted, Early, Binding, Bound
<1>6. allowAll' => tuples' = {}
  BY Zenon, <1>1 DEF OnboardingInv, OnboardingFacts
<1>. QED BY Zenon, <1>3, <1>4, <1>5, <1>6 DEF OnboardingInv, OnboardingFacts

\* Every step keeps the invariant.
LEMMA OnboardingInvStep == OnboardingInv /\ [OnboardingNext]_onboardingVars => OnboardingInv'
<1>. SUFFICES ASSUME OnboardingInv, [OnboardingNext]_onboardingVars PROVE OnboardingInv'
  BY Zenon
<1>1. OnboardingFacts /\ TenantsCounted /\ OnboardingTypes
  BY Zenon DEF OnboardingInv, OnboardingFacts
<1>2. ASSUME NEW k \in Logins, NEW door \in {"tenant", "user"}, NEW u \in Subs, Begin(k, door, u) PROVE OnboardingInv'
  BY Zenon, <1>1, <1>2, BeginStep, BeginCount DEF OnboardingInv
<1>3. ASSUME NEW k \in Logins, CreateTenant(k) PROVE OnboardingInv'
  BY Zenon, <1>1, <1>3, CreateSteps, CreateCount DEF OnboardingInv
<1>4. ASSUME NEW k \in Logins, CreateBinding(k) \/ CreateBindingSurreal(k) PROVE OnboardingInv'
  BY Zenon, <1>1, <1>4, BindSteps, BindingCount DEF OnboardingInv
<1>5. ASSUME NEW k \in Logins, CreateUser(k) PROVE OnboardingInv'
  BY Zenon, <1>1, <1>5, CreateSteps, RestCount DEF OnboardingInv
<1>6. ASSUME NEW k \in Logins, SeedWrite(k) PROVE OnboardingInv'
  BY Zenon, <1>1, <1>6, SeedWriteStep, RestCount DEF OnboardingInv
<1>7. ASSUME NEW k \in Logins,
             FindTenantBinding(k) \/ FindUserBinding(k) \/ FindUser(k) \/ FetchBinding(k) \/ SeedCheck(k) \/ Fails(k)
      PROVE  OnboardingInv'
  BY Zenon, <1>1, <1>7, ReadSteps, RestCount DEF OnboardingInv
<1>8. ASSUME NEW t \in tenantRows, DeleteTenant(t) PROVE OnboardingInv'
  BY Zenon, <1>8, DeleteStep
<1>9. CASE UNCHANGED onboardingVars
  <2>1. UNCHANGED <<doors, allowAll, userRows, tenantRows, created, binding, tuples, login, calls, failures, refused, answers>>
    BY Zenon, <1>9 DEF onboardingVars
  <2>2. OnboardingTypes' /\ TenantsCounted' /\ (allowAll' => tuples' = {})
    BY Zenon, <1>1, <2>1 DEF OnboardingTypes, TenantsCounted, Early, Binding, Bound, OnboardingFacts
  <2>3. (\A k \in Logins : Known(login[k])') /\ OwnTenants' /\ AnswersKnown' /\ BoundHasUserRow'
    BY Zenon, <1>1, <2>1 DEF OnboardingFacts, OwnTenants, AnswersKnown, BoundHasUserRow, Known, Seeded, At
  <2>. QED BY Zenon, <2>2, <2>3 DEF OnboardingInv, OnboardingFacts
<1>. QED BY Zenon, <1>2, <1>3, <1>4, <1>5, <1>6, <1>7, <1>8, <1>9 DEF OnboardingNext

\* What an answer says of the tables.
LEMMA AnswerIsTrue ==
  ASSUME OnboardingFacts, NEW a \in answers
  PROVE  /\ \A claim \in {NoClaim, a[3]} : ResolveTenant(a[2], claim) = a[3]
         /\ UserTenants(a[2]) = {[tenant |-> a[3], named |-> a[3] \in tenantRows]}
         /\ a[1] = "tenant" => Check(a[2], "can_read", a[3]) /\ Check(a[2], "can_write", a[3])
<1>1. a \in {"tenant", "user"} \X Subs \X (1..created) /\ created \in Nat
  BY Zenon DEF OnboardingFacts, OnboardingTypes
<1>2. PICK u \in Subs, t \in 1..created : u = a[2] /\ t = a[3]
  BY Zenon, <1>1
<1>3. binding[u] = t /\ t # 0 /\ (a[1] = "tenant" => Seeded(u, t, 5))
  BY <1>1, <1>2 DEF OnboardingFacts, AnswersKnown
<1>4. \A claim \in {NoClaim, t} : ResolveTenant(u, claim) = t
  BY Zenon, <1>3 DEF ResolveTenant, FindBinding
<1>5. UserTenants(u) = {[tenant |-> t, named |-> t \in tenantRows]}
  <2>1. {FindBinding(u)} \ {0} = {t}
    BY Zenon, <1>3 DEF FindBinding
  <2>. QED BY Zenon, <2>1 DEF UserTenants, FindById
<1>6. ASSUME a[1] = "tenant" PROVE Check(u, "can_read", t) /\ Check(u, "can_write", t)
  <2>1. allowAll \/ (<<u, Grants[3], t>> \in tuples /\ <<u, Grants[4], t>> \in tuples)
    BY <1>3, <1>6 DEF Seeded
  <2>. QED BY Zenon, <2>1, GrantsAre DEF Check, OnboardingFacts
<1>. QED BY Zenon, <1>2, <1>4, <1>5, <1>6

\* An Ok answer of POST /api/tenant/init or of user-service means that the user
\* is onboarded (init_tenant_for_user, seed_dev_counter_authz): bound to the one
\* tenant the answer names, allowed to use its counter, and with every tenant
\* that is nobody's accounted for by a call that still runs, failed or was
\* refused, for any number of racing calls and whichever of them fail.
THEOREM OnboardingCorrect == OnboardingSpec => [](OnboardingTypeOK /\ AnsweredIsOnboarded)
<1>1. OnboardingInv => OnboardingTypeOK /\ AnsweredIsOnboarded
  <2>. SUFFICES ASSUME OnboardingInv PROVE OnboardingTypeOK /\ AnsweredIsOnboarded
    BY Zenon
  <2>1. OnboardingFacts /\ OnboardingTypes /\ TenantsCounted
    BY Zenon DEF OnboardingInv, OnboardingFacts
  <2>2. AnswersAgree /\ AnsweredMayUse
    BY Zenon, <2>1, AnswerIsTrue DEF AnswersAgree, AnsweredMayUse
  <2>3. OrphansAreFailures
    <3>1. Binding = {k \in Logins : At(k, "bind")}
      BY Zenon DEF Binding, At
    <3>. QED BY Zenon, <2>1, <3>1 DEF TenantsCounted, OrphansAreFailures, Bound
  <2>4. tenantRows \subseteq 1..MaxCalls
    <3>1. IsFiniteSet(Early)
      BY Zenon, LoginsAssumption, FS_Subset DEF Early
    <3>2. Cardinality(Early) \in Nat
      BY Zenon, <3>1, FS_CardinalityType
    <3>3. created \in Nat /\ created <= MaxCalls
      BY <2>1, <3>2, LoginsAssumption DEF TenantsCounted, OnboardingTypes
    <3>. QED BY <2>1, <3>3, LoginsAssumption DEF OnboardingTypes
  <2>5. OnboardingTypeOK
    BY Zenon, <2>1, <2>4 DEF OnboardingTypes, OnboardingTypeOK, GrantNames
  <2>. QED BY Zenon, <2>1, <2>2, <2>3, <2>5 DEF AnsweredIsOnboarded, OnboardingFacts
<1>. QED BY <1>1, OnboardingInvInit, OnboardingInvStep, PTL DEF OnboardingSpec

-----------------------------------------------------------------------------
(* The lock. *)

\* What makes a guard exclusive within its TTL: a token belongs to one owner, a
\* token that is being released has no owner any more, and none is newer than
\* the last one issued.
LockInv ==
  /\ LockTypeOK
  /\ lock <= issued
  /\ \A o \in Owners : guard[o] <= issued
  /\ \A o, p \in Owners : guard[o] # 0 /\ guard[o] = guard[p] => o = p
  /\ \A t \in releasing : t <= issued /\ \A o \in Owners : guard[o] # t
  /\ GuardIsExclusive

\* Every step of the lock keeps the invariant; try_acquire is the one that a
\* stale entry could fool, and ReleaseInternal the one that a late task could.
LEMMA LockStep == LockInv /\ [LockNext]_lockVars => LockInv'
<1>. SUFFICES ASSUME LockInv, [LockNext]_lockVars PROVE LockInv'
  BY Zenon
<1>. USE LockBounds
<1>1. CASE UNCHANGED lockVars
  BY Zenon, <1>1 DEF LockInv, LockTypeOK, GuardIsExclusive, lockVars
<1>2. CASE Elapse
  BY <1>2 DEF LockInv, LockTypeOK, GuardIsExclusive, Elapse
<1>3. ASSUME NEW t \in Tokens, ReleaseInternal(t) PROVE LockInv'
  BY <1>3 DEF LockInv, LockTypeOK, GuardIsExclusive, ReleaseInternal, Tokens
<1>4. ASSUME NEW o \in Owners, TryAcquire(o) \/ Acquire(o) PROVE LockInv'
  <2>1. TryAcquireLock(o) /\ UNCHANGED <<old, releasing>> /\ waiting' \subseteq waiting
    BY Zenon, <1>4 DEF TryAcquire, Acquire
  <2>2. \A p \in Owners : guard[p] <= old
    BY <2>1 DEF LockInv, LockTypeOK, GuardIsExclusive, TryAcquireLock
  <2>. QED
    BY <2>1, <2>2 DEF LockInv, LockTypeOK, GuardIsExclusive, TryAcquireLock, Tokens
<1>5. ASSUME NEW o \in Owners, StartAcquire(o) \/ Timeout(o) PROVE LockInv'
  BY <1>5 DEF LockInv, LockTypeOK, GuardIsExclusive, StartAcquire, Timeout
<1>6. ASSUME NEW o \in Owners, DropGuard(o) PROVE LockInv'
  BY <1>6 DEF LockInv, LockTypeOK, GuardIsExclusive, DropGuard, Tokens
<1>. QED
  BY Zenon, <1>1, <1>2, <1>3, <1>4, <1>5, <1>6 DEF LockNext

\* The lock's tokens keep their types, and within its TTL a guard is the only
\* one, however late the spawned releases of expired guards run.
THEOREM LockCorrect == LockSpec => [](LockTypeOK /\ GuardIsExclusive)
<1>1. LockInit => LockInv
  BY LockBounds DEF LockInit, LockInv, LockTypeOK, GuardIsExclusive, Tokens
<1>2. LockInv => LockTypeOK /\ GuardIsExclusive
  BY Zenon DEF LockInv
<1>. QED
  BY <1>1, <1>2, LockStep, PTL DEF LockSpec

-----------------------------------------------------------------------------
(* The state store. *)

StateEntries == [version : 0..MaxWrites, value : 0..MaxWrites, read : 0..MaxWrites]

\* Versions count writes; a stored entry has a version and a value.  Until the
\* key is deleted, a copy that was read is the stored entry or an older version
\* of it.
StateInv ==
  /\ store \in StateEntries /\ copy \in [Writers -> StateEntries]
  /\ writes \in 0..MaxWrites /\ deleted \in BOOLEAN
  /\ store.version <= writes
  /\ \A w \in Writers : copy[w].version <= writes \/ copy[w].version = 1
  /\ store = NoEntry \/ store.value # 0
  /\ ~deleted => \A w \in Writers : copy[w].value # 0 =>
       /\ store # NoEntry
       /\ copy[w].version <= store.version
       /\ copy[w].version = store.version => copy[w].value = store.value

\* A write replaces the entry with the compared version, whose value is the one
\* that was read: set keeps the invariant, and a write over an entry names it.
LEMMA SetStep ==
  ASSUME StateInv, NEW w \in Writers, Set(w)
  PROVE  /\ StateInv'
         /\ ~deleted' /\ store'.read # 0 => store'.read = store.value
<1>. DEFINE entry == copy[w]
            version == IF store = NoEntry THEN entry.version ELSE entry.version + 1
<1>1. /\ entry # NoEntry /\ writes < MaxWrites
      /\ store = NoEntry \/ store.version = entry.version
      /\ store' = [version |-> version, value |-> writes + 1, read |-> entry.value]
      /\ writes' = writes + 1
      /\ copy' = [copy EXCEPT ![w] = NoEntry]
      /\ deleted' = deleted
  BY Zenon DEF Set
<1>2. entry \in StateEntries /\ store \in StateEntries
  BY Zenon DEF StateInv
<1>3. version \in 0..writes + 1 /\ (store # NoEntry => store.version < version)
  BY <1>1, <1>2, StateBounds DEF StateInv, StateEntries
<1>. HIDE DEF entry, version
<1>4. store' \in StateEntries
  BY <1>1, <1>2, <1>3, StateBounds DEF StateInv, StateEntries
<1>5. NoEntry \in StateEntries
  BY StateBounds DEF NoEntry, StateEntries
<1>6. \A v \in Writers : copy'[v] = IF v = w THEN NoEntry ELSE copy[v]
  BY Zenon, <1>1 DEF StateInv
<1>7. copy' \in [Writers -> StateEntries]
  BY Zenon, <1>1, <1>5 DEF StateInv
<1>8. ASSUME ~deleted', NEW v \in Writers, copy'[v].value # 0
      PROVE  store' # NoEntry /\ copy'[v].version < store'.version
  <2>1. v # w /\ copy'[v] = copy[v]
    BY <1>6, <1>8 DEF NoEntry
  <2>2. store # NoEntry /\ copy[v].version <= store.version /\ copy[v] \in StateEntries
    BY Zenon, <1>1, <1>8, <2>1 DEF StateInv
  <2>. QED
    BY <1>1, <1>2, <1>3, <2>1, <2>2 DEF NoEntry, StateEntries, StateInv
<1>9. \A v \in Writers : copy'[v].version <= writes' \/ copy'[v].version = 1
  BY <1>1, <1>6, <1>7 DEF StateInv, StateEntries, NoEntry
<1>10. store'.version <= writes' /\ store'.value # 0
  BY <1>1, <1>3 DEF StateInv
<1>11. ~deleted' /\ store'.read # 0 => store'.read = store.value
  BY Zenon, <1>1 DEF StateInv, entry
<1>12. \A v \in Writers : copy'[v].version \in Nat /\ store'.version \in Nat
  BY <1>4, <1>7 DEF StateEntries
<1>13. ~deleted' => \A v \in Writers : copy'[v].value # 0 =>
         /\ store' # NoEntry
         /\ copy'[v].version <= store'.version
         /\ copy'[v].version = store'.version => copy'[v].value = store'.value
  BY <1>8, <1>12
<1>14. writes' \in 0..MaxWrites /\ deleted' \in BOOLEAN
  BY <1>1, StateBounds DEF StateInv
<1>. QED
  BY Zenon, <1>4, <1>7, <1>9, <1>10, <1>11, <1>13, <1>14 DEF StateInv

\* What an update may do, as the action NoLostUpdate is about.
UpdateIsBased == (store' # store /\ ~deleted' /\ store'.read # 0) => store'.read = store.value

\* Every step of the store keeps the invariant and loses no update.
LEMMA StateStep == StateInv /\ [StateNext]_stateVars => StateInv' /\ UpdateIsBased
<1>. SUFFICES ASSUME StateInv, [StateNext]_stateVars PROVE StateInv' /\ UpdateIsBased
  BY Zenon
<1>. USE StateBounds
<1>1. CASE UNCHANGED stateVars
  BY Zenon, <1>1 DEF StateInv, UpdateIsBased, stateVars
<1>2. CASE Delete
  BY <1>2 DEF StateInv, UpdateIsBased, Delete, NoEntry, StateEntries
<1>3. ASSUME NEW w \in Writers, New(w) PROVE StateInv' /\ UpdateIsBased
  <2>1. [version |-> 1, value |-> 0, read |-> 0] \in StateEntries
    BY DEF StateEntries
  <2>. QED
    BY Zenon, <1>3, <2>1 DEF StateInv, UpdateIsBased, New
<1>4. ASSUME NEW w \in Writers, Get(w) PROVE StateInv' /\ UpdateIsBased
  BY <1>4 DEF StateInv, UpdateIsBased, Get, StateEntries
<1>5. ASSUME NEW w \in Writers, Set(w) PROVE StateInv' /\ UpdateIsBased
  BY Zenon, <1>5, SetStep DEF UpdateIsBased
<1>6. ASSUME NEW w \in Writers, SetConflicts(w) PROVE StateInv' /\ UpdateIsBased
  <2>1. NoEntry \in StateEntries
    BY DEF StateEntries, NoEntry
  <2>. QED
    BY <1>6, <2>1 DEF StateInv, UpdateIsBased, SetConflicts, NoEntry
<1>. QED
  BY Zenon, <1>1, <1>2, <1>3, <1>4, <1>5, <1>6 DEF StateNext

\* The entries keep their types, and the versions count the writes.
LEMMA StateInvariant == StateSpec => []StateInv
<1>1. StateInit => StateInv
  <2>1. NoEntry \in StateEntries
    BY StateBounds DEF NoEntry, StateEntries
  <2>2. NoEntry.version = 0 /\ NoEntry.value = 0
    BY Zenon DEF NoEntry
  <2>3. ASSUME StateInit
        PROVE  /\ store = NoEntry /\ copy \in [Writers -> StateEntries]
               /\ \A w \in Writers : copy[w] = NoEntry
               /\ writes = 0 /\ deleted \in BOOLEAN
    BY Zenon, <2>1, <2>3 DEF StateInit
  <2>. QED
    BY <2>1, <2>2, <2>3, StateBounds DEF StateInv
<1>. QED
  BY <1>1, StateStep, PTL DEF StateSpec

\* As long as the key is not deleted, a write based on an entry that was read
\* replaces exactly that entry: set's comparison of versions loses no write.
THEOREM StateCorrect == StateSpec => []StateTypeOK /\ NoLostUpdate
<1>1. StateInv => StateTypeOK
  BY Zenon DEF StateInv, StateTypeOK, StateEntries
<1>2. StateInv /\ [StateNext]_stateVars => [UpdateIsBased]_stateVars
  BY Zenon, StateStep
<1>3. StateSpec => [][UpdateIsBased]_stateVars
  BY <1>2, StateInvariant, PTL DEF StateSpec
<1>. QED
  BY <1>1, <1>3, StateInvariant, PTL DEF NoLostUpdate, UpdateIsBased

-----------------------------------------------------------------------------
(* The queue. *)

\* Ids are given out in order, and a message is in one place of one queue.
QueueIds ==
  /\ \A q \in Queues : \A i \in 1..Len(queue[q]) : queue[q][i].id <= enqueued
  /\ \A q, r \in Queues : \A i \in 1..Len(queue[q]), j \in 1..Len(queue[r]) :
       queue[q][i].id = queue[r][j].id => q = r /\ i = j
  /\ \A c \in Consumers : \A id \in inHand[c] : id <= enqueued
  /\ \A id \in abandoned : id <= enqueued

\* A visible message may still be dequeued; a hidden one was delayed or has
\* been dequeued.
QueueVisibility ==
  \A q \in Queues : \A i \in 1..Len(queue[q]) :
    /\ queue[q][i].visible => queue[q][i].count < MaxDequeues
    /\ ~queue[q][i].visible /\ ~queue[q][i].delayed => queue[q][i].count > 0

QueueInv ==
  /\ QueueTypeOK /\ QueueIds /\ QueueVisibility
  /\ OneConsumer /\ FirstDeliveriesInOrder /\ HiddenIsHeldOrAbandoned

\* dequeue's two assignments to the message it returns.
LEMMA HiddenMessage ==
  ASSUME QueueBounds, NEW x \in Message, x.count < MaxDequeues,
         NEW y, y = [x EXCEPT !.visible = FALSE, !.count = @ + 1]
  PROVE  /\ y \in Message /\ y.id = x.id /\ ~y.visible /\ y.delayed = x.delayed
         /\ y.count = x.count + 1 /\ x.count \in Nat /\ y.count > 0
<1>1. x.count \in Nat /\ x.count + 1 \in 0..MaxDequeues
  BY DEF Message
<1>2. y \in Message
  BY Zenon, <1>1 DEF Message
<1>3. ~y.visible
  BY Zenon DEF Message
<1>4. y.id = x.id /\ y.delayed = x.delayed /\ y.count = x.count + 1
  BY Zenon DEF Message
<1>. QED BY <1>1, <1>2, <1>3, <1>4

\* The places of a queue after a push at its end.
LEMMA PushedPlaces ==
  ASSUME NEW s \in Seq(Message), NEW e \in Message
  PROVE  /\ Append(s, e) \in Seq(Message)
         /\ \A i \in 1..Len(s) : i \in 1..Len(Append(s, e)) /\ Append(s, e)[i] = s[i] /\ s[i] \in Message
         /\ \A i \in 1..Len(Append(s, e)) : i \in 1..Len(s) \/ (i = Len(s) + 1 /\ Append(s, e)[i] = e)
OBVIOUS

\* What enqueue does to the places of the queues: one more at the end of q.
LEMMA EnqueueStep ==
  ASSUME QueueInv, NEW q \in Queues, NEW delayed \in BOOLEAN, Enqueue(q, delayed)
  PROVE  QueueInv'
<1>. DEFINE m == [id |-> enqueued + 1, delayed |-> delayed, visible |-> ~delayed, count |-> 0]
<1>. USE QueueBounds
<1>1. /\ enqueued \in Nat /\ enqueued < MaxMessages /\ enqueued' = enqueued + 1
      /\ queue' = [queue EXCEPT ![q] = Append(@, m)]
      /\ inHand' = inHand /\ abandoned' = abandoned /\ queue \in [Queues -> Seq(Message)]
  BY DEF QueueInv, QueueTypeOK, Enqueue
<1>2. m \in Message
  BY <1>1 DEF Message, Ids
<1>3. m.id = enqueued + 1 /\ m.visible = ~delayed /\ m.delayed = delayed /\ m.count = 0
  BY Zenon
<1>. HIDE DEF m
<1>4. \A r \in Queues : /\ queue[r] \in Seq(Message) /\ Len(queue[r]) \in Nat
                        /\ queue'[r] = IF r = q THEN Append(queue[r], m) ELSE queue[r]
  BY <1>1
<1>5. queue' \in [Queues -> Seq(Message)]
  BY <1>1, <1>2
<1>5a. /\ queue'[q] = Append(queue[q], m) /\ queue[q] \in Seq(Message)
       /\ \A i \in 1..Len(queue[q]) :
            /\ i \in 1..Len(Append(queue[q], m)) /\ Append(queue[q], m)[i] = queue[q][i]
            /\ queue[q][i] \in Message
       /\ \A i \in 1..Len(Append(queue[q], m)) :
            i \in 1..Len(queue[q]) \/ (i = Len(queue[q]) + 1 /\ Append(queue[q], m)[i] = m)
  <2>1. queue'[q] = Append(queue[q], m) /\ queue[q] \in Seq(Message)
    BY Zenon, <1>4
  <2>. QED BY Zenon, <1>2, <2>1, PushedPlaces
<1>6. ASSUME NEW r \in Queues, NEW i \in 1..Len(queue[r])
      PROVE  /\ queue[r][i] \in Message /\ queue[r][i].id \in Nat
             /\ i \in 1..Len(queue'[r]) /\ queue'[r][i] = queue[r][i]
  <2>1. queue[r][i] \in Message /\ i \in 1..Len(queue'[r]) /\ queue'[r][i] = queue[r][i]
    <3>1. CASE r = q
      BY Zenon, <1>5a, <3>1
    <3>2. CASE r # q
      BY <1>4, <3>2
    <3>. QED BY Zenon, <3>1, <3>2
  <2>2. queue[r][i].id \in Nat
    BY <2>1 DEF Message, Ids
  <2>. QED BY Zenon, <2>1, <2>2
<1>7. ASSUME NEW r \in Queues, NEW i \in 1..Len(queue'[r])
      PROVE  i \in 1..Len(queue[r]) \/ (r = q /\ i = Len(queue[r]) + 1 /\ queue'[r][i] = m)
  <2>1. CASE r = q
    BY Zenon, <1>5a, <2>1
  <2>2. CASE r # q
    BY Zenon, <1>4, <2>2
  <2>. QED BY Zenon, <2>1, <2>2
<1>8. QueueIds'
  <2>1. \A r \in Queues : \A i \in 1..Len(queue'[r]) : queue'[r][i].id <= enqueued'
    BY <1>1, <1>3, <1>6, <1>7 DEF QueueInv, QueueIds
  <2>2. ASSUME NEW r \in Queues, NEW u \in Queues, NEW i \in 1..Len(queue'[r]),
               NEW j \in 1..Len(queue'[u]), queue'[r][i].id = queue'[u][j].id
        PROVE  r = u /\ i = j
    <3>1. CASE i \in 1..Len(queue[r]) /\ j \in 1..Len(queue[u])
      <4>1. queue[r][i].id = queue[u][j].id
        BY Zenon, <1>6, <2>2, <3>1
      <4>. QED BY Zenon, <3>1, <4>1 DEF QueueInv, QueueIds
    <3>2. CASE i \in 1..Len(queue[r]) /\ j \notin 1..Len(queue[u])
      BY <1>1, <1>3, <1>6, <1>7, <2>2, <3>2 DEF QueueInv, QueueIds
    <3>3. CASE i \notin 1..Len(queue[r]) /\ j \in 1..Len(queue[u])
      BY <1>1, <1>3, <1>6, <1>7, <2>2, <3>3 DEF QueueInv, QueueIds
    <3>4. CASE i \notin 1..Len(queue[r]) /\ j \notin 1..Len(queue[u])
      BY Zenon, <1>7, <3>4
    <3>. QED BY Zenon, <3>1, <3>2, <3>3, <3>4
  <2>3. \A c \in Consumers : \A id \in inHand'[c] : id <= enqueued'
    BY <1>1 DEF QueueInv, QueueIds, QueueTypeOK, Ids
  <2>4. ASSUME NEW x \in abandoned' PROVE x <= enqueued'
    <3>1. x \in Ids /\ x <= enqueued
      BY Zenon, <1>1 DEF QueueInv, QueueIds, QueueTypeOK
    <3>. QED BY <1>1, <3>1 DEF Ids
  <2>. QED BY Zenon, <2>1, <2>2, <2>3, <2>4 DEF QueueIds
<1>9. QueueVisibility'
  <2>. SUFFICES ASSUME NEW r \in Queues, NEW i \in 1..Len(queue'[r])
                PROVE  /\ queue'[r][i].visible => queue'[r][i].count < MaxDequeues
                       /\ ~queue'[r][i].visible /\ ~queue'[r][i].delayed => queue'[r][i].count > 0
    BY Zenon DEF QueueVisibility
  <2>1. CASE i \in 1..Len(queue[r])
    BY Zenon, <1>6, <2>1 DEF QueueInv, QueueVisibility
  <2>2. CASE queue'[r][i] = m
    <3>1. m.count < MaxDequeues
      BY <1>3
    <3>2. m.visible \/ m.delayed
      BY <1>3, Zenon
    <3>. QED BY Zenon, <2>2, <3>1, <3>2
  <2>. QED BY Zenon, <1>7, <2>1, <2>2
<1>10. OneConsumer'
  <2>1. ASSUME NEW c \in Consumers, NEW id \in inHand[c], NEW r \in Queues,
               NEW i \in 1..Len(queue'[r]), queue'[r][i].id = id
        PROVE  ~queue'[r][i].visible
    <3>1. id <= enqueued /\ id \in Nat
      BY DEF QueueInv, QueueIds, QueueTypeOK, Ids
    <3>2. i \in 1..Len(queue[r])
      BY <1>1, <1>3, <1>7, <2>1, <3>1
    <3>. QED BY Zenon, <1>6, <2>1, <3>2 DEF QueueInv, OneConsumer
  <2>. QED BY <1>1, <2>1 DEF QueueInv, OneConsumer
<1>11. FirstDeliveriesInOrder'
  <2>. SUFFICES ASSUME NEW r \in Queues, NEW i \in 1..Len(queue'[r]), NEW j \in 1..Len(queue'[r]),
                       i < j, queue'[r][j].count > 0, ~queue'[r][i].delayed
                PROVE  queue'[r][i].count > 0
    BY Zenon DEF FirstDeliveriesInOrder
  <2>1. j \in 1..Len(queue[r])
    BY <1>3, <1>7
  <2>2. i \in 1..Len(queue[r])
    BY <1>4, <2>1
  <2>. QED BY Zenon, <1>6, <2>1, <2>2 DEF QueueInv, FirstDeliveriesInOrder
<1>12. QueueTypeOK'
  BY <1>1, <1>5 DEF QueueInv, QueueTypeOK
<1>13. HiddenIsHeldOrAbandoned'
  <2>. SUFFICES ASSUME NEW r \in Queues, NEW i \in 1..Len(queue'[r])
                PROVE  /\ queue'[r][i].id \in abandoned' =>
                            ~queue'[r][i].visible /\ \A d \in Consumers : queue'[r][i].id \notin inHand'[d]
                       /\ ~queue'[r][i].visible /\ queue'[r][i].count > 0 =>
                            queue'[r][i].id \in abandoned' \/ \E d \in Consumers : queue'[r][i].id \in inHand'[d]
    BY Zenon DEF HiddenIsHeldOrAbandoned
  <2>1. CASE i \in 1..Len(queue[r])
    BY Zenon, <1>1, <1>6, <2>1 DEF QueueInv, HiddenIsHeldOrAbandoned
  <2>2. CASE queue'[r][i] = m
    <3>1. m.id \notin abandoned /\ ~(m.count > 0)
      BY <1>1, <1>3 DEF QueueInv, QueueIds, QueueTypeOK, Ids
    <3>. QED BY Zenon, <1>1, <2>2, <3>1
  <2>. QED BY Zenon, <1>7, <2>1, <2>2
<1>. QED BY Zenon, <1>8, <1>9, <1>10, <1>11, <1>12, <1>13 DEF QueueInv

\* dequeue changes one message, the first visible one.
LEMMA DequeueStep ==
  ASSUME QueueInv, NEW c \in Consumers, NEW q \in Queues, Dequeue(c, q)
  PROVE  QueueInv'
<1>. USE QueueBounds
<1>1. PICK k \in 1..Len(queue[q]) :
        /\ FirstVisible(q, k)
        /\ queue' = [queue EXCEPT ![q][k].visible = FALSE, ![q][k].count = @ + 1]
        /\ \/ inHand' = [inHand EXCEPT ![c] = @ \cup {queue[q][k].id}] /\ abandoned' = abandoned
           \/ inHand' = inHand /\ abandoned' = abandoned \cup {queue[q][k].id}
        /\ enqueued' = enqueued
  BY Zenon DEF Dequeue
<1>. DEFINE was == queue[q][k]
            m == [was EXCEPT !.visible = FALSE, !.count = @ + 1]
<1>2. \A r \in Queues : queue[r] \in Seq(Message) /\ Len(queue[r]) \in Nat
  BY DEF QueueInv, QueueTypeOK
<1>3. was \in Message /\ was.visible /\ was.count < MaxDequeues
  BY <1>1, <1>2 DEF FirstVisible, QueueInv, QueueVisibility
<1>4. /\ m \in Message /\ m.id = was.id /\ ~m.visible /\ m.delayed = was.delayed
      /\ m.count = was.count + 1 /\ was.count \in Nat
  BY Zenon, <1>3, HiddenMessage
<1>5. queue' = [queue EXCEPT ![q] = [queue[q] EXCEPT ![k] = m]]
  BY Zenon, <1>1, <1>2 DEF QueueInv, QueueTypeOK
<1>. HIDE DEF m, was
<1>6. queue' \in [Queues -> Seq(Message)]
  BY <1>2, <1>4, <1>5 DEF QueueInv, QueueTypeOK
<1>7. \A r \in Queues : Len(queue'[r]) = Len(queue[r])
  BY <1>2, <1>4, <1>5 DEF QueueInv, QueueTypeOK
<1>8. \A r \in Queues : \A i \in 1..Len(queue[r]) :
        /\ queue[r][i] \in Message
        /\ queue'[r][i] = IF r = q /\ i = k THEN m ELSE queue[r][i]
  BY <1>2, <1>4, <1>5 DEF QueueInv, QueueTypeOK
<1>9. was = queue[q][k]
  BY Zenon DEF was
<1>10. \A r \in Queues : \A i \in 1..Len(queue[r]) :
         /\ queue'[r][i].id = queue[r][i].id /\ queue'[r][i].delayed = queue[r][i].delayed
         /\ queue'[r][i].visible => queue[r][i].visible /\ ~(r = q /\ i = k)
         /\ queue'[r][i].count = queue[r][i].count \/ (r = q /\ i = k /\ queue'[r][i].count > 0)
  BY <1>4, <1>8, <1>9
<1>11. inHand' \in [Consumers -> SUBSET Ids]
  <2>1. queue[q][k].id \in Ids /\ inHand \in [Consumers -> SUBSET Ids]
    BY Zenon, <1>3, <1>9 DEF QueueInv, QueueTypeOK, Message
  <2>. QED BY Zenon, <1>1, <2>1
<1>12. \A d \in Consumers : \A id \in inHand'[d] :
         id \in inHand[d] \/ (d = c /\ id = was.id)
  BY Zenon, <1>1, <1>9 DEF QueueInv, QueueTypeOK
<1>13. QueueTypeOK'
  <2>1. abandoned' \subseteq Ids
    BY Zenon, <1>1, <1>3, <1>9 DEF QueueInv, QueueTypeOK, Message
  <2>. QED BY Zenon, <1>1, <1>6, <1>11, <2>1 DEF QueueInv, QueueTypeOK
<1>14. QueueIds'
  <2>1. ASSUME NEW r \in Queues, NEW i \in 1..Len(queue'[r])
        PROVE  queue'[r][i].id <= enqueued'
    <3>1. i \in 1..Len(queue[r]) /\ queue'[r][i].id = queue[r][i].id
      BY Zenon, <1>7, <1>10
    <3>2. queue[r][i].id <= enqueued /\ enqueued' = enqueued
      BY Zenon, <1>1, <3>1 DEF QueueInv, QueueIds
    <3>. QED BY Zenon, <3>1, <3>2
  <2>3. ASSUME NEW r \in Queues, NEW u \in Queues, NEW i \in 1..Len(queue'[r]),
               NEW j \in 1..Len(queue'[u]), queue'[r][i].id = queue'[u][j].id
        PROVE  r = u /\ i = j
    <3>1. /\ i \in 1..Len(queue[r]) /\ j \in 1..Len(queue[u])
          /\ queue[r][i].id = queue[u][j].id
      <4>1. i \in 1..Len(queue[r]) /\ j \in 1..Len(queue[u])
        BY Zenon, <1>7
      <4>. QED BY Zenon, <1>10, <2>3, <4>1
    <3>. QED BY Zenon, <3>1 DEF QueueInv, QueueIds
  <2>2. ASSUME NEW d \in Consumers, NEW id \in inHand'[d] PROVE id <= enqueued'
    <3>1. id \in inHand[d] \/ id = queue[q][k].id
      BY Zenon, <1>9, <1>12
    <3>2. queue[q][k].id <= enqueued /\ (id \in inHand[d] => id <= enqueued)
      BY Zenon DEF QueueInv, QueueIds
    <3>. QED BY Zenon, <1>1, <3>1, <3>2
  <2>4. ASSUME NEW x \in abandoned' PROVE x <= enqueued'
    <3>1. x \in abandoned \/ x = queue[q][k].id
      BY Zenon, <1>1
    <3>2. queue[q][k].id <= enqueued /\ \A y \in abandoned : y <= enqueued
      BY Zenon DEF QueueInv, QueueIds
    <3>. QED BY Zenon, <1>1, <3>1, <3>2
  <2>. QED BY Zenon, <2>1, <2>2, <2>3, <2>4 DEF QueueIds
<1>15. QueueVisibility'
  BY <1>7, <1>4, <1>8, <1>9 DEF QueueInv, QueueVisibility
<1>16. OneConsumer'
  <2>1. ASSUME NEW d \in Consumers PROVE was.id \notin inHand[d]
    BY Zenon, <1>3, <1>9 DEF QueueInv, OneConsumer
  <2>2. ASSUME NEW d \in Consumers, NEW id \in inHand'[d], NEW f \in Consumers \ {d}
        PROVE  id \notin inHand'[f]
    <3>1. d # f /\ f \in Consumers
      BY Zenon
    <3>2. id \in inHand[d] => id \notin inHand[f]
      BY Zenon, <3>1 DEF QueueInv, OneConsumer
    <3>3. id \in inHand'[f] => id \in inHand[f] \/ (f = c /\ id = was.id)
      BY Zenon, <1>12, <3>1
    <3>4. id \in inHand[d] \/ (d = c /\ id = was.id)
      BY Zenon, <1>12
    <3>. QED BY Zenon, <2>1, <3>1, <3>2, <3>3, <3>4
  <2>3. ASSUME NEW d \in Consumers, NEW id \in inHand'[d], NEW r \in Queues,
               NEW i \in 1..Len(queue[r]), queue'[r][i].id = id
        PROVE  ~queue'[r][i].visible
    <3>1. queue[r][i].id = id /\ (queue'[r][i].visible => queue[r][i].visible /\ ~(r = q /\ i = k))
      BY Zenon, <1>10, <2>3
    <3>2. CASE id \in inHand[d]
      BY Zenon, <3>1, <3>2 DEF QueueInv, OneConsumer
    <3>3. CASE id = was.id
      <4>1. queue[r][i].id = queue[q][k].id
        BY Zenon, <1>9, <3>1, <3>3
      <4>2. r = q /\ i = k
        BY Zenon, <4>1 DEF QueueInv, QueueIds
      <4>. QED BY Zenon, <3>1, <4>2
    <3>. QED BY Zenon, <1>12, <3>2, <3>3
  <2>. QED BY Zenon, <1>7, <2>2, <2>3 DEF OneConsumer
<1>17. FirstDeliveriesInOrder'
  <2>. SUFFICES ASSUME NEW r \in Queues, NEW i \in 1..Len(queue[r]), NEW j \in 1..Len(queue[r]),
                       i < j, queue'[r][j].count > 0, ~queue'[r][i].delayed
                PROVE  queue'[r][i].count > 0
    BY Zenon, <1>7 DEF FirstDeliveriesInOrder
  <2>1. CASE r = q /\ j = k
    <3>1. ~queue[r][i].visible /\ i # k
      <4>1. \A l \in 1 .. k - 1 : ~queue[q][l].visible
        BY Zenon, <1>1 DEF FirstVisible
      <4>2. i \in 1 .. k - 1 /\ i # k
        <5>1. Len(queue[r]) \in Nat /\ i < k
          BY Zenon, <1>2, <2>1
        <5>. QED BY <5>1
      <4>. QED BY Zenon, <2>1, <4>1, <4>2
    <3>. QED BY Zenon, <1>10, <2>1, <3>1 DEF QueueInv, QueueVisibility
  <2>2. CASE ~(r = q /\ j = k)
    <3>1. queue[r][j].count > 0 /\ ~queue[r][i].delayed
      BY Zenon, <1>10, <2>2
    <3>2. queue[r][i].count > 0
      BY Zenon, <3>1 DEF QueueInv, FirstDeliveriesInOrder
    <3>. QED BY Zenon, <1>10, <3>2
  <2>. QED BY Zenon, <2>1, <2>2
<1>18. HiddenIsHeldOrAbandoned'
  <2>. SUFFICES ASSUME NEW r \in Queues, NEW i \in 1..Len(queue'[r])
                PROVE  /\ queue'[r][i].id \in abandoned' =>
                            ~queue'[r][i].visible /\ \A d \in Consumers : queue'[r][i].id \notin inHand'[d]
                       /\ ~queue'[r][i].visible /\ queue'[r][i].count > 0 =>
                            queue'[r][i].id \in abandoned' \/ \E d \in Consumers : queue'[r][i].id \in inHand'[d]
    BY Zenon DEF HiddenIsHeldOrAbandoned
  <2>1. i \in 1..Len(queue[r])
    BY Zenon, <1>7
  <2>2. CASE r = q /\ i = k
    <3>1. queue'[r][i] = m /\ m.id = was.id /\ ~m.visible
      BY Zenon, <1>4, <1>8, <2>1, <2>2
    <3>2. was.id \notin abandoned /\ \A d \in Consumers : was.id \notin inHand[d]
      BY Zenon, <1>3, <1>9 DEF QueueInv, OneConsumer, HiddenIsHeldOrAbandoned
    <3>3. CASE inHand' = [inHand EXCEPT ![c] = @ \cup {was.id}] /\ abandoned' = abandoned
      <4>1. was.id \in inHand'[c]
        BY Zenon, <3>3 DEF QueueInv, QueueTypeOK
      <4>. QED BY Zenon, <3>1, <3>2, <3>3, <4>1
    <3>4. CASE inHand' = inHand /\ abandoned' = abandoned \cup {was.id}
      BY Zenon, <3>1, <3>2, <3>4
    <3>. QED BY Zenon, <1>1, <1>9, <3>3, <3>4
  <2>3. CASE ~(r = q /\ i = k)
    <3>1. queue'[r][i] = queue[r][i] /\ queue[r][i].id # was.id
      <4>1. queue'[r][i] = queue[r][i]
        BY Zenon, <1>8, <2>1, <2>3
      <4>2. queue[r][i].id # queue[q][k].id
        BY Zenon, <2>1, <2>3 DEF QueueInv, QueueIds
      <4>. QED BY Zenon, <1>9, <4>1, <4>2
    <3>2. queue[r][i].id \in abandoned' <=> queue[r][i].id \in abandoned
      BY Zenon, <1>1, <1>9, <3>1
    <3>3. \A d \in Consumers : queue[r][i].id \in inHand'[d] <=> queue[r][i].id \in inHand[d]
      BY Zenon, <1>1, <1>9, <3>1 DEF QueueInv, QueueTypeOK
    <3>. QED BY Zenon, <2>1, <3>1, <3>2, <3>3 DEF QueueInv, HiddenIsHeldOrAbandoned
  <2>. QED BY Zenon, <2>2, <2>3
<1>. QED BY Zenon, <1>13, <1>14, <1>15, <1>16, <1>17, <1>18 DEF QueueInv

\* What retain leaves: every place of the new sequence is a place of the old one,
\* in the same order, and the message with the id is gone.
LEMMA RetainPlaces ==
  ASSUME NEW s \in Seq(Message), NEW id,
         \A i, j \in 1..Len(s) : s[i].id = s[j].id => i = j
  PROVE  /\ Retain(s, id) \in Seq(Message)
         /\ \E p \in 1..Len(s) + 1 : \A i \in 1..Len(Retain(s, id)) :
              LET o == IF i < p THEN i ELSE i + 1
              IN  o \in 1..Len(s) /\ Retain(s, id)[i] = s[o] /\ s[o].id # id
<1>. DEFINE t == Retain(s, id)
<1>. HIDE DEF t
<1>. SUFFICES /\ t \in Seq(Message)
              /\ \E p \in 1..Len(s) + 1 : \A i \in 1..Len(t) :
                   LET o == IF i < p THEN i ELSE i + 1
                   IN  o \in 1..Len(s) /\ t[i] = s[o] /\ s[o].id # id
  BY Zenon DEF t
<1>1. CASE ~ \E i \in DOMAIN s : s[i].id = id
  <2>1. t = s
    BY Zenon, <1>1 DEF t, Retain
  <2>2. \A i \in 1..Len(t) : i < Len(s) + 1 /\ i \in 1..Len(s) /\ t[i] = s[i] /\ s[i].id # id
    BY <1>1, <2>1
  <2>3. Len(s) + 1 \in 1..Len(s) + 1
    OBVIOUS
  <2>. QED BY Zenon, <2>1, <2>2, <2>3
<1>2. CASE \E i \in DOMAIN s : s[i].id = id
  <2>. DEFINE p == CHOOSE i \in DOMAIN s : s[i].id = id
              a == SubSeq(s, 1, p - 1)
              b == SubSeq(s, p + 1, Len(s))
  <2>1. p \in 1..Len(s) /\ s[p].id = id
    BY <1>2
  <2>2. t = a \o b
    BY Zenon, <1>2 DEF t, Retain
  <2>. HIDE DEF p
  <2>3. /\ a \in Seq(Message) /\ Len(a) = p - 1
        /\ \A i \in 1..p - 1 : a[i] = s[i]
    BY <2>1
  <2>4. /\ b \in Seq(Message) /\ Len(b) = Len(s) - p
        /\ \A i \in 1..Len(s) - p : b[i] = s[p + i]
    BY <2>1
  <2>. HIDE DEF a, b
  <2>5. t \in Seq(Message) /\ Len(t) = Len(s) - 1
    <3>1. a \o b \in Seq(Message) /\ Len(a \o b) = Len(a) + Len(b)
      <4>1. a \in Seq(Message) /\ b \in Seq(Message)
        BY Zenon, <2>3, <2>4
      <4>. QED BY <4>1
    <3>. QED BY <2>1, <2>2, <2>3, <2>4, <3>1
  <2>6. ASSUME NEW i \in 1..Len(t)
        PROVE  LET o == IF i < p THEN i ELSE i + 1
               IN  o \in 1..Len(s) /\ t[i] = s[o] /\ s[o].id # id
    <3>1. CASE i < p
      <4>1. i \in 1..Len(a) /\ t[i] = a[i]
        BY <2>1, <2>2, <2>3, <2>4, <2>5, <3>1
      <4>. QED BY <2>1, <2>3, <2>5, <3>1, <4>1
    <3>2. CASE ~(i < p)
      <4>1. i - Len(a) \in 1..Len(b) /\ t[i] = b[i - Len(a)]
        BY <2>1, <2>2, <2>3, <2>4, <2>5, <3>2
      <4>2. t[i] = s[i + 1] /\ i + 1 \in 1..Len(s) /\ i + 1 # p
        BY <2>1, <2>3, <2>4, <2>5, <3>2, <4>1
      <4>. QED BY Zenon, <2>1, <3>2, <4>2
    <3>. QED BY Zenon, <3>1, <3>2
  <2>7. p \in 1..Len(s) + 1
    BY <2>1
  <2>. QED BY Zenon, <2>5, <2>6, <2>7
<1>. QED BY Zenon, <1>1, <1>2

\* ack takes one message out of the queues and out of the consumer's hands.
LEMMA AckStep ==
  ASSUME QueueInv, NEW c \in Consumers, NEW id \in Ids, Ack(c, id)
  PROVE  QueueInv'
<1>1. /\ enqueued' = enqueued /\ abandoned' = abandoned /\ id \in inHand[c]
      /\ inHand' = [inHand EXCEPT ![c] = @ \ {id}]
      /\ queue' = [q \in Queues |-> Retain(queue[q], id)]
      /\ inHand \in [Consumers -> SUBSET Ids] /\ queue \in [Queues -> Seq(Message)]
  BY Zenon DEF Ack, QueueInv, QueueTypeOK
<1>2. inHand' \in [Consumers -> SUBSET Ids] /\ \A d \in Consumers : inHand'[d] \subseteq inHand[d]
  BY Zenon, <1>1
<1>3. ASSUME NEW r \in Queues
      PROVE  /\ queue[r] \in Seq(Message) /\ queue'[r] \in Seq(Message)
             /\ \E p \in 1..Len(queue[r]) + 1 : \A i \in 1..Len(queue'[r]) :
                  LET o == IF i < p THEN i ELSE i + 1
                  IN  o \in 1..Len(queue[r]) /\ queue'[r][i] = queue[r][o] /\ queue[r][o].id # id
  <2>1. queue'[r] = Retain(queue[r], id) /\ queue[r] \in Seq(Message)
    BY Zenon, <1>1
  <2>2. \A i, j \in 1..Len(queue[r]) : queue[r][i].id = queue[r][j].id => i = j
    BY Zenon DEF QueueInv, QueueIds
  <2>3. /\ Retain(queue[r], id) \in Seq(Message)
        /\ \E p \in 1..Len(queue[r]) + 1 : \A i \in 1..Len(Retain(queue[r], id)) :
             LET o == IF i < p THEN i ELSE i + 1
             IN  o \in 1..Len(queue[r]) /\ Retain(queue[r], id)[i] = queue[r][o] /\ queue[r][o].id # id
    BY Zenon, <2>1, <2>2, RetainPlaces
  <2>. QED BY Zenon, <2>1, <2>3
<1>4. ASSUME NEW r \in Queues, NEW i \in 1..Len(queue'[r])
      PROVE  \E o \in 1..Len(queue[r]) : queue'[r][i] = queue[r][o]
  BY Zenon, <1>3
<1>5. ASSUME NEW r \in Queues, NEW i \in 1..Len(queue'[r]), NEW j \in 1..Len(queue'[r]), i < j
      PROVE  \E o, u \in 1..Len(queue[r]) :
               o < u /\ queue'[r][i] = queue[r][o] /\ queue'[r][j] = queue[r][u]
  <2>1. PICK p \in 1..Len(queue[r]) + 1 : \A l \in 1..Len(queue'[r]) :
          LET o == IF l < p THEN l ELSE l + 1
          IN  o \in 1..Len(queue[r]) /\ queue'[r][l] = queue[r][o] /\ queue[r][o].id # id
    BY Zenon, <1>3
  <2>. DEFINE o(l) == IF l < p THEN l ELSE l + 1
  <2>2. /\ o(i) \in 1..Len(queue[r]) /\ queue'[r][i] = queue[r][o(i)]
        /\ o(j) \in 1..Len(queue[r]) /\ queue'[r][j] = queue[r][o(j)]
    BY Zenon, <2>1
  <2>3. o(i) < o(j)
    BY <1>3, <1>5
  <2>. QED BY Zenon, <2>2, <2>3
<1>6. QueueTypeOK'
  <2>1. queue' \in [Queues -> Seq(Message)]
    BY Zenon, <1>1, <1>3
  <2>. QED BY Zenon, <1>1, <1>2, <2>1 DEF QueueInv, QueueTypeOK
<1>7. QueueIds'
  <2>1. ASSUME NEW r \in Queues, NEW i \in 1..Len(queue'[r])
        PROVE  queue'[r][i].id <= enqueued'
    <3>1. PICK o \in 1..Len(queue[r]) : queue'[r][i] = queue[r][o]
      BY Zenon, <1>4
    <3>2. queue[r][o].id <= enqueued /\ enqueued' = enqueued
      BY Zenon, <1>1 DEF QueueInv, QueueIds
    <3>. QED BY Zenon, <3>1, <3>2
  <2>2. ASSUME NEW r \in Queues, NEW u \in Queues, NEW i \in 1..Len(queue'[r]),
               NEW j \in 1..Len(queue'[u]), queue'[r][i].id = queue'[u][j].id
        PROVE  r = u /\ i = j
    <3>1. r = u
      <4>1. PICK o \in 1..Len(queue[r]) : queue'[r][i] = queue[r][o]
        BY Zenon, <1>4
      <4>2. PICK v \in 1..Len(queue[u]) : queue'[u][j] = queue[u][v]
        BY Zenon, <1>4
      <4>. QED BY <2>2, <4>1, <4>2 DEF QueueInv, QueueIds
    <3>2. ASSUME NEW k \in 1..Len(queue'[r]), NEW l \in 1..Len(queue'[r]), k < l
          PROVE  queue'[r][k].id # queue'[r][l].id
      <4>1. PICK o, v \in 1..Len(queue[r]) :
              o < v /\ queue'[r][k] = queue[r][o] /\ queue'[r][l] = queue[r][v]
        BY Zenon, <1>5, <3>2
      <4>. QED BY <4>1 DEF QueueInv, QueueIds
    <3>. QED BY <2>2, <3>1, <3>2
  <2>3. \A d \in Consumers : \A x \in inHand'[d] : x <= enqueued'
    BY Zenon, <1>1, <1>2 DEF QueueInv, QueueIds
  <2>4. \A x \in abandoned' : x <= enqueued'
    BY Zenon, <1>1 DEF QueueInv, QueueIds
  <2>. QED BY Zenon, <2>1, <2>2, <2>3, <2>4 DEF QueueIds
<1>8. QueueVisibility'
  <2>. SUFFICES ASSUME NEW r \in Queues, NEW i \in 1..Len(queue'[r])
                PROVE  /\ queue'[r][i].visible => queue'[r][i].count < MaxDequeues
                       /\ ~queue'[r][i].visible /\ ~queue'[r][i].delayed => queue'[r][i].count > 0
    BY Zenon DEF QueueVisibility
  <2>1. PICK o \in 1..Len(queue[r]) : queue'[r][i] = queue[r][o]
    BY Zenon, <1>4
  <2>. QED BY Zenon, <2>1 DEF QueueInv, QueueVisibility
<1>9. OneConsumer'
  BY <1>2, <1>4 DEF QueueInv, OneConsumer
<1>10. FirstDeliveriesInOrder'
  <2>. SUFFICES ASSUME NEW r \in Queues, NEW i \in 1..Len(queue'[r]), NEW j \in 1..Len(queue'[r]),
                       i < j, queue'[r][j].count > 0, ~queue'[r][i].delayed
                PROVE  queue'[r][i].count > 0
    BY Zenon DEF FirstDeliveriesInOrder
  <2>1. PICK o, v \in 1..Len(queue[r]) :
          o < v /\ queue'[r][i] = queue[r][o] /\ queue'[r][j] = queue[r][v]
    BY Zenon, <1>5
  <2>. QED BY Zenon, <2>1 DEF QueueInv, FirstDeliveriesInOrder
<1>11. HiddenIsHeldOrAbandoned'
  <2>. SUFFICES ASSUME NEW r \in Queues, NEW i \in 1..Len(queue'[r])
                PROVE  /\ queue'[r][i].id \in abandoned' =>
                            ~queue'[r][i].visible /\ \A d \in Consumers : queue'[r][i].id \notin inHand'[d]
                       /\ ~queue'[r][i].visible /\ queue'[r][i].count > 0 =>
                            queue'[r][i].id \in abandoned' \/ \E d \in Consumers : queue'[r][i].id \in inHand'[d]
    BY Zenon DEF HiddenIsHeldOrAbandoned
  <2>1. PICK o \in 1..Len(queue[r]) : queue'[r][i] = queue[r][o] /\ queue[r][o].id # id
    BY Zenon, <1>3
  <2>2. \A d \in Consumers : queue[r][o].id \in inHand'[d] <=> queue[r][o].id \in inHand[d]
    BY Zenon, <1>1, <2>1
  <2>. QED BY Zenon, <1>1, <2>1, <2>2 DEF QueueInv, HiddenIsHeldOrAbandoned
<1>. QED BY Zenon, <1>6, <1>7, <1>8, <1>9, <1>10, <1>11 DEF QueueInv

\* nack makes the message visible again, or leaves it hidden, in its place.
LEMMA NackStep ==
  ASSUME QueueInv, NEW c \in Consumers, NEW id \in Ids, NEW requeue \in BOOLEAN,
         Nack(c, id, requeue)
  PROVE  QueueInv'
<1>. DEFINE new(x) == IF requeue /\ x.id = id THEN [x EXCEPT !.visible = TRUE] ELSE x
<1>1. /\ enqueued' = enqueued /\ id \in inHand[c]
      /\ abandoned' = IF requeue THEN abandoned ELSE abandoned \cup {id}
      /\ inHand' = [inHand EXCEPT ![c] = @ \ {id}]
      /\ queue' = [q \in Queues |-> [i \in DOMAIN queue[q] |-> new(queue[q][i])]]
      /\ inHand \in [Consumers -> SUBSET Ids] /\ queue \in [Queues -> Seq(Message)]
  BY Zenon DEF Nack, QueueInv, QueueTypeOK
<1>2. /\ inHand' \in [Consumers -> SUBSET Ids]
      /\ \A d \in Consumers : inHand'[d] \subseteq inHand[d]
      /\ id \notin inHand'[c]
  BY Zenon, <1>1
<1>3. ASSUME NEW x \in Message
      PROVE  /\ new(x) \in Message /\ new(x).id = x.id /\ new(x).delayed = x.delayed
             /\ new(x).count = x.count
             /\ (new(x).visible <=> x.visible) \/ (requeue /\ x.id = id)
  <2>1. LET y == [x EXCEPT !.visible = TRUE]
        IN  y \in Message /\ y.id = x.id /\ y.delayed = x.delayed /\ y.count = x.count
    BY Zenon DEF Message
  <2>. QED BY Zenon, <2>1
<1>. HIDE DEF new
<1>4. ASSUME NEW r \in Queues
      PROVE  /\ queue'[r] \in Seq(Message) /\ Len(queue'[r]) = Len(queue[r])
             /\ \A i \in 1..Len(queue[r]) : queue[r][i] \in Message /\ queue'[r][i] = new(queue[r][i])
  <2>1. queue[r] \in Seq(Message) /\ queue'[r] = [i \in 1..Len(queue[r]) |-> new(queue[r][i])]
    BY <1>1
  <2>2. \A i \in 1..Len(queue[r]) : queue[r][i] \in Message /\ new(queue[r][i]) \in Message
    <3>1. \A i \in 1..Len(queue[r]) : queue[r][i] \in Message
      BY <2>1
    <3>. QED BY Zenon, <1>3, <3>1
  <2>3. queue'[r] \in Seq(Message) /\ Len(queue'[r]) = Len(queue[r])
    BY <2>1, <2>2
  <2>4. \A i \in 1..Len(queue[r]) : queue'[r][i] = new(queue[r][i])
    BY Zenon, <2>1
  <2>. QED BY Zenon, <2>2, <2>3, <2>4
<1>5. ASSUME NEW r \in Queues, NEW i \in 1..Len(queue'[r])
      PROVE  /\ i \in 1..Len(queue[r])
             /\ queue'[r][i].id = queue[r][i].id /\ queue'[r][i].delayed = queue[r][i].delayed
             /\ queue'[r][i].count = queue[r][i].count
             /\ \/ queue'[r][i].visible <=> queue[r][i].visible
                \/ requeue /\ queue[r][i].id = id /\ queue[r][i].count < MaxDequeues
  <2>1. i \in 1..Len(queue[r]) /\ queue[r][i] \in Message /\ queue'[r][i] = new(queue[r][i])
    BY Zenon, <1>4
  <2>2. requeue /\ queue[r][i].id = id => queue[r][i].count < MaxDequeues
    BY <1>1, <2>1 DEF Nack
  <2>3. PICK x : x = queue[r][i]
    BY Zenon
  <2>4. /\ new(x).id = x.id /\ new(x).delayed = x.delayed /\ new(x).count = x.count
        /\ (new(x).visible <=> x.visible) \/ (requeue /\ x.id = id)
    BY Zenon, <1>3, <2>1, <2>3
  <2>5. queue'[r][i] = new(x)
    BY Zenon, <2>1, <2>3
  <2>. QED BY Zenon, <2>1, <2>2, <2>3, <2>4, <2>5
<1>6. QueueTypeOK'
  <2>1. queue' \in [Queues -> Seq(Message)]
    BY Zenon, <1>1, <1>4
  <2>2. abandoned' \subseteq Ids
    BY Zenon, <1>1 DEF QueueInv, QueueTypeOK
  <2>. QED BY Zenon, <1>1, <1>2, <2>1, <2>2 DEF QueueInv, QueueTypeOK
<1>7. QueueIds'
  <2>1. ASSUME NEW r \in Queues, NEW i \in 1..Len(queue'[r])
        PROVE  queue'[r][i].id <= enqueued'
    <3>1. queue'[r][i].id = queue[r][i].id /\ i \in 1..Len(queue[r])
      BY Zenon, <1>5
    <3>2. queue[r][i].id <= enqueued /\ enqueued' = enqueued
      BY Zenon, <1>1, <3>1 DEF QueueInv, QueueIds
    <3>. QED BY Zenon, <3>1, <3>2
  <2>2. ASSUME NEW r \in Queues, NEW u \in Queues, NEW i \in 1..Len(queue'[r]),
               NEW j \in 1..Len(queue'[u]), queue'[r][i].id = queue'[u][j].id
        PROVE  r = u /\ i = j
    <3>1. queue[r][i].id = queue[u][j].id /\ i \in 1..Len(queue[r]) /\ j \in 1..Len(queue[u])
      BY Zenon, <1>5, <2>2
    <3>. QED BY Zenon, <3>1 DEF QueueInv, QueueIds
  <2>3. \A d \in Consumers : \A x \in inHand'[d] : x <= enqueued'
    BY Zenon, <1>1, <1>2 DEF QueueInv, QueueIds
  <2>4. \A x \in abandoned' : x <= enqueued'
    BY Zenon, <1>1 DEF QueueInv, QueueIds
  <2>. QED BY Zenon, <2>1, <2>2, <2>3, <2>4 DEF QueueIds
<1>8. QueueVisibility'
  <2>. SUFFICES ASSUME NEW r \in Queues, NEW i \in 1..Len(queue'[r])
                PROVE  /\ queue'[r][i].visible => queue'[r][i].count < MaxDequeues
                       /\ ~queue'[r][i].visible /\ ~queue'[r][i].delayed => queue'[r][i].count > 0
    BY Zenon DEF QueueVisibility
  <2>1. i \in 1..Len(queue[r])
    BY Zenon, <1>5
  <2>2. /\ queue[r][i].visible => queue[r][i].count < MaxDequeues
        /\ ~queue[r][i].visible /\ ~queue[r][i].delayed => queue[r][i].count > 0
    BY Zenon, <2>1 DEF QueueInv, QueueVisibility
  <2>3. requeue /\ queue[r][i].id = id => ~queue[r][i].visible
    BY Zenon, <1>1, <2>1 DEF QueueInv, OneConsumer
  <2>. QED BY Zenon, <1>5, <2>1, <2>2, <2>3
<1>9. OneConsumer'
  <2>1. ASSUME NEW d \in Consumers, NEW x \in inHand'[d], NEW r \in Queues,
               NEW i \in 1..Len(queue'[r]), queue'[r][i].id = x
        PROVE  ~queue'[r][i].visible
    <3>1. x # id /\ x \in inHand[d]
      BY <1>1, <1>2 DEF QueueInv, OneConsumer
    <3>2. queue[r][i].id = x /\ (queue'[r][i].visible <=> queue[r][i].visible) /\ i \in 1..Len(queue[r])
      BY <1>5, <2>1, <3>1
    <3>. QED BY Zenon, <3>1, <3>2 DEF QueueInv, OneConsumer
  <2>2. \A d \in Consumers : \A x \in inHand'[d] : \A f \in Consumers \ {d} : x \notin inHand'[f]
    BY Zenon, <1>2 DEF QueueInv, OneConsumer
  <2>. QED BY Zenon, <2>1, <2>2 DEF OneConsumer
<1>10. FirstDeliveriesInOrder'
  <2>. SUFFICES ASSUME NEW r \in Queues, NEW i \in 1..Len(queue'[r]), NEW j \in 1..Len(queue'[r]),
                       i < j, queue'[r][j].count > 0, ~queue'[r][i].delayed
                PROVE  queue'[r][i].count > 0
    BY Zenon DEF FirstDeliveriesInOrder
  <2>. QED BY Zenon, <1>5 DEF QueueInv, FirstDeliveriesInOrder
<1>11. HiddenIsHeldOrAbandoned'
  <2>. SUFFICES ASSUME NEW r \in Queues, NEW i \in 1..Len(queue'[r])
                PROVE  /\ queue'[r][i].id \in abandoned' =>
                            ~queue'[r][i].visible /\ \A d \in Consumers : queue'[r][i].id \notin inHand'[d]
                       /\ ~queue'[r][i].visible /\ queue'[r][i].count > 0 =>
                            queue'[r][i].id \in abandoned' \/ \E d \in Consumers : queue'[r][i].id \in inHand'[d]
    BY Zenon DEF HiddenIsHeldOrAbandoned
  <2>1. /\ i \in 1..Len(queue[r]) /\ queue'[r][i].id = queue[r][i].id
        /\ queue'[r][i].count = queue[r][i].count
    BY Zenon, <1>5
  <2>2. CASE queue[r][i].id # id
    <3>1. queue'[r][i].visible <=> queue[r][i].visible
      BY Zenon, <1>5, <2>2
    <3>2. queue[r][i].id \in abandoned' <=> queue[r][i].id \in abandoned
      BY Zenon, <1>1, <2>2
    <3>3. \A d \in Consumers : queue[r][i].id \in inHand'[d] <=> queue[r][i].id \in inHand[d]
      BY Zenon, <1>1, <2>2
    <3>. QED BY Zenon, <2>1, <3>1, <3>2, <3>3 DEF QueueInv, HiddenIsHeldOrAbandoned
  <2>3. CASE queue[r][i].id = id
    <3>1. ~queue[r][i].visible /\ \A d \in Consumers \ {c} : id \notin inHand[d]
      BY Zenon, <1>1, <2>1, <2>3 DEF QueueInv, OneConsumer
    <3>2. id \notin abandoned
      BY Zenon, <1>1, <2>1, <2>3 DEF QueueInv, HiddenIsHeldOrAbandoned
    <3>3. \A d \in Consumers : id \notin inHand'[d]
      BY Zenon, <1>2, <3>1
    <3>4. CASE requeue
      <4>1. queue'[r][i].visible
        BY Zenon, <1>4, <2>1, <2>3, <3>4 DEF new, Message
      <4>2. queue'[r][i].id = id /\ abandoned' = abandoned
        BY Zenon, <1>1, <2>1, <2>3, <3>4
      <4>. QED BY Zenon, <3>2, <4>1, <4>2
    <3>5. CASE ~requeue
      <4>1. ~queue'[r][i].visible
        BY Zenon, <1>5, <3>1, <3>5
      <4>2. queue'[r][i].id = id /\ id \in abandoned'
        BY Zenon, <1>1, <2>1, <2>3, <3>5
      <4>. QED BY Zenon, <3>3, <4>1, <4>2
    <3>. QED BY Zenon, <3>4, <3>5
  <2>. QED BY Zenon, <2>2, <2>3
<1>. QED BY Zenon, <1>6, <1>7, <1>8, <1>9, <1>10, <1>11 DEF QueueInv

\* The ids stay distinct and issued when no queue changes and no consumer gets a message.
LEMMA QueueIdsKept ==
  ASSUME QueueIds, queue' = queue, enqueued' = enqueued,
         \A d \in Consumers : inHand'[d] \subseteq inHand[d],
         \A id \in abandoned' : id \in abandoned \/ \E d \in Consumers : id \in inHand[d]
  PROVE  QueueIds'
<1>1. \A p \in Queues : \A i \in 1..Len(queue'[p]) : queue'[p][i].id =< enqueued'
  BY Zenon DEF QueueIds
<1>2. ASSUME NEW p \in Queues, NEW r \in Queues,
             NEW i \in 1..Len(queue'[p]), NEW j \in 1..Len(queue'[r]),
             queue'[p][i].id = queue'[r][j].id
      PROVE  p = r /\ i = j
  <2>1. i \in 1..Len(queue[p]) /\ j \in 1..Len(queue[r]) /\ queue[p][i].id = queue[r][j].id
    BY Zenon, <1>2
  <2>. QED BY Zenon, <2>1 DEF QueueIds
<1>3. \A c \in Consumers : \A id \in inHand'[c] : id =< enqueued'
  BY Zenon DEF QueueIds
<1>4. \A id \in abandoned' : id =< enqueued'
  BY Zenon DEF QueueIds
<1>. QED BY Zenon, <1>1, <1>2, <1>3, <1>4 DEF QueueIds

\* Every operation on the queues keeps the invariant.
LEMMA QueueStep == QueueInv /\ [QueueNext]_queueVars => QueueInv'
<1>. SUFFICES ASSUME QueueInv, [QueueNext]_queueVars PROVE QueueInv'
  BY Zenon
<1>1. CASE UNCHANGED queueVars
  <2>1. UNCHANGED <<queue, inHand, enqueued, abandoned>>
    BY Zenon, <1>1 DEF queueVars
  <2>2. QueueTypeOK' /\ QueueIds'
    <3>1. QueueTypeOK'
      BY Zenon, <2>1 DEF QueueInv, QueueTypeOK
    <3>2. QueueIds'
      BY Zenon, <2>1, QueueIdsKept DEF QueueInv
    <3>. QED BY Zenon, <3>1, <3>2
  <2>3. QueueVisibility' /\ OneConsumer'
    BY Zenon, <2>1 DEF QueueInv, QueueVisibility, OneConsumer
  <2>4. FirstDeliveriesInOrder'
    BY Zenon, <2>1 DEF QueueInv, FirstDeliveriesInOrder
  <2>5. HiddenIsHeldOrAbandoned'
    BY Zenon, <2>1 DEF QueueInv, HiddenIsHeldOrAbandoned
  <2>. QED BY Zenon, <2>2, <2>3, <2>4, <2>5 DEF QueueInv
<1>2. ASSUME NEW q \in Queues, NEW delayed \in BOOLEAN, Enqueue(q, delayed) PROVE QueueInv'
  BY Zenon, <1>2, EnqueueStep
<1>3. ASSUME NEW c \in Consumers, NEW q \in Queues, Dequeue(c, q) PROVE QueueInv'
  BY Zenon, <1>3, DequeueStep
<1>4. ASSUME NEW c \in Consumers, NEW id \in Ids, Ack(c, id) PROVE QueueInv'
  BY Zenon, <1>4, AckStep
<1>5. ASSUME NEW c \in Consumers, NEW id \in Ids, NEW requeue \in BOOLEAN, Nack(c, id, requeue)
      PROVE  QueueInv'
  BY Zenon, <1>5, NackStep
<1>6. ASSUME NEW c \in Consumers, Stop(c) PROVE QueueInv'
  <2>1. /\ queue' = queue /\ enqueued' = enqueued
        /\ inHand' \in [Consumers -> SUBSET Ids]
        /\ \A d \in Consumers : inHand'[d] \subseteq inHand[d]
        /\ inHand'[c] = {} /\ \A d \in Consumers \ {c} : inHand'[d] = inHand[d]
        /\ abandoned' = abandoned \cup inHand[c] /\ abandoned' \subseteq Ids
    BY Zenon, <1>6 DEF Stop, QueueInv, QueueTypeOK
  <2>2. QueueTypeOK'
    BY Zenon, <2>1 DEF QueueInv, QueueTypeOK
  <2>3. QueueIds'
    BY Zenon, <2>1, QueueIdsKept DEF QueueInv
  <2>4. QueueVisibility' /\ FirstDeliveriesInOrder'
    BY Zenon, <2>1 DEF QueueInv, QueueVisibility, FirstDeliveriesInOrder
  <2>5. OneConsumer'
    BY Zenon, <2>1 DEF QueueInv, OneConsumer
  <2>6. HiddenIsHeldOrAbandoned'
    <3>. SUFFICES ASSUME NEW r \in Queues, NEW i \in 1..Len(queue'[r])
                  PROVE  /\ queue'[r][i].id \in abandoned' =>
                              ~queue'[r][i].visible /\ \A d \in Consumers : queue'[r][i].id \notin inHand'[d]
                         /\ ~queue'[r][i].visible /\ queue'[r][i].count > 0 =>
                              queue'[r][i].id \in abandoned' \/ \E d \in Consumers : queue'[r][i].id \in inHand'[d]
      BY Zenon DEF HiddenIsHeldOrAbandoned
    <3>1. queue[r][i].id \in inHand[c] =>
            ~queue[r][i].visible /\ \A d \in Consumers \ {c} : queue[r][i].id \notin inHand[d]
      <4>1. i \in 1..Len(queue[r])
        BY Zenon, <2>1
      <4>. QED BY Zenon, <4>1 DEF QueueInv, OneConsumer
    <3>2. /\ queue[r][i].id \in abandoned =>
               ~queue[r][i].visible /\ \A d \in Consumers : queue[r][i].id \notin inHand[d]
          /\ ~queue[r][i].visible /\ queue[r][i].count > 0 =>
               queue[r][i].id \in abandoned \/ \E d \in Consumers : queue[r][i].id \in inHand[d]
      BY Zenon, <2>1 DEF QueueInv, HiddenIsHeldOrAbandoned
    <3>. QED BY Zenon, <2>1, <3>1, <3>2
  <2>. QED BY Zenon, <2>2, <2>3, <2>4, <2>5, <2>6 DEF QueueInv
<1>. QED BY Zenon, <1>1, <1>2, <1>3, <1>4, <1>5, <1>6 DEF QueueNext

\* The discipline of MemoryQueue, for any number of queues, consumers, messages
\* and requeues: a message in a consumer's hands is hidden and in nobody else's,
\* first deliveries keep the order of arrival, and a message that was dequeued and
\* is hidden is in a consumer's hands or was left unsettled for good.
THEOREM QueueCorrect == QueueSpec => [](QueueTypeOK /\ QueueDiscipline)
<1>1. QueueInit => QueueInv
  BY QueueBounds DEF QueueInit, QueueInv, QueueTypeOK, QueueIds, QueueVisibility, OneConsumer,
                     FirstDeliveriesInOrder, HiddenIsHeldOrAbandoned
<1>2. QueueInv => QueueTypeOK /\ QueueDiscipline
  BY Zenon DEF QueueInv, QueueDiscipline
<1>. QED BY <1>1, <1>2, QueueStep, PTL DEF QueueSpec

-----------------------------------------------------------------------------
(* The indexer. *)

\* The batch has the events of the sources before s.
Pulled(s) == \A r \in 1..Feeds : r < s => \A i \in 1..Len(feed[r]) : \E m \in 1..Len(batch) : batch[m] = <<r, i>>

\* Every sink has the events of the batch before the n-th, and every sink before
\* the k-th has that one too.
SunkBefore(n, k) ==
  /\ \A m \in 1..Len(batch) : m < n => \A j \in 1..Sinks : batch[m] \in stored[j]
  /\ \A j \in 1..Sinks : j < k => batch[n] \in stored[j]

\* How far the cycle has come with its batch.
CycleInHand(step, n, k) ==
  /\ step \in {"rest", "pull", "write", "publish", "checkpoint"}
  /\ step = "pull" => k \in 1..Feeds /\ Pulled(k)
  /\ step = "write" => n \in 1..Len(batch) /\ k \in 1..Sinks /\ Pulled(Feeds + 1) /\ SunkBefore(n, k)
  /\ step = "publish" =>
       /\ n \in 1..Len(batch) /\ Pulled(Feeds + 1)
       /\ \A m \in 1..Len(batch) : \A j \in 1..Sinks : batch[m] \in stored[j]
       /\ \A m \in 1..Len(batch) : m < n => batch[m] \in announced
  /\ step = "checkpoint" => Pulled(Feeds + 1) /\ \A m \in 1..Len(batch) : batch[m] \in announced

\* The types the argument needs: what a sequence holds does not matter.
IndexTypes ==
  /\ \A s \in 1..Feeds : Len(feed[s]) \in Nat
  /\ \E S : batch \in Seq(S)
  /\ DOMAIN stored = 1..Sinks
  /\ cursors \subseteq 1..Feeds /\ savedVersion \in Nat
  /\ DOMAIN heard = Listeners

IndexerInv ==
  /\ IndexTypes /\ IndexIsConsistent
  /\ CycleInHand(indexerAt[1], indexerAt[2], indexerAt[3])

\* Steps that leave the sources, the sinks and what was published alone.
LEMMA NothingToldStep ==
  ASSUME IndexerInv, UNCHANGED <<feed, stored, announced, heard, cursors, savedVersion>>
  PROVE  IndexIsConsistent'
BY Zenon DEF IndexerInv, IndexIsConsistent

\* A cycle that ends or fails leaves an empty batch.
LEMMA CycleEnds ==
  ASSUME IndexerInv, EndCycle, feed' = feed, DOMAIN stored' = DOMAIN stored, cursors' \subseteq 1..Feeds,
         savedVersion' \in Nat, DOMAIN heard' = DOMAIN heard, IndexIsConsistent'
  PROVE  IndexerInv'
<1>1. indexerAt'[1] = "rest" /\ batch' = <<>>
  BY Zenon DEF EndCycle, Resting
<1>2. \E S : batch' \in Seq(S)
  <2>1. <<>> \in Seq(Nat)
    OBVIOUS
  <2>. QED BY Zenon, <1>1, <2>1
<1>3. IndexTypes'
  BY Zenon, <1>2 DEF IndexerInv, IndexTypes
<1>. QED BY Zenon, <1>1, <1>3 DEF IndexerInv, CycleInHand

\* Pulling the s-th source adds its events to the batch.
LEMMA PullStep == ASSUME IndexerInv, PullEvents PROVE IndexerInv'
<1>0. PICK s : s = indexerAt[3]
  BY Zenon
<1>1. /\ indexerAt[1] = "pull" /\ s \in 1..Feeds /\ Pulled(s) /\ Feeds \in Nat
      /\ UNCHANGED <<feed, stored, announced, heard, cursors, savedVersion>>
      /\ IndexTypes
  BY Zenon, <1>0, IndexerAssumption DEF PullEvents, IndexerInv, CycleInHand
<1>2. IndexIsConsistent'
  BY Zenon, <1>1, NothingToldStep
<1>3. CASE CallFails
  BY Zenon, <1>1, <1>2, <1>3, CycleEnds DEF CallFails, IndexTypes
<1>4. CASE /\ batch' = batch \o PullAll(s)
           /\ indexerAt' = IF s < Feeds THEN <<"pull", 0, s + 1>>
                           ELSE IF batch' = <<>> THEN Resting ELSE <<"write", 1, 1>>
  <2>1. PICK n \in Nat : n = Len(feed[s])
    BY Zenon, <1>1 DEF IndexTypes
  <2>2. PullAll(s) = [i \in 1..n |-> <<s, i>>]
    BY Zenon, <2>1 DEF PullAll
  <2>3. PICK S : batch \in Seq(S)
    BY Zenon, <1>1 DEF IndexTypes
  <2>4. PICK T : T = S \cup {<<s, i>> : i \in 1..n}
    BY Zenon
  <2>5. batch \in Seq(T) /\ PullAll(s) \in Seq(T) /\ Len(PullAll(s)) = n
    <3>1. batch \in Seq(T)
      BY <2>3, <2>4
    <3>2. PullAll(s) \in Seq(T) /\ Len(PullAll(s)) = n
      BY <2>2, <2>4
    <3>. QED BY Zenon, <3>1, <3>2
  <2>6. /\ batch' \in Seq(T) /\ Len(batch') = Len(batch) + n
        /\ \A m \in 1..Len(batch) : m \in 1..Len(batch') /\ batch'[m] = batch[m]
        /\ \A i \in 1..n : Len(batch) + i \in 1..Len(batch') /\ batch'[Len(batch) + i] = PullAll(s)[i]
    <3>1. PICK q : q = PullAll(s) /\ q \in Seq(T) /\ Len(q) = n /\ batch' = batch \o q
      BY Zenon, <1>4, <2>5
    <3>2. /\ batch \o q \in Seq(T) /\ Len(batch \o q) = Len(batch) + Len(q)
          /\ \A m \in 1..Len(batch) : m \in 1..Len(batch \o q) /\ (batch \o q)[m] = batch[m]
          /\ \A i \in 1..Len(q) : Len(batch) + i \in 1..Len(batch \o q) /\ (batch \o q)[Len(batch) + i] = q[i]
      <4>1. batch \in Seq(T) /\ q \in Seq(T)
        BY Zenon, <2>5, <3>1
      <4>. QED BY <4>1
    <3>. QED BY Zenon, <3>1, <3>2
  <2>7. \A i \in 1..n : PullAll(s)[i] = <<s, i>>
    BY Zenon, <2>2
  <2>8. ASSUME NEW r \in 1..Feeds, r < s + 1, NEW i \in 1..Len(feed[r])
        PROVE  \E m \in 1..Len(batch') : batch'[m] = <<r, i>>
    <3>1. CASE r = s
      BY Zenon, <2>1, <2>6, <2>7, <3>1
    <3>2. CASE r < s
      BY Zenon, <1>1, <2>6, <3>2 DEF Pulled
    <3>. QED BY <1>1, <2>8, <3>1, <3>2
  <2>9. IndexTypes'
    <3>1. \E S1 : batch' \in Seq(S1)
      BY Zenon, <2>6
    <3>. QED BY Zenon, <1>1, <3>1 DEF IndexTypes
  <2>10. CASE s < Feeds
    <3>1. indexerAt'[1] = "pull" /\ indexerAt'[3] = s + 1
      BY Zenon, <1>4, <2>10
    <3>2. s + 1 \in 1..Feeds
      BY <1>1, <2>10
    <3>3. Pulled(s + 1)'
      BY Zenon, <1>1, <2>8 DEF Pulled
    <3>4. CycleInHand(indexerAt[1], indexerAt[2], indexerAt[3])'
      BY Zenon, <3>1, <3>2, <3>3 DEF CycleInHand, Pulled
    <3>. QED BY Zenon, <1>2, <2>9, <3>4 DEF IndexerInv
  <2>11. CASE ~(s < Feeds) /\ batch' = <<>>
    <3>1. indexerAt'[1] = "rest"
      BY Zenon, <1>4, <2>11 DEF Resting
    <3>2. CycleInHand(indexerAt[1], indexerAt[2], indexerAt[3])'
      BY Zenon, <3>1 DEF CycleInHand
    <3>. QED BY Zenon, <1>2, <2>9, <3>2 DEF IndexerInv
  <2>12. CASE ~(s < Feeds) /\ batch' # <<>>
    <3>1. indexerAt'[1] = "write" /\ indexerAt'[2] = 1 /\ indexerAt'[3] = 1
      BY Zenon, <1>4, <2>12
    <3>2. 1 \in 1..Len(batch') /\ s = Feeds
      BY <1>1, <2>6, <2>12
    <3>3. 1 \in 1..Sinks /\ (\A m \in 1..Len(batch') : ~(m < 1)) /\ \A j \in 1..Sinks : ~(j < 1)
      BY <2>6, IndexerAssumption
    <3>4. Pulled(Feeds + 1)'
      BY Zenon, <1>1, <2>8, <3>2 DEF Pulled
    <3>5. SunkBefore(1, 1)'
      BY Zenon, <3>3 DEF SunkBefore
    <3>6. CycleInHand(indexerAt[1], indexerAt[2], indexerAt[3])'
      BY Zenon, <3>1, <3>2, <3>3, <3>4, <3>5 DEF CycleInHand, SunkBefore
    <3>. QED BY Zenon, <1>2, <2>9, <3>6 DEF IndexerInv
  <2>. QED BY Zenon, <2>10, <2>11, <2>12
<1>. QED BY Zenon, <1>0, <1>3, <1>4 DEF PullEvents

\* A write to the k-th sink: the sinks before it have the event, so the sinks
\* stay nested and what was announced stays in all of them.
LEMMA SinkFact ==
  ASSUME IndexerInv, indexerAt[1] = "write", UNCHANGED <<feed, announced, cursors, savedVersion, heard>>,
         stored' = stored \/ stored' = [stored EXCEPT ![indexerAt[3]] = @ \cup {batch[indexerAt[2]]}]
  PROVE  /\ IndexIsConsistent' /\ DOMAIN stored' = 1..Sinks
         /\ \A j \in 1..Sinks : stored[j] \subseteq stored'[j]
<1>1. PICK n, k, e : n = indexerAt[2] /\ k = indexerAt[3] /\ e = batch[n]
  BY Zenon
<1>2. k \in 1..Sinks /\ (\A j \in 1..Sinks : j < k => e \in stored[j]) /\ DOMAIN stored = 1..Sinks
  BY Zenon, <1>1 DEF IndexerInv, IndexTypes, CycleInHand, SunkBefore
<1>3. stored' = stored \/ stored' = [stored EXCEPT ![k] = stored[k] \cup {e}]
  BY Zenon, <1>1
<1>4. DOMAIN stored' = 1..Sinks /\ \A j \in 1..Sinks : stored[j] \subseteq stored'[j]
  BY Zenon, <1>2, <1>3
<1>5. ASSUME NEW j \in 1..Sinks, NEW l \in 1..Sinks, j < l PROVE stored'[l] \subseteq stored'[j]
  <2>1. stored[l] \subseteq stored[j]
    BY Zenon, <1>5 DEF IndexerInv, IndexIsConsistent
  <2>2. stored'[l] = stored[l] \/ (l = k /\ stored'[l] = stored[l] \cup {e})
    BY Zenon, <1>2, <1>3
  <2>3. l = k => e \in stored[j]
    BY Zenon, <1>2, <1>5
  <2>. QED BY Zenon, <1>4, <2>1, <2>2, <2>3
<1>6. \A j \in 1..Sinks : announced' \subseteq stored'[j]
  BY Zenon, <1>4 DEF IndexerInv, IndexIsConsistent
<1>. QED BY Zenon, <1>4, <1>5, <1>6 DEF IndexerInv, IndexIsConsistent

\* After the write the cycle goes on to the next sink, the next event or to
\* publishing, when every sink has the batch; a failed write ends it.
LEMMA WriteStep == ASSUME IndexerInv, WriteSink PROVE IndexerInv'
<1>0. PICK n, k : n = indexerAt[2] /\ k = indexerAt[3]
  BY Zenon
<1>1. /\ n \in 1..Len(batch) /\ k \in 1..Sinks /\ Pulled(Feeds + 1) /\ SunkBefore(n, k)
      /\ indexerAt[1] = "write" /\ UNCHANGED <<feed, announced, cursors, savedVersion, heard>>
      /\ IndexTypes /\ Sinks \in Nat
  BY Zenon, <1>0, IndexerAssumption DEF WriteSink, IndexerInv, CycleInHand
<1>2. stored' = stored \/ stored' = [stored EXCEPT ![indexerAt[3]] = @ \cup {batch[indexerAt[2]]}]
  BY Zenon DEF WriteSink
<1>3. /\ IndexIsConsistent' /\ DOMAIN stored' = 1..Sinks
      /\ \A j \in 1..Sinks : stored[j] \subseteq stored'[j]
  BY Zenon, <1>1, <1>2, SinkFact
<1>4. CASE CallFails
  BY Zenon, <1>1, <1>3, <1>4, CycleEnds DEF CallFails, IndexTypes
<1>5. CASE ~CallFails
  <2>1. /\ stored' = [stored EXCEPT ![k] = stored[k] \cup {batch[n]}]
        /\ indexerAt' = AfterWrite /\ batch' = batch
    BY Zenon, <1>0, <1>5 DEF WriteSink
  <2>2. batch[n] \in stored'[k]
    BY Zenon, <1>1, <2>1 DEF IndexTypes
  <2>3. Len(batch) \in Nat
    BY <1>1 DEF IndexTypes
  <2>4. \A j \in 1..Sinks : j < k + 1 => batch[n] \in stored'[j]
    <3>1. \A j \in 1..Sinks : j < k + 1 => j < k \/ j = k
      BY <1>1
    <3>. QED BY Zenon, <1>1, <1>3, <2>2, <3>1 DEF SunkBefore
  <2>5. \A m \in 1..Len(batch) : m < n => \A j \in 1..Sinks : batch[m] \in stored'[j]
    BY Zenon, <1>1, <1>3 DEF SunkBefore
  <2>6. IndexTypes' /\ Pulled(Feeds + 1)'
    BY Zenon, <1>1, <1>3, <2>1 DEF IndexTypes, Pulled
  <2>7. CASE k < Sinks
    <3>1. indexerAt'[1] = "write" /\ indexerAt'[2] = n /\ indexerAt'[3] = k + 1 /\ k + 1 \in 1..Sinks
      <4>1. indexerAt' = <<"write", n, k + 1>>
        BY Zenon, <1>0, <2>1, <2>7 DEF AfterWrite
      <4>2. k + 1 \in 1..Sinks
        BY <1>1, <2>7
      <4>. QED BY Zenon, <4>1, <4>2
    <3>2. CycleInHand(indexerAt[1], indexerAt[2], indexerAt[3])'
      BY Zenon, <1>1, <2>1, <2>4, <2>5, <2>6, <3>1 DEF CycleInHand, SunkBefore
    <3>. QED BY Zenon, <1>3, <2>6, <3>2 DEF IndexerInv
  <2>8. CASE ~(k < Sinks)
    <3>1. \A m \in 1..Len(batch) : m < n + 1 => \A j \in 1..Sinks : batch[m] \in stored'[j]
      <4>1. \A j \in 1..Sinks : j < k + 1
        BY <1>1, <2>8
      <4>2. \A m \in 1..Len(batch) : m < n + 1 => m < n \/ m = n
        BY <1>1, <2>3
      <4>. QED BY Zenon, <2>4, <2>5, <4>1, <4>2
    <3>2. 1 \in 1..Sinks /\ \A j \in 1..Sinks : ~(j < 1)
      BY IndexerAssumption
    <3>3. CASE n < Len(batch)
      <4>1. indexerAt' = <<"write", n + 1, 1>>
        BY Zenon, <1>0, <2>1, <2>8, <3>3 DEF AfterWrite
      <4>2. indexerAt'[1] = "write" /\ indexerAt'[2] = n + 1 /\ indexerAt'[3] = 1
        BY Zenon, <4>1
      <4>3. n + 1 \in 1..Len(batch)
        BY <1>1, <2>3, <3>3
      <4>4. CycleInHand(indexerAt[1], indexerAt[2], indexerAt[3])'
        BY Zenon, <2>1, <2>6, <3>1, <3>2, <4>2, <4>3 DEF CycleInHand, SunkBefore
      <4>. QED BY Zenon, <1>3, <2>6, <4>4 DEF IndexerInv
    <3>4. CASE ~(n < Len(batch))
      <4>1. indexerAt' = <<"publish", 1, 0>>
        BY Zenon, <1>0, <2>1, <2>8, <3>4 DEF AfterWrite
      <4>2. indexerAt'[1] = "publish" /\ indexerAt'[2] = 1
        BY Zenon, <4>1
      <4>3. 1 \in 1..Len(batch) /\ \A m \in 1..Len(batch) : m < n + 1 /\ ~(m < 1)
        BY <1>1, <2>3, <3>4
      <4>4. CycleInHand(indexerAt[1], indexerAt[2], indexerAt[3])'
        BY Zenon, <2>1, <2>6, <3>1, <4>2, <4>3 DEF CycleInHand
      <4>. QED BY Zenon, <1>3, <2>6, <4>4 DEF IndexerInv
    <3>. QED BY Zenon, <3>3, <3>4
  <2>. QED BY Zenon, <2>7, <2>8
<1>. QED BY Zenon, <1>4, <1>5

\* Publishing: every sink has the batch, so it has the event.
LEMMA PublishStep == ASSUME IndexerInv, PublishIndexed PROVE IndexerInv'
<1>0. PICK n, e : n = indexerAt[2] /\ e = batch[n]
  BY Zenon
<1>1. /\ n \in 1..Len(batch) /\ Pulled(Feeds + 1)
      /\ \A m \in 1..Len(batch) : \A j \in 1..Sinks : batch[m] \in stored[j]
      /\ \A m \in 1..Len(batch) : m < n => batch[m] \in announced
  BY Zenon, <1>0 DEF PublishIndexed, IndexerInv, CycleInHand
<1>2. /\ announced' = announced \cup {e}
      /\ \A l \in Listeners : heard'[l] \subseteq heard[l] \cup {e}
      /\ DOMAIN heard' = Listeners
      /\ UNCHANGED <<feed, batch, stored, cursors, savedVersion>>
  BY Zenon, <1>0 DEF PublishIndexed
<1>3. IndexTypes' /\ Pulled(Feeds + 1)'
  BY Zenon, <1>1, <1>2 DEF IndexerInv, IndexTypes, Pulled
<1>4. IndexIsConsistent'
  <2>1. \A k \in 1..Sinks : announced' \subseteq stored'[k]
    <3>1. \A k \in 1..Sinks : e \in stored[k] /\ announced \subseteq stored[k]
      BY Zenon, <1>0, <1>1 DEF IndexerInv, IndexIsConsistent
    <3>. QED BY Zenon, <1>2, <3>1
  <2>2. \A l \in Listeners : heard'[l] \subseteq announced'
    BY Zenon, <1>2 DEF IndexerInv, IndexIsConsistent
  <2>. QED BY Zenon, <1>2, <2>1, <2>2 DEF IndexerInv, IndexIsConsistent
<1>5. Len(batch) \in Nat
  BY DEF IndexerInv, IndexTypes
<1>6. \A m \in 1..Len(batch) : m < n + 1 => batch[m] \in announced'
  <2>1. \A m \in 1..Len(batch) : m < n + 1 => m < n \/ m = n
    BY <1>1, <1>5
  <2>. QED BY Zenon, <1>0, <1>1, <1>2, <2>1
<1>7. CASE n < Len(batch)
  <2>1. indexerAt' = <<"publish", n + 1, 0>>
    BY Zenon, <1>0, <1>7 DEF PublishIndexed
  <2>2. indexerAt'[1] = "publish" /\ indexerAt'[2] = n + 1
    BY Zenon, <2>1
  <2>3. n + 1 \in 1..Len(batch)
    BY <1>1, <1>5, <1>7
  <2>4. CycleInHand(indexerAt[1], indexerAt[2], indexerAt[3])'
    BY Zenon, <1>1, <1>2, <1>3, <1>6, <2>2, <2>3 DEF CycleInHand
  <2>. QED BY Zenon, <1>3, <1>4, <2>4 DEF IndexerInv
<1>8. CASE ~(n < Len(batch))
  <2>1. indexerAt' = <<"checkpoint", 0, 0>>
    BY Zenon, <1>0, <1>8 DEF PublishIndexed
  <2>2. indexerAt'[1] = "checkpoint"
    BY Zenon, <2>1
  <2>3. \A m \in 1..Len(batch) : m < n + 1
    BY <1>1, <1>5, <1>8
  <2>4. CycleInHand(indexerAt[1], indexerAt[2], indexerAt[3])'
    BY Zenon, <1>2, <1>3, <1>6, <2>2, <2>3 DEF CycleInHand
  <2>. QED BY Zenon, <1>3, <1>4, <2>4 DEF IndexerInv
<1>. QED BY Zenon, <1>7, <1>8

\* The cursors are set when all events of all sources have been announced.
LEMMA CheckpointsStep == ASSUME IndexerInv, UpdateCheckpoints PROVE IndexerInv'
<1>1. /\ Pulled(Feeds + 1) /\ \A m \in 1..Len(batch) : batch[m] \in announced
      /\ cursors' = cursors \cup (1..Feeds) /\ cursors \subseteq 1..Feeds
      /\ UNCHANGED <<feed, stored, announced, heard>> /\ EndCycle
  BY Zenon DEF UpdateCheckpoints, WithCursors, IndexerInv, IndexTypes, CycleInHand
<1>2. savedVersion' \in Nat
  BY DEF UpdateCheckpoints, IndexerInv, IndexTypes
<1>3. cursors' = 1..Feeds
  BY Zenon, <1>1
<1>4. \A s \in 1..Feeds : \A i \in 1..Len(feed[s]) : <<s, i>> \in announced
  <2>1. \A s \in 1..Feeds : s < Feeds + 1
    BY IndexerAssumption
  <2>. QED BY Zenon, <1>1, <2>1 DEF Pulled
<1>5. IndexIsConsistent'
  BY Zenon, <1>1, <1>3, <1>4 DEF IndexerInv, IndexIsConsistent
<1>. QED BY Zenon, <1>1, <1>2, <1>3, <1>5, CycleEnds

\* Every step of the cycle and of the subscribers keeps the invariant.
LEMMA IndexerStep == IndexerInv /\ [IndexerNext]_indexerVars => IndexerInv'
<1>. SUFFICES ASSUME IndexerInv, [IndexerNext]_indexerVars PROVE IndexerInv'
  BY Zenon
<1>1. CASE BeginCycle
  <2>1. indexerAt' = <<"pull", 0, 1>> /\ UNCHANGED <<feed, batch, stored, announced, heard, cursors, savedVersion>>
    BY Zenon, <1>1 DEF BeginCycle
  <2>2. indexerAt'[1] = "pull" /\ indexerAt'[3] = 1
    BY Zenon, <2>1
  <2>3. 1 \in 1..Feeds /\ \A r \in 1..Feeds : ~(r < 1)
    BY IndexerAssumption
  <2>4. CycleInHand(indexerAt[1], indexerAt[2], indexerAt[3])'
    BY Zenon, <2>2, <2>3 DEF CycleInHand, Pulled
  <2>5. IndexTypes' /\ IndexIsConsistent'
    BY Zenon, <2>1, NothingToldStep DEF IndexerInv, IndexTypes
  <2>. QED BY Zenon, <2>4, <2>5 DEF IndexerInv
<1>2. ASSUME UNCHANGED <<feed, indexerAt, batch, stored, announced, heard, cursors, savedVersion>>
      PROVE  IndexerInv'
  <2>1. IndexTypes' /\ IndexIsConsistent'
    BY Zenon, <1>2, NothingToldStep DEF IndexerInv, IndexTypes
  <2>2. CycleInHand(indexerAt[1], indexerAt[2], indexerAt[3])'
    BY Zenon, <1>2 DEF IndexerInv, CycleInHand, Pulled, SunkBefore
  <2>. QED BY Zenon, <2>1, <2>2 DEF IndexerInv
<1>3. CASE UNCHANGED indexerVars
  BY Zenon, <1>2, <1>3 DEF indexerVars
<1>4. ASSUME NEW l \in Listeners, Unsubscribe(l) \/ \E p \in Patterns : Subscribe(l, p) PROVE IndexerInv'
  BY Zenon, <1>2, <1>4 DEF Subscribe, Unsubscribe
<1>. QED BY Zenon, <1>1, <1>3, <1>4, PullStep, WriteStep, PublishStep, CheckpointsStep DEF IndexerNext

\* The indexer's books agree, for any number of sources, sinks, events, listeners
\* and failing calls: run_cycle tells downstream of an event only when every sink
\* has it, and sets a cursor only when everything of the source has been told.
THEOREM IndexerCorrect == IndexerInit /\ [][IndexerNext]_indexerVars => []IndexIsConsistent
<1>1. IndexerInit => IndexerInv
  <2>. SUFFICES ASSUME IndexerInit PROVE IndexerInv
    BY Zenon
  <2>1. indexerAt[1] = "rest"
    BY Zenon DEF IndexerInit, Resting
  <2>2. \A s \in 1..Feeds : Len(feed[s]) \in Nat
    BY IndexerAssumption DEF IndexerInit
  <2>3. batch \in Seq(Nat) /\ savedVersion \in Nat /\ ~(savedVersion > 0)
    BY DEF IndexerInit
  <2>4. IndexTypes
    BY Zenon, <2>2, <2>3 DEF IndexerInit, IndexTypes
  <2>5. IndexIsConsistent
    BY Zenon, <2>3 DEF IndexerInit, IndexIsConsistent
  <2>6. CycleInHand(indexerAt[1], indexerAt[2], indexerAt[3])
    BY Zenon, <2>1 DEF CycleInHand
  <2>. QED BY Zenon, <2>4, <2>5, <2>6 DEF IndexerInv
<1>2. IndexerInv => IndexIsConsistent
  BY Zenon DEF IndexerInv
<1>. QED BY <1>1, <1>2, IndexerStep, PTL
=============================================================================
