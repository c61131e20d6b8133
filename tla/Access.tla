------------------------------- MODULE Access -------------------------------
(***************************************************************************)
(* Who may call what at the unified endpoint: the authenticators and their *)
(* order (internal/auth), the server scope of API keys, the roles and tool *)
(* permissions of OIDC users (internal/proxy server.go and tools.go, the   *)
(* user store), their administration (internal/admin), and the two ways in *)
(* which a request makes calls: tools/call, and the orchestrate tool that  *)
(* plans with a language model and executes (internal/orchestrator, llm),  *)
(* which also activates tools in the session of the caller.                *)
(*                                                                         *)
(* Requests run concurrently with each other and with administrators; a    *)
(* request reads the database several times before its call goes out.      *)
(* The rate limiter and the policy engine, modelled in RateLimit and       *)
(* Policy, may refuse any request; the router is in Proxy.                 *)
(***************************************************************************)
EXTENDS Integers, Sequences, FiniteSetsExt

CONSTANTS
    Requests,       \* requests that are under way together
    Kinds,          \* what each may be: subsets of AllKinds
    Configs,        \* the configurations <<adminMode, progressive>>
    NewRoles, Grants, Levels, \* what administrators choose
    Users, Keys,    \* OIDC subjects and API keys
    Nobody,
    Tools,          \* the listed tools
    Home,           \* the names of the server of each, with and without "mcp-"
    Classified,     \* its classification at the start
    KeyScope,       \* the server scope asked for each key; {} is gateway-wide
    Headers,        \* what a client may present: [bearer, x]
    Plans,          \* the answers of the language model that are plans
    Providers,      \* how many providers the failover client has
    MaxSteps,       \* maxPlanSteps
    Cap,            \* maxActivatedSessionTools
    Editors,        \* administrators: their gateway roles
    MaxWrites,      \* changes by administrators, of keys included
    MaxRequests     \* requests that come in

Callers == Users \cup Keys
Roles == {"admin", "user", "viewer", "blocked"}
Unregistered == "unregistered"
AllKinds == {"call", "schema", "list", "plan", "execute"}
Risks == {"read_only", "write", "destructive", "unknown"}

ASSUME BoundsAssumption ==
    /\ {Providers, MaxSteps, Cap, MaxWrites, MaxRequests} \subseteq Nat
    /\ Kinds \in [Requests -> SUBSET AllKinds]
    /\ NewRoles \subseteq Roles /\ Grants \subseteq SUBSET Tools /\ Levels \subseteq Risks
    /\ Users \cap Keys = {} /\ Nobody \notin Callers
    /\ \A p \in Plans : p \in Seq(Range(p))

\* What a provider answers: a plan, text that is no plan, or an error.
Answer(kind, steps) == [kind |-> kind, steps |-> steps]
Answers == {Answer("plan", p) : p \in Plans} \cup {Answer("garbage", <<>>), Answer("error", <<>>)}

VARIABLES
    adminMode,  \* "standalone" dashboard or "integrated" API
    progressive, \* ProgressiveDiscovery
    keys,       \* the keys that have not expired, with the scope stored for them
    users,      \* the role of each subject, or Unregistered
    perms,      \* user_tool_permissions
    risk,       \* tool_classifications
    req,        \* the requests under way
    joining,    \* subjects whose auto-registration is still running
    edit,       \* the permission change of each administrator under way
    session,    \* the tools activated in each caller's session
    overlapped, \* sessions in which two activations ran at once
    since,      \* for each request what was true at some time since it came
    writes, arrivals

db == <<keys, users, perms, risk>>
config == <<adminMode, progressive>>
avars == <<config, db, req, joining, edit, session, overlapped, since, writes, arrivals>>

-----------------------------------------------------------------------------
(* Authentication.                                                         *)

\* authDispatcher and extractAPIKey: a JWT is tried as an OIDC token only; any
\* other bearer token is an API key, or else the X-API-Key header is.
Caller(h) == IF h.bearer \in Users \cup Keys THEN h.bearer
             ELSE IF h.bearer # "bad jwt" /\ h.x \in Keys THEN h.x ELSE Nobody

\* OIDCValidator.Validate: a token that verifies names its subject.
Validate(c) == c \in Users

\* GetByLookupHash and verifyRecord: a key that is stored and has not expired.
KeyFound(c) == c \in DOMAIN keys

Authenticated(c) == Validate(c) \/ KeyFound(c)

\* The scope that the identity of an authenticated caller carries.
ScopeOf(c) == IF KeyFound(c) THEN keys[c] ELSE {}

\* serverInScope, CheckServerScope.
InScope(scope, t) == scope = {} \/ Home[t] \cap scope # {}

\* IntegratedDelegatedAuthMiddleware: the platform vouches for its user, who
\* has a gateway role that exists.
IntegratedDelegatedAuthMiddleware(e) ==
    adminMode = "integrated" /\ Editors[e] \in {"admin", "editor", "viewer"}

\* roleRank, RequireGatewayRole: the routes of the integrated API.
roleRank(g) == IF g = "admin" THEN 3 ELSE IF g = "editor" THEN 2 ELSE 1
RequireGatewayRole(e, min) ==
    IntegratedDelegatedAuthMiddleware(e) /\ roleRank(Editors[e]) >= roleRank(min)

\* HandleCallback gives a session to whoever has the admin scope...
HandleCallback(e) == Editors[e] = "admin"

\* ... and every page of the dashboard asks for one, outside development mode.
AdminAuthMiddleware(e) == adminMode = "standalone" /\ HandleCallback(e)

-----------------------------------------------------------------------------
(* The orchestrator's filters.                                             *)

filterBySafety(level, r) ==
    IF level = "strict" THEN r \in {"read_only", "unknown"} ELSE r # "destructive"

\* Mutation: the steps that name no candidate are kept.
validateLength(plan, candidates) == SubSeq(plan, 1, Min({Len(plan), MaxSteps}))

\* A loop over a slice that appends to a new one what is to be kept.
Kept(s, keep) ==
    LET kept[i \in 0..Len(s)] ==
            IF i = 0 THEN <<>>
            ELSE IF s[i] \in keep THEN Append(kept[i - 1], s[i]) ELSE kept[i - 1]
    IN kept[Len(s)]

\* The steps of a plan that name a tool of the set.
Naming(plan, tools) == {s \in Range(plan) : s.tool \in tools}

\* validatePlan: fabricated tools go, then the plan is cut.
validatePlan(plan, candidates) ==
    LET valid == Kept(plan, Naming(plan, candidates))
    IN SubSeq(valid, 1, Min({Len(valid), MaxSteps}))

\* FailoverClient.Chat: the first provider that answers.
Chat(answers) ==
    LET ok == {i \in 1..Providers : answers[i].kind # "error"}
    IN IF ok = {} THEN Answer("error", <<>>) ELSE answers[Min(ok)]

Replies == {Chat(answers) : answers \in [1..Providers -> Answers]}

\* extractToolNames.
extractToolNames(steps) ==
    LET names[i \in 0..Len(steps)] ==
            IF i = 0 THEN <<>>
            ELSE IF steps[i].tool \in Range(names[i - 1]) THEN names[i - 1]
            ELSE Append(names[i - 1], steps[i].tool)
    IN names[Len(steps)]

-----------------------------------------------------------------------------
Off == [pc |-> "off", caller |-> Nobody, scope |-> {}, kind |-> "none", level |-> "strict",
        candidates |-> {}, steps |-> <<>>, adding |-> {}, made |-> <<>>, shown |-> {}]
NoEdit == [user |-> Nobody, tools |-> {}]
Never == [roles |-> {}, granted |-> {}, safe |-> {}]

AInit ==
    /\ \E c \in Configs : adminMode = c[1] /\ progressive = c[2]
    /\ keys = <<>>
    /\ users = [u \in Users |-> Unregistered]
    /\ perms = [u \in Users |-> {}]
    /\ risk = Classified
    /\ req = [r \in Requests |-> Off]
    /\ joining = {}
    /\ edit = [e \in DOMAIN Editors |-> NoEdit]
    /\ session = [c \in Callers |-> {}]
    /\ overlapped = {}
    /\ since = [r \in Requests |-> Never]
    /\ writes = 0 /\ arrivals = 0

\* What is true of a request's caller now, and of the tools under its safety
\* level, as far as its kind asks for them.
Now(c, kind, level) ==
    [roles |-> IF c \in Users /\ kind \in {"call", "list", "execute"} THEN {users[c]} ELSE {},
     granted |-> IF c \in Users /\ kind \in {"call", "list", "execute"} THEN perms[c] ELSE {},
     safe |-> IF kind = "execute" THEN {t \in Tools : filterBySafety(level, risk[t])} ELSE {}]
Both(a, b) == [f \in DOMAIN a |-> a[f] \cup b[f]]
Witness ==
    since' = [r \in Requests |->
                LET q == req[r] IN IF q.pc = "off" THEN since[r] ELSE Both(since[r], Now(q.caller, q.kind, q.level)')]

-----------------------------------------------------------------------------
(* Requests.                                                               *)

Goto(r, pc) == req' = [req EXCEPT ![r].pc = pc]
Done(r) == req' = [req EXCEPT ![r] = Off] /\ since' = [since EXCEPT ![r] = Never]
Alone == UNCHANGED <<config, db, joining, edit, writes, arrivals>>
Quiet == Alone /\ UNCHANGED <<session, overlapped>>

\* The request passes the authenticator, which starts the registration of a
\* subject behind its back.  Unless the rate limiter or the policy engine
\* refuses it, it reaches the handler of its tool.
Arrive(r, h, kind, level, steps) ==
    /\ arrivals < MaxRequests /\ arrivals' = arrivals + 1
    /\ req[r].pc = "off" /\ kind \in Kinds[r]
    /\ Authenticated(Caller(h))
    /\ joining' = joining \cup ({Caller(h)} \cap Users)
    /\ \/ /\ req' = [req EXCEPT ![r] =
              [Off EXCEPT !.caller = Caller(h), !.scope = ScopeOf(Caller(h)), !.kind = kind, !.level = level, !.steps = steps,
                          !.pc = CASE kind \in {"call", "list"} -> "role"
                                   [] kind = "schema" -> IF progressive THEN "activate" ELSE "end"
                                   [] OTHER -> "search"]]
          /\ since' = [since EXCEPT ![r] = Now(Caller(h), kind, level)]
       \/ UNCHANGED <<req, since>>
    /\ UNCHANGED <<config, db, edit, session, overlapped, writes>>

Handle(r) ==
    \E h \in Headers :
        \/ \E t \in Tools : Arrive(r, h, "call", "strict", <<[tool |-> t, approval |-> FALSE]>>)
        \/ \E p \in Plans : Arrive(r, h, "schema", "strict", Kept(p, Naming(p, Tools)))
        \/ Arrive(r, h, "list", "strict", <<>>)
        \/ \E kind \in {"plan", "execute"}, level \in {"strict", "read_only"} : Arrive(r, h, kind, level, <<>>)

\* plan: search, risk levels from the store (a failed lookup counts as
\* unknown) and the safety filter; an empty list ends it.
SearchTools(r) ==
    /\ req[r].pc = "search"
    /\ \E found \in SUBSET Tools : \E unread \in SUBSET found :
        LET Level(t) == IF t \in unread THEN "unknown" ELSE risk[t]
            candidates == {t \in found : filterBySafety(req[r].level, Level(t))}
        IN IF candidates = {} THEN Done(r)
           ELSE /\ req' = [req EXCEPT ![r].pc = "chat", ![r].candidates = candidates]
                /\ since' = [since EXCEPT ![r].safe = @ \cup IF req[r].kind = "execute" THEN unread ELSE {}]
    /\ Quiet

\* generatePlan and validatePlan; an answer that does not parse is asked for
\* once more.
GeneratePlan(r) ==
    /\ req[r].pc \in {"chat", "retry"}
    /\ \E a \in Replies :
        \/ /\ a.kind = "plan"
           /\ req' = [req EXCEPT ![r].pc = "activate", ![r].candidates = {},
                                 ![r].steps = validatePlan(a.steps, req[r].candidates)]
           /\ UNCHANGED since
        \/ a.kind = "garbage" /\ req[r].pc = "chat" /\ Goto(r, "retry") /\ UNCHANGED since
        \/ a.kind = "garbage" /\ req[r].pc = "retry" /\ Done(r)
        \/ a.kind = "error" /\ Done(r)
    /\ Quiet

Activating(c) == {r \in Requests : req[r].pc = "add" /\ req[r].caller = c}

\* Only an execution goes on after its activation.
AfterActivation(r) == IF req[r].kind = "execute" THEN "next" ELSE "end"

\* Mutation: what the session holds already is not counted.
WholeCap(existing) == Cap

\* activateSessionTools up to AddSessionTools: the tools of the session are
\* counted, and of the new ones those that do not fit are left out.
Room(existing) == IF Cardinality(existing) >= Cap THEN 0 ELSE Cap - Cardinality(existing)

activateSessionTools(r) ==
    /\ req[r].pc = "activate"
    /\ LET c == req[r].caller
           names == extractToolNames(req[r].steps)
           new == Kept(names, Range(names) \ session[c])
           size == Min({Len(new), Room(session[c])})
       IN IF size = 0 THEN Goto(r, AfterActivation(r)) /\ UNCHANGED overlapped
          ELSE /\ req' = [req EXCEPT ![r].pc = "add", ![r].adding = Range(SubSeq(new, 1, size))]
               /\ overlapped' = IF Activating(c) = {} THEN overlapped ELSE overlapped \cup {c}
    /\ Alone /\ UNCHANGED <<session, since>>

\* AddSessionTools, which may fail.
AddSessionTools(r) ==
    /\ req[r].pc = "add"
    /\ \/ session' = [session EXCEPT ![req[r].caller] = @ \cup req[r].adding]
       \/ UNCHANGED session
    /\ req' = [req EXCEPT ![r].pc = AfterActivation(r), ![r].adding = {}]
    /\ Alone /\ UNCHANGED <<overlapped, since>>

\* execute: steps that need approval are skipped; the others run in turn
\* whatever became of the ones before.
NextStep(r) ==
    /\ req[r].pc = "next" /\ req[r].steps # <<>>
    /\ IF Head(req[r].steps).approval THEN req' = [req EXCEPT ![r].steps = Tail(@)]
       ELSE Goto(r, "role")
    /\ Quiet /\ UNCHANGED since

Finished(r) ==
    /\ req[r].pc = "end" \/ (req[r].pc = "next" /\ req[r].steps = <<>>)
    /\ Done(r) /\ Quiet

\* The current step is over, having made the calls given.
Over(r, calls) ==
    req' = [req EXCEPT ![r].pc = AfterActivation(r), ![r].steps = Tail(@), ![r].made = @ \o calls]

\* Mutation: everyone who is not blocked is asked for the permission only.
RoleDecidesLoosely(role) ==
    CASE role = "admin" -> "call" [] role = "blocked" -> "deny" [] OTHER -> "permission"

\* checkToolPermission: what the role that was read decides.
RoleDecides(role) ==
    CASE role = "admin" -> "call" [] role = "user" -> "permission" [] OTHER -> "deny"

\* The first read.  Callers without an OIDC identity are not asked; a read
\* that fails denies.
GetByOIDCSub(r) ==
    /\ req[r].pc = "role" /\ req[r].kind # "list"
    /\ LET c == req[r].caller
           to == IF c \in Keys THEN "call" ELSE RoleDecides(users[c])
       IN \/ to # "deny" /\ Goto(r, to)
          \/ c \in Users /\ Over(r, <<>>)
    /\ Quiet /\ UNCHANGED since

\* The second.
HasToolPermission(r) ==
    /\ req[r].pc = "permission" /\ req[r].kind # "list"
    /\ \/ Head(req[r].steps).tool \in perms[req[r].caller] /\ Goto(r, "call")
       \/ Over(r, <<>>)
    /\ Quiet /\ UNCHANGED since

\* Router.Route: the scope of the key is checked against the server that was
\* selected; a name without one, and the server's own rate limit, refuse.
Route(r) ==
    /\ req[r].pc = "call"
    /\ LET t == Head(req[r].steps).tool
       IN \/ t \in Tools /\ InScope(req[r].scope, t) /\ Over(r, <<t>>)
          \/ Over(r, <<>>)
    /\ Quiet /\ UNCHANGED since

\* applyRoleFilter and onlyMetaTools, on tools/list: the first read, and what
\* is shown without a second.
Shown(r, ts) ==
    req' = [req EXCEPT ![r].pc = "end", ![r].shown = IF progressive THEN {} ELSE ts]

applyRoleFilter(r) ==
    /\ req[r].pc = "role" /\ req[r].kind = "list"
    /\ LET c == req[r].caller
       IN \/ (c \in Users => users[c] = "admin") /\ Shown(r, Tools)
          \/ c \in Users /\ users[c] \in {"user", "viewer"} /\ Goto(r, "permission")
          \/ c \in Users /\ Shown(r, {})
    /\ Quiet /\ UNCHANGED since

\* GetToolPermissions.
filterPermitted(r) ==
    /\ req[r].pc = "permission" /\ req[r].kind = "list"
    /\ Shown(r, perms[req[r].caller]) \/ Shown(r, {})
    /\ Quiet /\ UNCHANGED since

-----------------------------------------------------------------------------
(* Registration of subjects, and administration.                           *)

\* Mutation: the upsert writes every column.
UpsertAll(u) == users' = [users EXCEPT ![u] = "user"]

\* Upsert: on a conflict the role is kept.
Upsert(u) == users' = [users EXCEPT ![u] = IF @ = Unregistered THEN "user" ELSE @]

autoRegisterOIDCUser(u) ==
    /\ u \in joining
    /\ joining' = joining \ {u}
    /\ Upsert(u) \/ UNCHANGED users
    /\ UNCHANGED <<config, keys, perms, risk, req, edit, session, overlapped, writes, arrivals>>
    /\ Witness

Write == writes < MaxWrites /\ writes' = writes + 1
Others == UNCHANGED <<config, req, joining, session, overlapped, arrivals>>

\* The dashboard changes a role.
HandleUserRoleUpdate(e, u, role) ==
    /\ AdminAuthMiddleware(e) /\ Write
    /\ users[u] # Unregistered /\ users' = [users EXCEPT ![u] = role]
    /\ Others /\ UNCHANGED <<keys, perms, risk, edit>> /\ Witness

\* SetToolPermissions replaces the whole set in one transaction; a user that
\* does not exist fails the foreign key.
SetToolPermissions(u, ts) == users[u] # Unregistered /\ perms' = [perms EXCEPT ![u] = ts]

\* HandleUserPermissionsUpdate, HandleIntegratedUserPermissions.
replaceUserToolPermissions(e, u, ts) ==
    /\ AdminAuthMiddleware(e) \/ RequireGatewayRole(e, "admin")
    /\ Write
    /\ SetToolPermissions(u, ts)
    /\ Others /\ UNCHANGED <<keys, users, risk, edit>> /\ Witness

\* HandleUserToolsAdd and HandleUserToolsRemove read the set...
ReadPermissions(e, u, ts) ==
    /\ AdminAuthMiddleware(e) /\ edit[e] = NoEdit /\ Write
    /\ edit' = [edit EXCEPT ![e] = [user |-> u, tools |-> ts]]
    /\ Others /\ UNCHANGED <<db, since>>

HandleUserToolsAdd(e, u, ts) == ReadPermissions(e, u, perms[u] \cup ts)
HandleUserToolsRemove(e, u, ts) == ReadPermissions(e, u, perms[u] \ ts)

\* ... and write back what they made of it.
WritePermissions(e) ==
    /\ edit[e] # NoEdit
    /\ SetToolPermissions(edit[e].user, edit[e].tools) \/ UNCHANGED perms
    /\ edit' = [edit EXCEPT ![e] = NoEdit]
    /\ Others /\ UNCHANGED <<keys, users, risk, writes>> /\ Witness

\* A tool is classified (module Policy has the whole of it).
Classify(e, t, level) ==
    /\ AdminAuthMiddleware(e) \/ RequireGatewayRole(e, "editor")
    /\ Write
    /\ risk' = [risk EXCEPT ![t] = level]
    /\ Others /\ UNCHANGED <<keys, users, perms, edit>> /\ Witness

\* Create, Revoke: the key table.  A key whose time is over is as good as
\* revoked.
Create(k, scope) ==
    /\ Write
    /\ ~ KeyFound(k) /\ keys' = [j \in DOMAIN keys \cup {k} |-> IF j = k THEN scope ELSE keys[j]]
    /\ Others /\ UNCHANGED <<users, perms, risk, edit, since>>
Revoke(k) ==
    /\ Write
    /\ KeyFound(k) /\ keys' = [j \in DOMAIN keys \ {k} |-> keys[j]]
    /\ Others /\ UNCHANGED <<users, perms, risk, edit, since>>

\* A new secret for the holder of k, by the key API...
handleCreate(k) == Create(k, KeyScope[k])
handleRevoke(k) == Revoke(k)

\* ... by the command line on the database...
apikeyCreateCommand(k) == Create(k, KeyScope[k])
apikeyRevokeCommand(k) == Revoke(k)

\* ... or by the command line on the key API, to which it passes no scope.
remoteAPIKeyCreate(k) == Create(k, {})

ANext ==
    \/ \E r \in Requests :
        \/ Handle(r) \/ SearchTools(r) \/ GeneratePlan(r)
        \/ activateSessionTools(r) \/ AddSessionTools(r) \/ NextStep(r) \/ Finished(r)
        \/ GetByOIDCSub(r) \/ HasToolPermission(r) \/ Route(r)
        \/ applyRoleFilter(r) \/ filterPermitted(r)
    \/ \E u \in Users : autoRegisterOIDCUser(u)
    \/ \E e \in DOMAIN Editors :
        \/ \E u \in Users, role \in NewRoles : HandleUserRoleUpdate(e, u, role)
        \/ \E u \in Users, ts \in Grants :
            \/ replaceUserToolPermissions(e, u, ts)
            \/ HandleUserToolsAdd(e, u, ts) \/ HandleUserToolsRemove(e, u, ts)
        \/ WritePermissions(e)
        \/ \E t \in Tools, level \in Levels : Classify(e, t, level)
    \/ \E k \in Keys :
        \/ handleCreate(k) \/ handleRevoke(k)
        \/ apikeyCreateCommand(k) \/ apikeyRevokeCommand(k) \/ remoteAPIKeyCreate(k)

ASpec == AInit /\ [][ANext]_avars

-----------------------------------------------------------------------------
(* Properties.                                                             *)

\* Every call that left for a backend was allowed by what its request read:
\* since the request came there was a time when the subject had the role, and
\* one when it had the permission; a key never leaves the server scope stored
\* for it, whatever becomes of the key meanwhile; and tools/list shows a
\* subject only tools that were its own in that sense.  The two times may
\* differ, since role and permission are two reads, but no right that ended
\* before the request came is ever used.
CallsWereEntitled ==
    \A r \in Requests :
        /\ \A t \in Range(req[r].made) :
            /\ InScope(req[r].scope, t)
            /\ req[r].caller \in Users =>
                 \/ "admin" \in since[r].roles
                 \/ "user" \in since[r].roles /\ t \in since[r].granted
        /\ \A t \in req[r].shown : req[r].caller \in Users =>
             \/ "admin" \in since[r].roles
             \/ {"user", "viewer"} \cap since[r].roles # {} /\ t \in since[r].granted

\* An orchestration calls at most maxPlanSteps times, and only tools that its
\* safety level admitted at some time since the request came, whatever the
\* language model answered and however classifications changed meanwhile.
OrchestrationStaysSafe ==
    \A r \in Requests : req[r].kind = "execute" =>
        Len(req[r].made) <= MaxSteps /\ Range(req[r].made) \subseteq since[r].safe

\* The registration that every authenticated request starts never undoes an
\* administrator: the role of a known subject changes only by a write of
\* someone who has the dashboard's admin scope.
RolesChangeOnlyByAdmins ==
    [][\A u \in Users : users[u] \notin {Unregistered, users'[u]} =>
         writes' = writes + 1 /\ \E e \in DOMAIN Editors : AdminAuthMiddleware(e)]_avars

\* No session holds more activated tools than the cap, unless two activations
\* of that session overlapped between counting and adding.
SessionCapHolds ==
    \A c \in Callers \ overlapped : Cardinality(session[c]) <= Cap
=============================================================================
