------------------------------- MODULE Policy -------------------------------
(***************************************************************************)
(* Tool classifications and the policy decisions that rest on them.        *)
(*                                                                         *)
(* The table tool_classifications is shared by all pods.  It is written by *)
(* registrations and the start-up reconciliation (classifyNewTools), by    *)
(* the admin pages (upsertToolClassification and the prune of orphans) and *)
(* by the mcpgw tool commands.  Every pod's engine keeps a cache of rows   *)
(* with a time to live, which classification broadcasts invalidate; the    *)
(* broadcasts may be lost, and the tool commands and the reconciliation    *)
(* send none.  Handlers are cut at each call of the store and at each      *)
(* publication, where the steps of other handlers may fall.                *)
(*                                                                         *)
(* A row belongs to a spelling.  Registrations classify the names backends *)
(* declare; a request that spells the same tool "server.tool" is judged by *)
(* the row of that spelling, or by its words when it has none.             *)
(***************************************************************************)
EXTENDS PolicyRules, Integers

CONSTANTS
  Pods,           \* gateway processes
  Tools,          \* tool names, as requests and rows spell them
  Tokens,         \* Tokens[t]: what splitToolName makes of the name t
  Servers,        \* registered backends
  Exposes,        \* Exposes[s]: the tools server s declares
  Calls,          \* tools/call requests [tool, profile, args, schema]
  ProfileTables,  \* the profile tables a policy push may install
  ManualLevels,   \* ManualLevels[t]: the levels an administrator gives t
  TTL,            \* the cache's time to live, in ticks
  MaxWrites, MaxFaults   \* bounds on the administrators' writes and the faults

ASSUME PolicyAssumption ==
  /\ TTL \in Nat /\ MaxWrites \in Nat /\ MaxFaults \in Nat
  /\ Exposes \in [Servers -> SUBSET Tools]
  /\ ManualLevels \in [Tools -> SUBSET RiskLevels]
  /\ \A c \in Calls : c.tool \in Tools

VARIABLES
  table,     \* the rows: [level, auto], or NoRow
  active,    \* servers whose registration is active
  cache,     \* cache[p][t]: [level, left], left the ticks it still lives, or NoEntry
  inbox,     \* inbox[p]: broadcasts on their way to p ("*" for all tools)
  profiles,  \* profiles[p]: the engine's profile table
  eval,      \* eval[p]: an evaluation waiting for the store or about to fill the cache
  answer,    \* the decision the last step made, or None
  reg,       \* reg[s]: the run of classifyNewTools for server s
  admin,     \* the admin update in progress
  prune,     \* the prune in progress
  cli,       \* the rows mcpgw tool auto-classify still has to write
  writes, faults,
  harmful,   \* history: for how many ticks each tool has been destructive
  excused,   \* history: cache entries no broadcast will remove
  gap        \* history: tools no active server exposed at some time since
             \* the prune's listing

vars == <<table, active, cache, inbox, profiles, eval, answer, reg, admin, prune, cli,
          writes, faults, harmful, excused, gap>>

NoRow == [level |-> "unknown", auto |-> TRUE, row |-> FALSE]
Row(level, auto) == [level |-> level, auto |-> auto, row |-> TRUE]
NoEntry == [level |-> "unknown", left |-> -1]

(* The level an evaluation that reads the store now would find.            *)
LevelIn(tab, t) == IF tab[t].row THEN tab[t].level ELSE AutoClassify(Tokens[t])
Served == UNION {Exposes[s] : s \in active}

Idle == [phase |-> "idle"]
None == [made |-> FALSE]

Init ==
  /\ table = [t \in Tools |-> NoRow]
  /\ active = {}
  /\ cache = [p \in Pods |-> [t \in Tools |-> NoEntry]]
  /\ inbox = [p \in Pods |-> {}]
  /\ profiles \in [Pods -> ProfileTables]
  /\ eval = [p \in Pods |-> Idle]
  /\ reg = [s \in Servers |-> Idle]
  /\ admin = Idle
  /\ prune = Idle
  /\ cli = {}
  /\ answer = None
  /\ writes = 0 /\ faults = 0
  /\ harmful = [t \in Tools |-> 0]
  /\ excused = {}
  /\ gap = {}

-----------------------------------------------------------------------------
(* The store.  A write also keeps the history of the levels.               *)

Write(new) ==
  /\ table' = new
  /\ harmful' = [t \in Tools |->
                   IF LevelIn(new, t) = "destructive" THEN harmful[t] ELSE 0]

Upsert(t, level, auto) == Write([table EXCEPT ![t] = Row(level, auto)])

(* As a mutant: the condition of the DELETE is turned round.               *)
DeleteIn(names) ==
  Write([t \in Tools |-> IF t \in names THEN NoRow ELSE table[t]])
DeleteNotIn(names) ==
  Write([t \in Tools |-> IF t \in names THEN table[t] ELSE NoRow])

(* A write that is followed by no broadcast leaves old cache entries.      *)
Unannounced ==
  excused' = excused \cup
    {x \in Pods \X Tools : /\ cache[x[1]][x[2]] # NoEntry
                          /\ LevelIn(table, x[2]) # LevelIn(table', x[2])}

(* As a mutant: "*" is taken for the name of a tool.                       *)
CoversNamed(e) == {e} \cap Tools
Covers(e) == IF e = "*" THEN Tools ELSE {e}

(* A broadcast reaches some pods; the others count as a fault.             *)
PublishClassification(e) ==
  \E reached \in SUBSET Pods :
    /\ IF reached = Pods THEN UNCHANGED faults
       ELSE faults < MaxFaults /\ faults' = faults + 1
    /\ inbox' = [p \in Pods |-> IF p \in reached THEN inbox[p] \cup {e} ELSE inbox[p]]
    /\ excused' = excused \cup
         {x \in (Pods \ reached) \X Covers(e) : cache[x[1]][x[2]] # NoEntry}

-----------------------------------------------------------------------------
(* Registration: the row becomes active, then its tools are classified one *)
(* by one; each tool's Get, Upsert and broadcast are separate calls.       *)

engine == <<cache, profiles, eval>>
bounds == <<writes, faults>>

StartClassifying(s, announce) ==
  reg' = [reg EXCEPT ![s] =
            IF Exposes[s] = {} THEN Idle
            ELSE [phase |-> "get", todo |-> Exposes[s], announce |-> announce]]

Register(s) ==
  /\ reg[s] = Idle
  /\ active' = active \cup {s}
  /\ StartClassifying(s, TRUE)
  /\ answer' = None
  /\ UNCHANGED <<table, inbox, admin, prune, cli, harmful, excused, gap, engine, bounds>>

(* A starting pod reconciles the servers it listed; no broadcaster is set  *)
(* on the service yet.                                                     *)
SyncClassifications(s) ==
  /\ s \in active /\ reg[s] = Idle
  /\ StartClassifying(s, FALSE)
  /\ answer' = None
  /\ UNCHANGED <<table, active, inbox, admin, prune, cli, harmful, excused, gap, engine, bounds>>

(* Deregistration, a sweep or an admin deletion: the server is not listed. *)
Leave(s) ==
  /\ s \in active
  /\ active' = active \ {s}
  /\ gap' = IF prune.phase = "delete"
            THEN gap \cup (Tools \ UNION {Exposes[r] : r \in active'}) ELSE gap
  /\ answer' = None
  /\ UNCHANGED <<table, inbox, reg, admin, prune, cli, harmful, excused, engine, bounds>>

NextTool(s, t) ==
  reg' = [reg EXCEPT ![s] =
            IF @.todo = {t} THEN Idle
            ELSE [phase |-> "get", todo |-> @.todo \ {t}, announce |-> @.announce]]

MayReclassify(t) == ~table[t].row \/ table[t].auto

(* Get: an error or a manual row leaves the tool alone.                    *)
ClassifyGet(s, t) ==
  /\ reg[s].phase = "get" /\ t \in reg[s].todo
  /\ \/ /\ MayReclassify(t)
        /\ reg' = [reg EXCEPT ![s] = [phase |-> "upsert", todo |-> @.todo,
                                      announce |-> @.announce, tool |-> t]]
        /\ UNCHANGED faults
     \/ /\ ~MayReclassify(t)
        /\ NextTool(s, t)
        /\ UNCHANGED faults
     \/ /\ faults < MaxFaults /\ faults' = faults + 1
        /\ NextTool(s, t)
  /\ answer' = None
  /\ UNCHANGED <<table, active, inbox, admin, prune, cli, harmful, excused, gap, engine,
                 writes>>

ClassifyUpsert(s) ==
  LET t == reg[s].tool IN
  /\ reg[s].phase = "upsert"
  /\ Upsert(t, AutoClassify(Tokens[t]), TRUE)
  /\ IF reg[s].announce
     THEN reg' = [reg EXCEPT ![s].phase = "publish"] /\ UNCHANGED excused
     ELSE NextTool(s, t) /\ Unannounced
  /\ answer' = None
  /\ UNCHANGED <<active, inbox, admin, prune, cli, gap, engine, bounds>>

ClassifyUpsertFails(s) ==
  /\ reg[s].phase = "upsert"
  /\ faults < MaxFaults /\ faults' = faults + 1
  /\ NextTool(s, reg[s].tool)
  /\ answer' = None
  /\ UNCHANGED <<table, active, inbox, admin, prune, cli, harmful, excused, gap, engine,
                 writes>>

ClassifyPublish(s) ==
  /\ reg[s].phase = "publish"
  /\ PublishClassification(reg[s].tool)
  /\ NextTool(s, reg[s].tool)
  /\ answer' = None
  /\ UNCHANGED <<table, active, admin, prune, cli, harmful, gap, engine, writes>>

-----------------------------------------------------------------------------
(* The admin pages and the command line.                                   *)

upsertToolClassification(t, level) ==
  /\ admin = Idle
  /\ writes < MaxWrites /\ writes' = writes + 1
  /\ Upsert(t, level, FALSE)
  /\ admin' = [phase |-> "publish", tool |-> t]
  /\ answer' = None
  /\ UNCHANGED <<active, inbox, reg, prune, cli, excused, gap, engine, faults>>

AdminPublish ==
  /\ admin.phase = "publish"
  /\ PublishClassification(admin.tool)
  /\ admin' = Idle
  /\ answer' = None
  /\ UNCHANGED <<table, active, reg, prune, cli, harmful, gap, engine, writes>>

(* The prune keeps the tools of the servers that are active when it lists  *)
(* them, deletes every other row and invalidates every cache.              *)
PruneList ==
  /\ prune = Idle
  /\ writes < MaxWrites /\ writes' = writes + 1
  /\ prune' = [phase |-> "delete", keep |-> Served]
  /\ gap' = Tools \ Served
  /\ answer' = None
  /\ UNCHANGED <<table, active, inbox, reg, admin, cli, harmful, excused, engine, faults>>

PruneDelete ==
  /\ prune.phase = "delete"
  /\ DeleteNotIn(prune.keep)
  /\ prune' = [phase |-> "publish"]
  /\ gap' = {}
  /\ answer' = None
  /\ UNCHANGED <<active, inbox, reg, admin, cli, excused, engine, bounds>>

PrunePublish ==
  /\ prune.phase = "publish"
  /\ PublishClassification("*")
  /\ prune' = Idle
  /\ answer' = None
  /\ UNCHANGED <<table, active, reg, admin, cli, harmful, gap, engine, writes>>

(* mcpgw tool classify writes the row and announces nothing.               *)
toolClassifyCommand(t, level) ==
  /\ writes < MaxWrites /\ writes' = writes + 1
  /\ Upsert(t, level, FALSE)
  /\ Unannounced
  /\ answer' = None
  /\ UNCHANGED <<active, inbox, reg, admin, prune, cli, gap, engine, faults>>

(* mcpgw tool auto-classify lists all rows, then rewrites those that were  *)
(* automatic when it listed them.                                          *)
toolAutoClassifyCommand ==
  /\ cli = {}
  /\ writes < MaxWrites /\ writes' = writes + 1
  /\ cli' = {t \in Tools : table[t].row /\ table[t].auto}
  /\ answer' = None
  /\ UNCHANGED <<table, active, inbox, reg, admin, prune, harmful, excused, gap, engine,
                 faults>>

AutoClassifyRow(t) ==
  /\ t \in cli
  /\ Upsert(t, AutoClassify(Tokens[t]), TRUE)
  /\ Unannounced
  /\ cli' = cli \ {t}
  /\ answer' = None
  /\ UNCHANGED <<active, inbox, reg, admin, prune, gap, engine, bounds>>

-----------------------------------------------------------------------------
(* A pod's cache and engine.                                               *)

writers == <<table, active, reg, admin, prune, cli, harmful, gap>>

(* ClassificationSubscriber.handle.                                        *)
handle(p, e) ==
  /\ e \in inbox[p]
  /\ inbox' = [inbox EXCEPT ![p] = @ \ {e}]
  /\ cache' = [cache EXCEPT ![p] =
                 [t \in Tools |-> IF t \in Covers(e) THEN NoEntry ELSE @[t]]]
  /\ excused' = excused \ ({p} \X Covers(e))
  /\ answer' = None
  /\ UNCHANGED <<writers, profiles, eval, bounds>>

ReplaceProfiles(p, profs) ==
  /\ profiles' = [profiles EXCEPT ![p] = WithDefault(profs)]
  /\ answer' = None
  /\ UNCHANGED <<writers, inbox, cache, eval, excused, bounds>>

(* The decision on call c once its level is known: a destructive tool is   *)
(* refused before the profile is looked at.                                *)
Decide(p, c, level, failed) ==
  LET profile == resolveProfile(profiles[p], c.profile) IN
  answer' = [made |-> TRUE, call |-> c, profile |-> profile, failed |-> failed,
             allowed |-> /\ level # "destructive"
                         /\ buildDecision(collectViolations(profile, c),
                                          ModeInForce(profile))]

(* Evaluate asks the cache first.                                          *)
EvaluateHit(p, c) ==
  /\ eval[p] = Idle /\ cache[p][c.tool] # NoEntry
  /\ Decide(p, c, cache[p][c.tool].level, FALSE)
  /\ UNCHANGED <<writers, inbox, engine, excused, bounds>>

EvaluateMiss(p, c) ==
  /\ eval[p] = Idle /\ cache[p][c.tool] = NoEntry
  /\ eval' = [eval EXCEPT ![p] = [phase |-> "read", call |-> c]]
  /\ answer' = None
  /\ UNCHANGED <<writers, inbox, cache, profiles, excused, bounds>>

(* The store's row will be cached; without a row the name decides, and an  *)
(* error counts as an unknown level: neither of these is cached.           *)
EvaluateRead(p) ==
  LET c == eval[p].call IN
  /\ eval[p].phase = "read"
  /\ \/ /\ table[c.tool].row
        /\ eval' = [eval EXCEPT ![p] = [phase |-> "set", call |-> c,
                                        level |-> table[c.tool].level]]
        /\ answer' = None
        /\ UNCHANGED faults
     \/ /\ ~table[c.tool].row
        /\ eval' = [eval EXCEPT ![p] = Idle]
        /\ Decide(p, c, AutoClassify(Tokens[c.tool]), FALSE)
        /\ UNCHANGED faults
     \/ /\ faults < MaxFaults /\ faults' = faults + 1
        /\ eval' = [eval EXCEPT ![p] = Idle]
        /\ Decide(p, c, "unknown", TRUE)
  /\ UNCHANGED <<writers, inbox, cache, profiles, excused, writes>>

EvaluateSet(p) ==
  LET c == eval[p].call
      level == eval[p].level IN
  /\ eval[p].phase = "set"
  /\ cache' = [cache EXCEPT ![p][c.tool] = [level |-> level, left |-> TTL]]
  /\ excused' = IF level = LevelIn(table, c.tool)
                THEN excused \ {<<p, c.tool>>} ELSE excused \cup {<<p, c.tool>>}
  /\ eval' = [eval EXCEPT ![p] = Idle]
  /\ Decide(p, c, level, FALSE)
  /\ UNCHANGED <<writers, inbox, profiles, bounds>>

(* An entry lives through TTL ticks; the next lookup drops an expired one, *)
(* which until then answers nothing.                                       *)
Aged(e) == IF e.left <= 0 THEN NoEntry ELSE [e EXCEPT !.left = @ - 1]

(* A request is over in seconds and an entry lives for minutes: the clock  *)
(* moves on when no evaluation is under way.                               *)
Tick ==
  /\ \A p \in Pods : eval[p] = Idle
  /\ cache' = [p \in Pods |-> [t \in Tools |-> Aged(cache[p][t])]]
  /\ excused' = {x \in excused : cache'[x[1]][x[2]] # NoEntry}
  /\ harmful' = [t \in Tools |->
       IF LevelIn(table, t) # "destructive" THEN 0
       ELSE IF harmful[t] > TTL THEN harmful[t] ELSE harmful[t] + 1]
  /\ answer' = None
  /\ UNCHANGED <<table, active, inbox, reg, admin, prune, cli, gap, profiles, eval, bounds>>

Next ==
  \/ \E s \in Servers :
       \/ Register(s) \/ SyncClassifications(s) \/ Leave(s)
       \/ \E t \in Tools : ClassifyGet(s, t)
       \/ ClassifyUpsert(s) \/ ClassifyUpsertFails(s) \/ ClassifyPublish(s)
  \/ \E t \in Tools : \E l \in ManualLevels[t] :
       upsertToolClassification(t, l) \/ toolClassifyCommand(t, l)
  \/ AdminPublish
  \/ PruneList \/ PruneDelete \/ PrunePublish
  \/ toolAutoClassifyCommand \/ \E t \in Tools : AutoClassifyRow(t)
  \/ \E p \in Pods :
       \/ \E e \in inbox[p] : handle(p, e)
       \/ \E profs \in ProfileTables : ReplaceProfiles(p, profs)
       \/ \E c \in Calls : EvaluateHit(p, c) \/ EvaluateMiss(p, c)
       \/ EvaluateRead(p) \/ EvaluateSet(p)
  \/ Tick

Spec == Init /\ [][Next]_vars

-----------------------------------------------------------------------------
(* Properties.                                                             *)

(* A broadcast that will make pod p drop its entry for t is on its way or  *)
(* about to be published.                                                  *)
Coming(p, t) ==
  \/ inbox[p] \cap {t, "*"} # {}
  \/ admin.phase = "publish" /\ admin.tool = t
  \/ prune.phase = "publish"
  \/ \E s \in Servers : reg[s].phase = "publish" /\ reg[s].tool = t

(* Every handler of the gateway that changes a tool's level also sends the *)
(* invalidation that removes it from every cache: an entry that disagrees  *)
(* with the store has a broadcast coming, unless a broadcast was lost, the *)
(* row was written from the command line or by a starting pod, or the      *)
(* entry was stored by an evaluation that read the row before the change   *)
(* (resolveRiskLevel reads the store and then sets the cache).             *)
StaleEntriesAreDoomed ==
  \A p \in Pods, t \in Tools :
    (cache[p][t] # NoEntry /\ cache[p][t].level # LevelIn(table, t))
      => (<<p, t>> \in excused \/ Coming(p, t))

(* Whatever is lost or late, a name that has been destructive for longer   *)
(* than the cache's time to live is refused by every pod, in audit mode    *)
(* too, unless the store could not be read; and a call with a violation    *)
(* (not allowed by name, a dangerous string at any depth, a missing or     *)
(* ill-typed argument) passes only under a profile that says "audit".      *)
AllowedCallsAreClean ==
  (answer.made /\ answer.allowed) =>
    LET c == answer.call
        prof == answer.profile IN
    /\ answer.failed \/ harmful[c.tool] <= TTL
    /\ \/ prof.mode = "audit"
       \/ /\ c.tool \notin prof.deny
          /\ prof.allow = {} \/ c.tool \in prof.allow
          /\ \A n \in DOMAIN c.args : \A v \in {c.args[n]} \cup c.args[n].elems :
               "dangerous" \notin v.strings
          /\ c.schema.state # "invalid"
          /\ c.schema.state = "valid" => c.schema.required \subseteq DOMAIN c.args

(* The prune takes no classification away from a tool that some active     *)
(* server exposed all the time between its listing and its delete.         *)
PruneSparesServedTools ==
  [][\A t \in Tools : (table[t].row /\ ~table'[t].row) => t \in gap]_vars
=============================================================================
