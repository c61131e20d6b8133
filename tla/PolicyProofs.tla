---------------------------- MODULE PolicyProofs ----------------------------
(***************************************************************************)
(* Proofs about Policy, for any pods, tools, servers, calls and profiles,  *)
(* any time to live and any number of writes and faults.                   *)
(*                                                                         *)
(* That a destructive tool is refused rests on the age of what is cached:  *)
(* an entry with another level was stored while the tool was not           *)
(* destructive, so that the tool has been destructive for no longer than   *)
(* the entry has lived (Young).  An evaluation between its read and its    *)
(* write of the cache carries the same promise (Pending).  That stale      *)
(* entries are doomed is inductive by itself, and the prune carries along  *)
(* that what it does not keep has had a gap (Gaps).                        *)
(***************************************************************************)
EXTENDS Policy, TLAPS

Rows == [level : RiskLevels, auto : BOOLEAN, row : BOOLEAN]
Entries == [level : RiskLevels, left : Int]
Evals == {Idle} \cup [phase : {"read"}, call : Calls]
         \cup [phase : {"set"}, call : Calls, level : RiskLevels]
Runs == {Idle} \cup [phase : {"get"}, todo : SUBSET Tools, announce : BOOLEAN]
        \cup [phase : {"upsert", "publish"}, todo : SUBSET Tools, announce : BOOLEAN, tool : Tools]
Updates == {Idle} \cup [phase : {"publish"}, tool : Tools]
Prunes == {Idle, [phase |-> "publish"]} \cup [phase : {"delete"}, keep : SUBSET Tools]

Types ==
    /\ table \in [Tools -> Rows]
    /\ active \in SUBSET Servers
    /\ cache \in [Pods -> [Tools -> Entries]]
    /\ inbox \in [Pods -> SUBSET (Tools \cup {"*"})]
    /\ eval \in [Pods -> Evals]
    /\ reg \in [Servers -> Runs]
    /\ admin \in Updates
    /\ prune \in Prunes
    /\ cli \in SUBSET Tools
    /\ harmful \in [Tools -> Nat]

LEMMA LevelsOfNames == \A tokens : AutoClassify(tokens) \in RiskLevels
  BY Zenon DEF AutoClassify, RiskLevels

LEMMA InitTypes == Init => Types
  BY DEF Init, Types, NoRow, NoEntry, Rows, Entries, Evals, Runs, Updates, Prunes, RiskLevels

-----------------------------------------------------------------------------
(* Types.                                                                  *)

LEMMA UpsertTypes ==
    ASSUME Types, NEW t, NEW level \in RiskLevels, NEW auto \in BOOLEAN, Upsert(t, level, auto)
    PROVE  table' \in [Tools -> Rows] /\ harmful' \in [Tools -> Nat]
  BY Zenon DEF Types, Upsert, Write, Row, Rows

LEMMA DeleteTypes ==
    ASSUME Types, NEW names, DeleteNotIn(names)
    PROVE  table' \in [Tools -> Rows] /\ harmful' \in [Tools -> Nat]
  BY Zenon DEF Types, DeleteNotIn, Write, NoRow, Rows, RiskLevels

LEMMA PublishTypes ==
    ASSUME Types, NEW e \in Tools \cup {"*"}, PublishClassification(e)
    PROVE  inbox' \in [Pods -> SUBSET (Tools \cup {"*"})]
  BY DEF Types, PublishClassification

LEMMA NextToolTypes ==
    ASSUME Types, NEW s \in Servers, NEW t, reg[s] # Idle, NextTool(s, t)
    PROVE  reg' \in [Servers -> Runs]
<1>1. reg[s].todo \in SUBSET Tools /\ reg[s].announce \in BOOLEAN
  BY Zenon DEF Types, Runs, Idle
<1>2. [phase |-> "get", todo |-> reg[s].todo \ {t}, announce |-> reg[s].announce] \in Runs
  BY <1>1, Zenon DEF Runs
<1> QED
  BY <1>2, Zenon DEF Types, NextTool, Runs

LEMMA RegistrationTypes ==
    ASSUME Types, NEW s \in Servers,
           \/ Register(s) \/ SyncClassifications(s) \/ Leave(s)
           \/ \E t \in Tools : ClassifyGet(s, t)
           \/ ClassifyUpsert(s) \/ ClassifyUpsertFails(s) \/ ClassifyPublish(s)
    PROVE  Types'
<1>1. ASSUME NEW a \in BOOLEAN, StartClassifying(s, a) PROVE reg' \in [Servers -> Runs]
  <2>1. [phase |-> "get", todo |-> Exposes[s], announce |-> a] \in Runs
    BY PolicyAssumption, Zenon DEF Runs
  <2> QED
    BY <1>1, <2>1, Zenon DEF Types, StartClassifying, Runs
<1>2. CASE Register(s) \/ SyncClassifications(s)
  BY <1>1, <1>2, Zenon DEF Types, Register, SyncClassifications, engine
<1>3. CASE Leave(s)
  BY <1>3, Zenon DEF Types, Leave, engine
<1>4. ASSUME NEW t \in Tools, ClassifyGet(s, t) PROVE Types'
  <2>1. reg[s] # Idle /\ reg[s].todo \in SUBSET Tools /\ reg[s].announce \in BOOLEAN
    BY <1>4 DEF ClassifyGet, Types, Runs, Idle
  <2>2. [phase |-> "upsert", todo |-> reg[s].todo, announce |-> reg[s].announce, tool |-> t] \in Runs
    BY <2>1, Zenon DEF Runs
  <2>3. reg' \in [Servers -> Runs]
    BY <1>4, <2>1, <2>2, NextToolTypes, Zenon DEF ClassifyGet, Types
  <2> QED
    BY <1>4, <2>3, Zenon DEF ClassifyGet, Types, engine
<1>5. ASSUME reg[s].phase \in {"upsert", "publish"}
      PROVE  /\ reg[s] # Idle /\ reg[s].tool \in Tools
             /\ reg[s] \in [phase : {"upsert", "publish"}, todo : SUBSET Tools,
                            announce : BOOLEAN, tool : Tools]
  BY <1>5 DEF Types, Runs, Idle
<1>6. CASE ClassifyUpsert(s)
  <2>1. table' \in [Tools -> Rows] /\ harmful' \in [Tools -> Nat]
    BY <1>5, <1>6, UpsertTypes, LevelsOfNames, Zenon DEF ClassifyUpsert
  <2>2. [reg[s] EXCEPT !.phase = "publish"] \in Runs
    BY <1>5, <1>6, Zenon DEF ClassifyUpsert, Runs
  <2>3. reg' \in [Servers -> Runs]
    BY <1>5, <1>6, <2>2, NextToolTypes, Zenon DEF ClassifyUpsert, Types
  <2> QED
    BY <1>6, <2>1, <2>3, Zenon DEF ClassifyUpsert, Types, engine
<1>7. CASE ClassifyUpsertFails(s)
  BY <1>5, <1>7, NextToolTypes, Zenon DEF ClassifyUpsertFails, Types, engine
<1>8. CASE ClassifyPublish(s)
  <2>1. inbox' \in [Pods -> SUBSET (Tools \cup {"*"})]
    BY <1>5, <1>8, PublishTypes, Zenon DEF ClassifyPublish
  <2>2. reg' \in [Servers -> Runs]
    BY <1>5, <1>8, NextToolTypes, Zenon DEF ClassifyPublish
  <2> QED
    BY <1>8, <2>1, <2>2, Zenon DEF ClassifyPublish, Types, engine
<1> QED
  BY <1>2, <1>3, <1>4, <1>6, <1>7, <1>8, Zenon
LEMMA WriterTypes ==
    ASSUME Types,
           \/ \E t \in Tools : \E l \in ManualLevels[t] :
                upsertToolClassification(t, l) \/ toolClassifyCommand(t, l)
           \/ AdminPublish
           \/ PruneList \/ PruneDelete \/ PrunePublish
           \/ toolAutoClassifyCommand \/ \E t \in Tools : AutoClassifyRow(t)
    PROVE  Types'
<1>1. ASSUME NEW t \in Tools, NEW l \in ManualLevels[t],
             upsertToolClassification(t, l) \/ toolClassifyCommand(t, l)
      PROVE  Types'
  <2>1. l \in RiskLevels
    BY PolicyAssumption, Zenon
  <2>2. table' \in [Tools -> Rows] /\ harmful' \in [Tools -> Nat]
    BY <1>1, <2>1, UpsertTypes, Zenon DEF upsertToolClassification, toolClassifyCommand
  <2>3. [phase |-> "publish", tool |-> t] \in Updates
    BY Zenon DEF Updates
  <2>4. admin' \in Updates
    BY <1>1, <2>3, Zenon DEF upsertToolClassification, toolClassifyCommand, Types
  <2> QED
    BY <1>1, <2>2, <2>4, Zenon DEF upsertToolClassification, toolClassifyCommand, Types, engine
<1>2. CASE AdminPublish
  <2>1. admin.tool \in Tools
    BY <1>2 DEF AdminPublish, Types, Updates, Idle
  <2>2. inbox' \in [Pods -> SUBSET (Tools \cup {"*"})]
    BY <1>2, <2>1, PublishTypes, Zenon DEF AdminPublish
  <2>3. admin' \in Updates
    BY <1>2, Zenon DEF AdminPublish, Updates
  <2> QED
    BY <1>2, <2>2, <2>3, Zenon DEF AdminPublish, Types, engine
<1>3. CASE PruneList
  <2>1. Served \in SUBSET Tools
    BY PolicyAssumption DEF Served, Types
  <2> QED
    BY <1>3, <2>1, Zenon DEF PruneList, Types, engine, Prunes
<1>4. CASE PruneDelete
  <2>1. table' \in [Tools -> Rows] /\ harmful' \in [Tools -> Nat]
    BY <1>4, DeleteTypes, Zenon DEF PruneDelete
  <2> QED
    BY <1>4, <2>1, Zenon DEF PruneDelete, Types, engine, Prunes
<1>5. CASE PrunePublish
  <2>1. inbox' \in [Pods -> SUBSET (Tools \cup {"*"})]
    BY <1>5, PublishTypes, Zenon DEF PrunePublish
  <2>2. prune' \in Prunes
    BY <1>5, Zenon DEF PrunePublish, Prunes
  <2> QED
    BY <1>5, <2>1, <2>2, Zenon DEF PrunePublish, Types, engine
<1>6. CASE toolAutoClassifyCommand
  BY <1>6, Zenon DEF toolAutoClassifyCommand, Types, engine
<1>7. ASSUME NEW t \in Tools, AutoClassifyRow(t) PROVE Types'
  <2>1. table' \in [Tools -> Rows] /\ harmful' \in [Tools -> Nat]
    BY <1>7, UpsertTypes, LevelsOfNames, Zenon DEF AutoClassifyRow
  <2> QED
    BY <1>7, <2>1, Zenon DEF AutoClassifyRow, Types, engine
<1> QED
  BY <1>1, <1>2, <1>3, <1>4, <1>5, <1>6, <1>7, Zenon

LEMMA EngineTypes ==
    ASSUME Types, NEW p \in Pods,
           \/ \E e \in inbox[p] : handle(p, e)
           \/ \E profs \in ProfileTables : ReplaceProfiles(p, profs)
           \/ \E c \in Calls : EvaluateHit(p, c) \/ EvaluateMiss(p, c)
           \/ EvaluateRead(p) \/ EvaluateSet(p)
    PROVE  Types'
<1>1. ASSUME NEW e \in inbox[p], handle(p, e) PROVE Types'
  <2>1. [t \in Tools |-> IF t \in Covers(e) THEN NoEntry ELSE cache[p][t]] \in [Tools -> Entries]
    BY DEF Types, NoEntry, Entries, RiskLevels
  <2>2. cache' \in [Pods -> [Tools -> Entries]]
    BY <1>1, <2>1, Zenon DEF handle, Types
  <2>3. inbox' \in [Pods -> SUBSET (Tools \cup {"*"})]
    BY <1>1, Zenon DEF handle, Types
  <2> QED
    BY <1>1, <2>2, <2>3, Zenon DEF handle, Types, writers
<1>2. ASSUME NEW profs \in ProfileTables, ReplaceProfiles(p, profs) PROVE Types'
  BY <1>2, Zenon DEF ReplaceProfiles, Types, writers
<1>3. ASSUME NEW c \in Calls, EvaluateHit(p, c) PROVE Types'
  BY <1>3, Zenon DEF EvaluateHit, Types, writers, engine
<1>4. ASSUME NEW c \in Calls, EvaluateMiss(p, c) PROVE Types'
  <2>1. eval' \in [Pods -> Evals]
    BY <1>4, Zenon DEF EvaluateMiss, Types, Evals
  <2> QED
    BY <1>4, <2>1, Zenon DEF EvaluateMiss, Types, writers
<1>5. CASE EvaluateRead(p)
  <2>1. eval[p].call \in Calls
    BY <1>5 DEF EvaluateRead, Types, Evals, Idle
  <2>2. table[eval[p].call.tool].level \in RiskLevels
    BY <2>1, PolicyAssumption, Zenon DEF Types, Rows
  <2>3. [phase |-> "set", call |-> eval[p].call, level |-> table[eval[p].call.tool].level] \in Evals
    BY <2>1, <2>2, Zenon DEF Evals
  <2>4. Idle \in Evals
    BY Zenon DEF Evals
  <2>5. eval' \in [Pods -> Evals]
    BY <1>5, <2>3, <2>4, Zenon DEF EvaluateRead, Types
  <2> QED
    BY <1>5, <2>5, Zenon DEF EvaluateRead, Types, writers
<1>6. CASE EvaluateSet(p)
  <2> eval[p] \in [phase : {"set"}, call : Calls, level : RiskLevels]
    BY <1>6 DEF EvaluateSet, Types, Evals, Idle
  <2>1. eval[p].call \in Calls /\ eval[p].level \in RiskLevels
    BY Zenon
  <2>2. [level |-> eval[p].level, left |-> TTL] \in Entries
    BY <2>1, PolicyAssumption DEF Entries
  <2>3. cache' \in [Pods -> [Tools -> Entries]]
    BY <1>6, <2>2, Zenon DEF EvaluateSet, Types
  <2>4. eval' \in [Pods -> Evals]
    BY <1>6, Zenon DEF EvaluateSet, Types, Evals
  <2> QED
    BY <1>6, <2>3, <2>4, Zenon DEF EvaluateSet, Types, writers
<1> QED
  BY <1>1, <1>2, <1>3, <1>4, <1>5, <1>6, Zenon

LEMMA TickTypes == Types /\ Tick => Types'
<1> SUFFICES ASSUME Types, Tick PROVE Types'
  BY Zenon
<1>1. \A e \in Entries : Aged(e) \in Entries
  BY DEF Aged, Entries, NoEntry, RiskLevels
<1>2. cache' \in [Pods -> [Tools -> Entries]]
  BY <1>1, Zenon DEF Tick, Types
<1>3. harmful' \in [Tools -> Nat]
  BY DEF Tick, Types
<1> QED
  BY <1>2, <1>3, Zenon DEF Tick, Types

LEMMA StepTypes == Types /\ [Next]_vars => Types'
<1>1. Types /\ UNCHANGED vars => Types'
  BY Zenon DEF Types, vars
<1> QED
  BY <1>1, RegistrationTypes, WriterTypes, EngineTypes, TickTypes, Zenon DEF Next

-----------------------------------------------------------------------------
(* How long a tool has been destructive, against what the caches hold.     *)

Clean == \A t \in Tools : LevelIn(table, t) # "destructive" => harmful[t] = 0

Pending ==
  \A p \in Pods : (eval[p].phase = "set" /\ eval[p].level # "destructive")
                    => harmful[eval[p].call.tool] = 0

Young ==
  \A p \in Pods, t \in Tools :
    (cache[p][t] # NoEntry /\ cache[p][t].level # "destructive")
      => cache[p][t].left >= 0 /\ harmful[t] + cache[p][t].left <= TTL

Ages == Clean /\ Pending /\ Young

RegistrationStep(s) ==
  \/ Register(s) \/ SyncClassifications(s) \/ Leave(s)
  \/ \E t \in Tools : ClassifyGet(s, t)
  \/ ClassifyUpsert(s) \/ ClassifyUpsertFails(s) \/ ClassifyPublish(s)

WriterStep ==
  \/ \E t \in Tools : \E l \in ManualLevels[t] :
       upsertToolClassification(t, l) \/ toolClassifyCommand(t, l)
  \/ AdminPublish
  \/ PruneList \/ PruneDelete \/ PrunePublish
  \/ toolAutoClassifyCommand \/ \E t \in Tools : AutoClassifyRow(t)

(* What writes the table answers no request and leaves the engines alone.  *)
LEMMA WritersOnlyWrite ==
    ASSUME WriterStep \/ \E s \in Servers : RegistrationStep(s)
    PROVE  /\ UNCHANGED <<cache, eval>> /\ answer' = None
           /\ UNCHANGED <<table, harmful>> \/ Write(table')
<1>1. ASSUME NEW s \in Servers, RegistrationStep(s)
      PROVE  /\ UNCHANGED <<cache, eval>> /\ answer' = None
             /\ UNCHANGED <<table, harmful>> \/ Write(table')
  <2>1. ASSUME NEW t, NEW l, NEW a, Upsert(t, l, a) PROVE Write(table')
    BY <2>1, Zenon DEF Upsert, Write
  <2> QED
    BY <1>1, <2>1, Zenon DEF RegistrationStep, Register, SyncClassifications, Leave, ClassifyGet,
       ClassifyUpsert, ClassifyUpsertFails, ClassifyPublish, engine
<1>2. ASSUME WriterStep
      PROVE  /\ UNCHANGED <<cache, eval>> /\ answer' = None
             /\ UNCHANGED <<table, harmful>> \/ Write(table')
  <2>1. ASSUME NEW t, NEW l, NEW a, Upsert(t, l, a) PROVE Write(table')
    BY <2>1, Zenon DEF Upsert, Write
  <2>2. ASSUME NEW names, DeleteNotIn(names) PROVE Write(table')
    BY <2>2, Zenon DEF DeleteNotIn, Write
  <2> QED
    BY <1>2, <2>1, <2>2, Zenon DEF WriterStep, upsertToolClassification, toolClassifyCommand,
       AdminPublish, PruneList, PruneDelete, PrunePublish, toolAutoClassifyCommand,
       AutoClassifyRow, engine
<1> QED
  BY <1>1, <1>2, Zenon

LEMMA WritesKeepAges ==
    ASSUME Types, Ages, UNCHANGED <<cache, eval>>,
           UNCHANGED <<table, harmful>> \/ Write(table')
    PROVE  Ages'
<1>1. CASE UNCHANGED <<table, harmful>>
  BY <1>1, Zenon DEF Ages, Clean, Pending, Young, LevelIn
<1>2. CASE Write(table')
  <2>1. \A t \in Tools : harmful'[t] = harmful[t] \/ harmful'[t] = 0
    BY <1>2, Zenon DEF Write
  <2>2. Clean'
    BY <1>2, Zenon DEF Write, Clean, LevelIn
  <2>3. ASSUME NEW p \in Pods, NEW t \in Tools,
               cache[p][t] # NoEntry, cache[p][t].level # "destructive"
        PROVE  cache[p][t].left >= 0 /\ harmful'[t] + cache[p][t].left <= TTL
    <3>1. cache[p][t].left \in Int /\ harmful[t] \in Nat
      BY Zenon DEF Types, Entries
    <3>2. cache[p][t].left >= 0 /\ harmful[t] + cache[p][t].left <= TTL
      BY <2>3, Zenon DEF Ages, Young
    <3> QED
      BY <2>1, <3>1, <3>2, PolicyAssumption
  <2>4. ASSUME NEW p \in Pods, eval[p].phase = "set" PROVE eval[p].call.tool \in Tools
    BY <2>4, PolicyAssumption DEF Types, Evals, Idle
  <2>5. Pending'
    BY <2>1, <2>4, Zenon DEF Ages, Pending
  <2>6. Young'
    BY <2>3, Zenon DEF Young
  <2> QED
    BY <2>2, <2>5, <2>6, Zenon DEF Ages
<1> QED
  BY <1>1, <1>2, Zenon

EngineStep(p) ==
  \/ \E e \in inbox[p] : handle(p, e)
  \/ \E profs \in ProfileTables : ReplaceProfiles(p, profs)
  \/ \E c \in Calls : EvaluateHit(p, c) \/ EvaluateMiss(p, c)
  \/ EvaluateRead(p) \/ EvaluateSet(p)

LEMMA EnginesKeepAges ==
    ASSUME Types, Ages, NEW p \in Pods, EngineStep(p)
    PROVE  Ages'
<1>1. UNCHANGED <<table, harmful>>
  BY Zenon DEF EngineStep, handle, ReplaceProfiles, EvaluateHit, EvaluateMiss, EvaluateRead,
     EvaluateSet, writers
<1>2. Clean'
  BY <1>1, Zenon DEF Ages, Clean, LevelIn
<1>3. ASSUME NEW e \in inbox[p], handle(p, e) PROVE Young' /\ Pending'
  <2>1. \A q \in Pods, t \in Tools : cache'[q][t] = cache[q][t] \/ cache'[q][t] = NoEntry
    BY <1>3, Zenon DEF handle, Types
  <2>2. eval' = eval
    BY <1>3, Zenon DEF handle
  <2> QED
    BY <1>1, <2>1, <2>2, Zenon DEF Ages, Young, Pending
<1>4. ASSUME NEW profs \in ProfileTables, ReplaceProfiles(p, profs) PROVE Young' /\ Pending'
  BY <1>1, <1>4, Zenon DEF ReplaceProfiles, Ages, Young, Pending
<1>5. ASSUME NEW c \in Calls, EvaluateHit(p, c) PROVE Young' /\ Pending'
  BY <1>1, <1>5, Zenon DEF EvaluateHit, engine, Ages, Young, Pending
<1>6. ASSUME NEW c \in Calls, EvaluateMiss(p, c) PROVE Young' /\ Pending'
  <2>1. cache' = cache
    BY <1>6, Zenon DEF EvaluateMiss
  <2>2. \A q \in Pods : eval'[q] = eval[q] \/ eval'[q] = [phase |-> "read", call |-> c]
    BY <1>6, Zenon DEF EvaluateMiss, Types
  <2> QED
    BY <1>1, <2>1, <2>2 DEF Ages, Young, Pending
<1>7. CASE EvaluateRead(p)
  <2>1. cache' = cache
    BY <1>7, Zenon DEF EvaluateRead
  <2>2. eval[p].call.tool \in Tools
    BY <1>7, PolicyAssumption DEF EvaluateRead, Types, Evals, Idle
  <2>3. \A q \in Pods :
          \/ eval'[q] = eval[q] \/ eval'[q] = Idle
          \/ /\ table[eval[p].call.tool].row
             /\ eval'[q] = [phase |-> "set", call |-> eval[p].call,
                            level |-> table[eval[p].call.tool].level]
    BY <1>7, Zenon DEF EvaluateRead, Types
  <2>4. table[eval[p].call.tool].row
          => \/ table[eval[p].call.tool].level = "destructive"
             \/ harmful[eval[p].call.tool] = 0
    BY <2>2, Zenon DEF Ages, Clean, LevelIn
  <2>5. Pending'
    BY <1>1, <2>3, <2>4 DEF Ages, Pending, Idle
  <2> QED
    BY <1>1, <1>2, <2>1, <2>5, Zenon DEF Ages, Young
<1>8. CASE EvaluateSet(p)
  <2>1. \A q \in Pods : eval'[q] = eval[q] \/ eval'[q] = Idle
    BY <1>8, Zenon DEF EvaluateSet, Types
  <2>2. Pending'
    BY <1>1, <2>1 DEF Ages, Pending, Idle
  <2>3. \A q \in Pods, t \in Tools :
          \/ cache'[q][t] = cache[q][t]
          \/ t = eval[p].call.tool /\ cache'[q][t] = [level |-> eval[p].level, left |-> TTL]
    BY <1>8, Zenon DEF EvaluateSet, Types
  <2>4. eval[p].level = "destructive" \/ harmful[eval[p].call.tool] = 0
    BY <1>8, Zenon DEF EvaluateSet, Ages, Pending
  <2>5. Young'
    BY <1>1, <2>3, <2>4, PolicyAssumption DEF Ages, Young
  <2> QED
    BY <1>2, <2>2, <2>5, Zenon DEF Ages
<1> QED
  BY <1>2, <1>3, <1>4, <1>5, <1>6, <1>7, <1>8, Zenon DEF EngineStep, Ages

LEMMA TickKeepsAges == Types /\ Ages /\ Tick => Ages'
<1> SUFFICES ASSUME Types, Ages, Tick PROVE Ages'
  BY Zenon
<1>1. \A t \in Tools : LevelIn(table, t)' = LevelIn(table, t)
  BY Zenon DEF Tick, LevelIn
<1>2. Clean'
  BY <1>1, Zenon DEF Tick, Clean
<1>3. Pending'
  BY DEF Tick, Pending, Idle
<1>4. Young'
  <2> SUFFICES ASSUME NEW p \in Pods, NEW t \in Tools,
                      cache'[p][t] # NoEntry, cache'[p][t].level # "destructive"
               PROVE  cache'[p][t].left >= 0 /\ harmful'[t] + cache'[p][t].left <= TTL
    BY Zenon DEF Young
  <2>1. cache'[p][t] = Aged(cache[p][t])
    BY Zenon DEF Tick
  <2>2. cache[p][t] \in Entries /\ harmful[t] \in Nat
    BY Zenon DEF Types
  <2>3. cache[p][t].left > 0 /\ cache'[p][t] = [cache[p][t] EXCEPT !.left = @ - 1]
    BY <2>1, <2>2 DEF Aged, Entries
  <2>4. cache'[p][t].left = cache[p][t].left - 1 /\ cache'[p][t].level = cache[p][t].level
    BY <2>2, <2>3, Zenon DEF Entries
  <2>5. cache[p][t].left >= 0 /\ harmful[t] + cache[p][t].left <= TTL
    BY <2>3, <2>2, <2>4 DEF Ages, Young, NoEntry
  <2>6. harmful'[t] \in Nat /\ harmful'[t] <= harmful[t] + 1
    BY <2>2 DEF Tick
  <2>7. cache[p][t].left \in Int
    BY <2>2, Zenon DEF Entries
  <2> QED
    BY <2>2, <2>3, <2>4, <2>5, <2>6, <2>7, PolicyAssumption
<1> QED
  BY <1>2, <1>3, <1>4, Zenon DEF Ages

LEMMA NextIsAStep ==
    ASSUME Next
    PROVE  WriterStep \/ (\E s \in Servers : RegistrationStep(s))
           \/ (\E p \in Pods : EngineStep(p)) \/ Tick
  BY Zenon DEF Next, WriterStep, RegistrationStep, EngineStep

LEMMA AgesInductive == Types /\ Ages /\ [Next]_vars => Ages'
<1>1. Types /\ Ages /\ UNCHANGED vars => Ages'
  BY Zenon DEF vars, Ages, Clean, Pending, Young, LevelIn
<1> QED
  BY <1>1, NextIsAStep, WritersOnlyWrite, WritesKeepAges, EnginesKeepAges, TickKeepsAges, Zenon

LEMMA InitAges == Init => Ages
  BY DEF Init, Ages, Clean, Pending, Young, Idle

(* A decision that allows a call found no violation or only records them.  *)
LEMMA DecisionsAreClean ==
    ASSUME NEW p, NEW c, NEW level, NEW failed \in BOOLEAN, Decide(p, c, level, failed),
           failed \/ level = "destructive" \/ harmful'[c.tool] <= TTL
    PROVE  AllowedCallsAreClean'
<1> DEFINE prof == resolveProfile(profiles[p], c.profile)
<1>1. /\ answer'.call = c /\ answer'.profile = prof /\ answer'.failed = failed
      /\ answer'.allowed => /\ level # "destructive"
                            /\ buildDecision(collectViolations(prof, c), ModeInForce(prof))
  BY Zenon DEF Decide
<1> HIDE DEF prof
<1>2. SUFFICES ASSUME answer'.made, answer'.allowed, prof.mode # "audit"
               PROVE  /\ c.tool \notin prof.deny
                      /\ prof.allow = {} \/ c.tool \in prof.allow
                      /\ \A n \in DOMAIN c.args : \A v \in {c.args[n]} \cup c.args[n].elems :
                           "dangerous" \notin v.strings
                      /\ c.schema.state # "invalid"
                      /\ c.schema.state = "valid" => c.schema.required \subseteq DOMAIN c.args
  BY <1>1, Zenon DEF AllowedCallsAreClean
<1>3. collectViolations(prof, c) = {}
  BY <1>1, <1>2, Zenon DEF buildDecision, ModeInForce
<1>4. /\ c.tool \notin prof.deny
      /\ prof.allow = {} \/ c.tool \in prof.allow
      /\ CheckDangerous(c.args) = {}
      /\ ValidateArguments(c.args, c.schema) = {}
  BY <1>3, Zenon DEF collectViolations
<1>5. ASSUME NEW n \in DOMAIN c.args, NEW v \in {c.args[n]} \cup c.args[n].elems
      PROVE  "dangerous" \notin v.strings
  <2>1. "dangerous" \notin collectStrings(c.args[n])
    BY <1>4, Zenon DEF CheckDangerous
  <2> QED
    BY <2>1, Zenon DEF collectStrings
<1>6. /\ c.schema.state # "invalid"
      /\ c.schema.state = "valid" => c.schema.required \subseteq DOMAIN c.args
  BY <1>4, Zenon DEF ValidateArguments, validateRequired
<1> QED
  BY <1>4, <1>5, <1>6, Zenon

LEMMA EnginesDecideCleanly ==
    ASSUME Types, Ages, NEW p \in Pods, EngineStep(p)
    PROVE  AllowedCallsAreClean'
<1>1. harmful' = harmful
  BY Zenon DEF EngineStep, handle, ReplaceProfiles, EvaluateHit, EvaluateMiss, EvaluateRead,
     EvaluateSet, writers
<1>2. answer' = None => AllowedCallsAreClean'
  BY DEF None, AllowedCallsAreClean
<1>3. ASSUME NEW c \in Calls, EvaluateHit(p, c) PROVE AllowedCallsAreClean'
  <2>1. c.tool \in Tools
    BY PolicyAssumption, Zenon
  <2>2. cache[p][c.tool].left \in Int /\ harmful[c.tool] \in Nat
    BY <2>1, Zenon DEF Types, Entries
  <2>3. cache[p][c.tool].level = "destructive"
        \/ (cache[p][c.tool].left >= 0 /\ harmful[c.tool] + cache[p][c.tool].left <= TTL)
    BY <1>3, <2>1, Zenon DEF EvaluateHit, Ages, Young
  <2>4. cache[p][c.tool].level = "destructive" \/ harmful'[c.tool] <= TTL
    BY <1>1, <2>2, <2>3, PolicyAssumption
  <2> QED
    BY <1>3, <2>4, DecisionsAreClean, Zenon DEF EvaluateHit
<1>4. CASE EvaluateRead(p)
  <2> DEFINE c == eval[p].call
  <2>1. c.tool \in Tools
    BY <1>4, PolicyAssumption DEF EvaluateRead, Types, Evals, Idle
  <2>2. ASSUME ~table[c.tool].row PROVE AutoClassify(Tokens[c.tool]) = "destructive" \/ harmful'[c.tool] <= TTL
    BY <1>1, <2>1, <2>2, PolicyAssumption DEF Ages, Clean, LevelIn
  <2>3. \/ answer' = None
        \/ ~table[c.tool].row /\ Decide(p, c, AutoClassify(Tokens[c.tool]), FALSE)
        \/ Decide(p, c, "unknown", TRUE)
    BY <1>4, Zenon DEF EvaluateRead
  <2> HIDE DEF c
  <2> QED
    BY <1>2, <2>2, <2>3, DecisionsAreClean, Zenon
<1>5. CASE EvaluateSet(p)
  <2>1. eval[p].level = "destructive" \/ harmful'[eval[p].call.tool] <= TTL
    BY <1>1, <1>5, PolicyAssumption DEF EvaluateSet, Ages, Pending
  <2> QED
    BY <1>5, <2>1, DecisionsAreClean, Zenon DEF EvaluateSet
<1>6. CASE \/ \E e \in inbox[p] : handle(p, e)
           \/ \E profs \in ProfileTables : ReplaceProfiles(p, profs)
           \/ \E c \in Calls : EvaluateMiss(p, c)
  BY <1>2, <1>6, Zenon DEF handle, ReplaceProfiles, EvaluateMiss
<1> QED
  BY <1>3, <1>4, <1>5, <1>6, Zenon DEF EngineStep

(* However writes, lost broadcasts, late evaluations and cache entries     *)
(* interleave, a name that has been destructive for longer than the time   *)
(* to live is refused by every pod unless its lookup failed, and a call    *)
(* with a violation passes only under a profile in audit mode              *)
(* (Engine.Evaluate and resolveRiskLevel).                                 *)
THEOREM AllowedCallsStayClean == Spec => []AllowedCallsAreClean
<1> DEFINE Inv == Types /\ Ages /\ AllowedCallsAreClean
<1>1. answer = None => AllowedCallsAreClean
  BY DEF None, AllowedCallsAreClean
<1>2. Init => Inv
  BY <1>1, InitTypes, InitAges, Zenon DEF Init
<1>3. Inv /\ [Next]_vars => Inv'
  <2> SUFFICES ASSUME Inv, [Next]_vars PROVE AllowedCallsAreClean'
    BY StepTypes, AgesInductive, Zenon
  <2>1. answer' = None => AllowedCallsAreClean'
    BY DEF None, AllowedCallsAreClean
  <2>2. CASE UNCHANGED vars
    BY <2>2, Zenon DEF vars, AllowedCallsAreClean
  <2>3. CASE Tick
    BY <2>1, <2>3, Zenon DEF Tick
  <2> QED
    BY <2>1, <2>2, <2>3, NextIsAStep, WritersOnlyWrite, EnginesDecideCleanly, Zenon
<1>4. Inv => AllowedCallsAreClean
  BY Zenon
<1> QED
  BY <1>2, <1>3, <1>4, PTL DEF Spec

-----------------------------------------------------------------------------
(* The prune.                                                              *)

Gaps == prune.phase = "delete" => (Tools \ prune.keep) \subseteq gap

(* Only the delete of the prune takes rows away.                           *)
LEMMA RowsGoOnlyByPrune ==
    ASSUME Types, [Next]_vars, ~PruneDelete, NEW t \in Tools, table[t].row
    PROVE  table'[t].row
<1>1. ASSUME NEW u, NEW l, NEW a, Upsert(u, l, a) PROVE table'[t].row
  BY <1>1, Zenon DEF Upsert, Write, Row, Types
<1>2. ASSUME NEW s \in Servers, RegistrationStep(s) PROVE table'[t].row
  BY <1>1, <1>2, Zenon DEF RegistrationStep, Register, SyncClassifications, Leave, ClassifyGet,
     ClassifyUpsert, ClassifyUpsertFails, ClassifyPublish
<1>3. CASE WriterStep
  BY <1>1, <1>3, Zenon DEF WriterStep, upsertToolClassification, toolClassifyCommand, AdminPublish,
     PruneList, PrunePublish, toolAutoClassifyCommand, AutoClassifyRow
<1>4. ASSUME NEW p \in Pods, EngineStep(p) PROVE table'[t].row
  BY <1>4, Zenon DEF EngineStep, handle, ReplaceProfiles, EvaluateHit, EvaluateMiss, EvaluateRead,
     EvaluateSet, writers
<1>5. CASE Tick \/ UNCHANGED vars
  BY <1>5, Zenon DEF Tick, vars
<1> QED
  BY <1>2, <1>3, <1>4, <1>5, NextIsAStep, Zenon

LEMMA GapsInductive == Gaps /\ [Next]_vars => Gaps'
<1> SUFFICES ASSUME Gaps, [Next]_vars PROVE Gaps'
  BY Zenon
<1>1. ASSUME NEW s \in Servers, RegistrationStep(s) PROVE prune' = prune /\ gap \subseteq gap'
  BY <1>1, Zenon DEF RegistrationStep, Register, SyncClassifications, Leave, ClassifyGet,
     ClassifyUpsert, ClassifyUpsertFails, ClassifyPublish
<1>2. ASSUME WriterStep, ~PruneList, ~PruneDelete, ~PrunePublish
      PROVE  prune' = prune /\ gap \subseteq gap'
  BY <1>2, Zenon DEF WriterStep, upsertToolClassification, toolClassifyCommand, AdminPublish,
     toolAutoClassifyCommand, AutoClassifyRow
<1>3. ASSUME NEW p \in Pods, EngineStep(p) PROVE prune' = prune /\ gap \subseteq gap'
  BY <1>3, Zenon DEF EngineStep, handle, ReplaceProfiles, EvaluateHit, EvaluateMiss, EvaluateRead,
     EvaluateSet, writers
<1>4. CASE Tick \/ UNCHANGED vars
  BY <1>4, Zenon DEF Tick, vars, Gaps
<1>5. CASE PruneList \/ PruneDelete \/ PrunePublish
  BY <1>5 DEF PruneList, PruneDelete, PrunePublish, Gaps, Idle
<1>6. prune' = prune /\ gap \subseteq gap' => Gaps'
  BY Zenon DEF Gaps
<1> QED
  BY <1>1, <1>2, <1>3, <1>4, <1>5, <1>6, NextIsAStep, Zenon

(* However registrations, departures and other writers interleave with the *)
(* two halves of the prune (pruneOrphanedToolClassifications lists, then   *)
(* deletes), it takes the row of no tool that an active server exposed all *)
(* the while, and nothing else takes rows away.                            *)
THEOREM PruneSparesServed == Spec => PruneSparesServedTools
<1>1. Init => Types /\ Gaps
  BY InitTypes DEF Init, Gaps, Idle
<1>2. Types /\ Gaps /\ [Next]_vars => (Types /\ Gaps)'
  BY StepTypes, GapsInductive, Zenon
<1>3. ASSUME Types, Gaps, [Next]_vars, NEW t \in Tools, table[t].row, ~table'[t].row
      PROVE  t \in gap
  <2>1. PruneDelete
    BY <1>3, RowsGoOnlyByPrune, Zenon
  <2>2. t \notin prune.keep
    BY <1>3, <2>1, Zenon DEF PruneDelete, DeleteNotIn, Write
  <2> QED
    BY <1>3, <2>1, <2>2, Zenon DEF PruneDelete, Gaps
<1>4. Types /\ Gaps /\ [Next]_vars
        => [\A t \in Tools : (table[t].row /\ ~table'[t].row) => t \in gap]_vars
  BY <1>3, Zenon
<1> QED
  BY <1>1, <1>2, <1>4, PTL DEF Spec, PruneSparesServedTools

-----------------------------------------------------------------------------
(* Stale cache entries.                                                    *)

(* Whatever leaves the levels and the entries alone, keeps what is excused *)
(* and replaces a broadcast that was coming by another or by an excuse.    *)
LEMMA QuietStepsKeepDoom ==
    ASSUME StaleEntriesAreDoomed, UNCHANGED <<cache, table>>,
           \A p \in Pods, t \in Tools :
             (cache[p][t] # NoEntry /\ (<<p, t>> \in excused \/ Coming(p, t)))
               => (<<p, t>> \in excused' \/ Coming(p, t)')
    PROVE  StaleEntriesAreDoomed'
<1>1. \A t \in Tools : LevelIn(table, t)' = LevelIn(table, t)
  BY Zenon DEF LevelIn
<1> QED
  BY <1>1, Zenon DEF StaleEntriesAreDoomed

(* A write changes one tool's level, or is excused.                        *)
LEMMA UnannouncedWritesKeepDoom ==
    ASSUME StaleEntriesAreDoomed, UNCHANGED cache, Unannounced,
           \A p \in Pods, t \in Tools : Coming(p, t) => Coming(p, t)'
    PROVE  StaleEntriesAreDoomed'
<1> SUFFICES ASSUME NEW p \in Pods, NEW t \in Tools, cache[p][t] # NoEntry,
                    cache[p][t].level # LevelIn(table', t)
             PROVE  <<p, t>> \in excused' \/ Coming(p, t)'
  BY Zenon DEF StaleEntriesAreDoomed
<1>1. LevelIn(table, t) # LevelIn(table', t) => <<p, t>> \in excused'
  BY Zenon DEF Unannounced
<1>2. excused \subseteq excused'
  BY Zenon DEF Unannounced
<1> QED
  BY <1>1, <1>2, Zenon DEF StaleEntriesAreDoomed

LEMMA AnnouncedWritesKeepDoom ==
    ASSUME StaleEntriesAreDoomed, UNCHANGED <<cache, excused>>,
           \A p \in Pods, t \in Tools :
             IF LevelIn(table', t) = LevelIn(table, t)
             THEN Coming(p, t) => Coming(p, t)' ELSE Coming(p, t)'
    PROVE  StaleEntriesAreDoomed'
<1> SUFFICES ASSUME NEW p \in Pods, NEW t \in Tools, cache[p][t] # NoEntry,
                    cache[p][t].level # LevelIn(table', t)
             PROVE  <<p, t>> \in excused' \/ Coming(p, t)'
  BY Zenon DEF StaleEntriesAreDoomed
<1> QED
  BY Zenon DEF StaleEntriesAreDoomed

LEMMA UpsertChangesOneLevel ==
    ASSUME Types, NEW u \in Tools, NEW l, NEW a, Upsert(u, l, a), NEW t \in Tools, t # u
    PROVE  LevelIn(table', t) = LevelIn(table, t)
  BY Zenon DEF Types, Upsert, Write, LevelIn

(* A publication reaches a pod or excuses its entries.                     *)
LEMMA PublicationsReach ==
    ASSUME Types, NEW e, PublishClassification(e), NEW p \in Pods, NEW t \in Covers(e),
           cache[p][t] # NoEntry
    PROVE  <<p, t>> \in excused' \/ e \in inbox'[p]
  BY DEF PublishClassification, Types

LEMMA PublicationsOnlyAdd ==
    ASSUME NEW e, PublishClassification(e)
    PROVE  excused \subseteq excused' /\ \A p \in Pods : inbox[p] \subseteq inbox'[p]
  BY Zenon DEF PublishClassification

LEMMA RegistrationsKeepDoom ==
    ASSUME Types, StaleEntriesAreDoomed, NEW s \in Servers, RegistrationStep(s)
    PROVE  StaleEntriesAreDoomed'
<1>1. UNCHANGED <<cache, admin, prune>>
  BY Zenon DEF RegistrationStep, Register, SyncClassifications, Leave, ClassifyGet,
     ClassifyUpsert, ClassifyUpsertFails, ClassifyPublish, engine
<1>2. \A r \in Servers \ {s} : reg'[r] = reg[r]
  BY Zenon DEF RegistrationStep, Register, SyncClassifications, Leave, ClassifyGet,
     ClassifyUpsert, ClassifyUpsertFails, ClassifyPublish, StartClassifying, NextTool, Types
<1>3. ASSUME reg[s].phase # "publish", UNCHANGED inbox
      PROVE  \A p \in Pods, t \in Tools : Coming(p, t) => Coming(p, t)'
  BY <1>1, <1>2, <1>3, Zenon DEF Coming
<1>4. CASE Register(s) \/ SyncClassifications(s) \/ \E t \in Tools : ClassifyGet(s, t)
  <2>1. UNCHANGED <<inbox, table, excused>>
    BY <1>4, Zenon DEF Register, SyncClassifications, ClassifyGet
  <2>2. reg[s] = Idle \/ reg[s].phase = "get"
    BY <1>4, Zenon DEF Register, SyncClassifications, ClassifyGet
  <2>3. reg[s].phase # "publish"
    BY <2>2 DEF Idle
  <2> QED
    BY <1>1, <1>3, <2>1, <2>3, QuietStepsKeepDoom, Zenon
<1>5. CASE ClassifyUpsertFails(s)
  <2>1. reg[s].phase # "publish" /\ UNCHANGED <<inbox, table, excused>>
    BY <1>5, Zenon DEF ClassifyUpsertFails
  <2> QED
    BY <1>1, <1>3, <2>1, QuietStepsKeepDoom, Zenon
<1>6. CASE Leave(s)
  <2>1. UNCHANGED <<inbox, table, excused, reg>>
    BY <1>6, Zenon DEF Leave
  <2>2. \A p \in Pods, t \in Tools : Coming(p, t) => Coming(p, t)'
    BY <1>1, <2>1, Zenon DEF Coming
  <2> QED
    BY <1>1, <2>1, <2>2, QuietStepsKeepDoom, Zenon
<1>7. CASE ClassifyUpsert(s)
  <2>1. reg[s].phase = "upsert" /\ UNCHANGED inbox
    BY <1>7, Zenon DEF ClassifyUpsert
  <2>2. reg[s] \in [phase : {"upsert", "publish"}, todo : SUBSET Tools,
                    announce : BOOLEAN, tool : Tools]
    BY <2>1 DEF Types, Runs, Idle
  <2>3. reg[s].tool \in Tools
    BY <2>2, Zenon
  <2>4. \A p \in Pods, t \in Tools : Coming(p, t) => Coming(p, t)'
    BY <1>3, <2>1, Zenon
  <2>5. CASE ~reg[s].announce
    BY <1>1, <1>7, <2>4, <2>5, UnannouncedWritesKeepDoom, Zenon DEF ClassifyUpsert
  <2>6. CASE reg[s].announce
    <3>1. reg'[s] = [reg[s] EXCEPT !.phase = "publish"] /\ UNCHANGED excused
      BY <1>7, <2>6, Zenon DEF ClassifyUpsert, Types
    <3>2. reg'[s].phase = "publish" /\ reg'[s].tool = reg[s].tool
      BY <2>2, <3>1, Zenon
    <3>3. \A p \in Pods : Coming(p, reg[s].tool)'
      BY <3>2, Zenon DEF Coming
    <3>4. \A t \in Tools : t # reg[s].tool => LevelIn(table', t) = LevelIn(table, t)
      BY <1>7, <2>3, UpsertChangesOneLevel, Zenon DEF ClassifyUpsert
    <3> QED
      BY <1>1, <2>4, <3>1, <3>3, <3>4, AnnouncedWritesKeepDoom
  <2> QED
    BY <2>5, <2>6, Zenon
<1>8. CASE ClassifyPublish(s)
  <2> DEFINE e == reg[s].tool
  <2>1. PublishClassification(e) /\ UNCHANGED table
    BY <1>8, Zenon DEF ClassifyPublish
  <2> HIDE DEF e
  <2>2. ASSUME NEW p \in Pods, NEW t \in Tools, cache[p][t] # NoEntry, Coming(p, t)
        PROVE  <<p, t>> \in excused' \/ Coming(p, t)'
    <3>1. CASE t = e
      <4>1. t \in Covers(e)
        BY <3>1, Zenon DEF Covers
      <4> QED
        BY <2>1, <2>2, <3>1, <4>1, PublicationsReach, Zenon DEF Coming
    <3>2. CASE t # e
      BY <1>1, <1>2, <2>1, <2>2, <3>2, PublicationsOnlyAdd, Zenon DEF Coming, e
    <3> QED
      BY <3>1, <3>2, Zenon
  <2> QED
    BY <1>1, <2>1, <2>2, PublicationsOnlyAdd, QuietStepsKeepDoom, Zenon
<1> QED
  BY <1>4, <1>5, <1>6, <1>7, <1>8, Zenon DEF RegistrationStep

LEMMA WritersKeepDoom ==
    ASSUME Types, StaleEntriesAreDoomed, WriterStep
    PROVE  StaleEntriesAreDoomed'
<1>1. UNCHANGED <<cache, reg>>
  BY Zenon DEF WriterStep, upsertToolClassification, toolClassifyCommand, AdminPublish, PruneList,
     PruneDelete, PrunePublish, toolAutoClassifyCommand, AutoClassifyRow, engine
<1>2. ASSUME NEW t \in Tools, NEW l \in ManualLevels[t], upsertToolClassification(t, l)
      PROVE  StaleEntriesAreDoomed'
  <2>1. admin' = [phase |-> "publish", tool |-> t] /\ admin = Idle
        /\ UNCHANGED <<inbox, prune, excused>>
    BY <1>2, Zenon DEF upsertToolClassification
  <2>2. \A p \in Pods : Coming(p, t)'
    BY <2>1, Zenon DEF Coming
  <2>3. \A p \in Pods, u \in Tools : Coming(p, u) => Coming(p, u)'
    BY <1>1, <2>1, Zenon DEF Coming, Idle
  <2>4. \A u \in Tools : u # t => LevelIn(table', u) = LevelIn(table, u)
    BY <1>2, UpsertChangesOneLevel, Zenon DEF upsertToolClassification
  <2> QED
    BY <1>1, <2>1, <2>2, <2>3, <2>4, AnnouncedWritesKeepDoom, Zenon
<1>3. ASSUME UNCHANGED <<inbox, admin, prune>>
      PROVE  \A p \in Pods, t \in Tools : Coming(p, t) => Coming(p, t)'
  BY <1>1, <1>3, Zenon DEF Coming
<1>4. CASE \/ \E t \in Tools : \E l \in ManualLevels[t] : toolClassifyCommand(t, l)
           \/ \E t \in Tools : AutoClassifyRow(t)
  BY <1>1, <1>3, <1>4, UnannouncedWritesKeepDoom, Zenon DEF toolClassifyCommand, AutoClassifyRow
<1>5. CASE toolAutoClassifyCommand
  BY <1>1, <1>3, <1>5, QuietStepsKeepDoom, Zenon DEF toolAutoClassifyCommand
<1>6. CASE AdminPublish
  <2>1. PublishClassification(admin.tool) /\ UNCHANGED <<table, prune>>
    BY <1>6, Zenon DEF AdminPublish
  <2>2. ASSUME NEW p \in Pods, NEW t \in Tools, cache[p][t] # NoEntry, Coming(p, t)
        PROVE  <<p, t>> \in excused' \/ Coming(p, t)'
    <3>1. CASE t = admin.tool
      <4>1. t \in Covers(admin.tool)
        BY <3>1, Zenon DEF Covers
      <4> QED
        BY <2>1, <2>2, <3>1, <4>1, PublicationsReach, Zenon DEF Coming
    <3>2. CASE t # admin.tool
      BY <1>1, <2>1, <2>2, <3>2, PublicationsOnlyAdd, Zenon DEF Coming
    <3> QED
      BY <3>1, <3>2, Zenon
  <2> QED
    BY <1>1, <2>1, <2>2, PublicationsOnlyAdd, QuietStepsKeepDoom, Zenon
<1>7. CASE PruneList
  <2>1. UNCHANGED <<table, inbox, admin, excused>> /\ prune = Idle
    BY <1>7, Zenon DEF PruneList
  <2>2. \A p \in Pods, t \in Tools : Coming(p, t) => Coming(p, t)'
    BY <1>1, <2>1, Zenon DEF Coming, Idle
  <2> QED
    BY <1>1, <2>1, <2>2, QuietStepsKeepDoom, Zenon
<1>8. CASE PruneDelete
  <2>1. \A p \in Pods, t \in Tools : Coming(p, t)'
    BY <1>8, Zenon DEF PruneDelete, Coming
  <2> QED
    BY <2>1, Zenon DEF StaleEntriesAreDoomed
<1>9. CASE PrunePublish
  <2>1. PublishClassification("*") /\ UNCHANGED table
    BY <1>9, Zenon DEF PrunePublish
  <2>2. ASSUME NEW p \in Pods, NEW t \in Tools, cache[p][t] # NoEntry
        PROVE  <<p, t>> \in excused' \/ Coming(p, t)'
    <3>1. t \in Covers("*")
      BY Zenon DEF Covers
    <3> QED
      BY <2>1, <2>2, <3>1, PublicationsReach, Zenon DEF Coming
  <2> QED
    BY <1>1, <2>1, <2>2, QuietStepsKeepDoom, Zenon
<1> QED
  BY <1>2, <1>4, <1>5, <1>6, <1>7, <1>8, <1>9, Zenon DEF WriterStep

LEMMA EnginesKeepDoom ==
    ASSUME Types, StaleEntriesAreDoomed, NEW p \in Pods, EngineStep(p)
    PROVE  StaleEntriesAreDoomed'
<1>1. UNCHANGED <<table, reg, admin, prune>>
  BY Zenon DEF EngineStep, handle, ReplaceProfiles, EvaluateHit, EvaluateMiss, EvaluateRead,
     EvaluateSet, writers
<1>2. \A t \in Tools : LevelIn(table, t)' = LevelIn(table, t)
  BY <1>1, Zenon DEF LevelIn
<1>3. ASSUME UNCHANGED inbox
      PROVE  \A q \in Pods, t \in Tools : Coming(q, t) => Coming(q, t)'
  BY <1>1, <1>3, Zenon DEF Coming
<1>4. CASE \/ \E profs \in ProfileTables : ReplaceProfiles(p, profs)
           \/ \E c \in Calls : EvaluateHit(p, c) \/ EvaluateMiss(p, c)
           \/ EvaluateRead(p)
  <2>1. UNCHANGED <<inbox, cache, excused>>
    BY <1>4, Zenon DEF ReplaceProfiles, EvaluateHit, EvaluateMiss, EvaluateRead, engine
  <2> QED
    BY <1>1, <1>3, <2>1, QuietStepsKeepDoom, Zenon
<1>5. ASSUME NEW e \in inbox[p], handle(p, e) PROVE StaleEntriesAreDoomed'
  <2> SUFFICES ASSUME NEW q \in Pods, NEW t \in Tools, cache'[q][t] # NoEntry,
                      cache'[q][t].level # LevelIn(table, t)'
               PROVE  <<q, t>> \in excused' \/ Coming(q, t)'
    BY Zenon DEF StaleEntriesAreDoomed
  <2>1. cache'[q][t] = cache[q][t] /\ (q # p \/ t \notin Covers(e))
    BY <1>5, Zenon DEF handle, Types
  <2>2. <<q, t>> \in excused => <<q, t>> \in excused'
    BY <1>5, <2>1, Zenon DEF handle
  <2>3. q = p => e # t /\ e # "*"
    BY <2>1, Zenon DEF Covers
  <2>4. inbox[q] \cap {t, "*"} # {} => inbox'[q] \cap {t, "*"} # {}
    BY <1>5, <2>3, Zenon DEF handle, Types
  <2>5. Coming(q, t) => Coming(q, t)'
    BY <1>1, <2>4, Zenon DEF Coming
  <2> QED
    BY <1>2, <2>1, <2>2, <2>5, Zenon DEF StaleEntriesAreDoomed
<1>6. CASE EvaluateSet(p)
  <2> SUFFICES ASSUME NEW q \in Pods, NEW t \in Tools, cache'[q][t] # NoEntry,
                      cache'[q][t].level # LevelIn(table, t)'
               PROVE  <<q, t>> \in excused' \/ Coming(q, t)'
    BY Zenon DEF StaleEntriesAreDoomed
  <2>1. CASE q = p /\ t = eval[p].call.tool
    <3>1. cache'[q][t].level = eval[p].level
      BY <1>6, <2>1, Zenon DEF EvaluateSet, Types
    <3> QED
      BY <1>2, <1>6, <2>1, <3>1, Zenon DEF EvaluateSet
  <2>2. CASE ~(q = p /\ t = eval[p].call.tool)
    <3>1. cache'[q][t] = cache[q][t]
      BY <1>6, <2>2, Zenon DEF EvaluateSet, Types
    <3>2. <<q, t>> \in excused => <<q, t>> \in excused'
      BY <1>6, <2>2, Zenon DEF EvaluateSet
    <3>3. Coming(q, t) => Coming(q, t)'
      BY <1>3, <1>6, Zenon DEF EvaluateSet
    <3> QED
      BY <1>2, <3>1, <3>2, <3>3, Zenon DEF StaleEntriesAreDoomed
  <2> QED
    BY <2>1, <2>2, Zenon
<1> QED
  BY <1>4, <1>5, <1>6, Zenon DEF EngineStep

LEMMA TicksKeepDoom == Types /\ StaleEntriesAreDoomed /\ Tick => StaleEntriesAreDoomed'
<1> SUFFICES ASSUME Types, StaleEntriesAreDoomed, Tick,
                    NEW p \in Pods, NEW t \in Tools, cache'[p][t] # NoEntry,
                    cache'[p][t].level # LevelIn(table, t)'
             PROVE  <<p, t>> \in excused' \/ Coming(p, t)'
  BY Zenon DEF StaleEntriesAreDoomed
<1>1. LevelIn(table, t)' = LevelIn(table, t)
  BY Zenon DEF Tick, LevelIn
<1>2. cache[p][t] \in Entries
  BY Zenon DEF Types
<1>3. cache'[p][t] = Aged(cache[p][t])
  BY Zenon DEF Tick
<1>4. cache[p][t].left > 0 /\ cache'[p][t].level = cache[p][t].level
  BY <1>2, <1>3 DEF Aged, Entries
<1>5. cache[p][t] # NoEntry
  BY <1>4 DEF NoEntry
<1>6. <<p, t>> \in excused => <<p, t>> \in excused'
  BY Zenon DEF Tick
<1>7. Coming(p, t) => Coming(p, t)'
  BY Zenon DEF Tick, Coming
<1> QED
  BY <1>1, <1>4, <1>5, <1>6, <1>7, Zenon DEF StaleEntriesAreDoomed

(* Every handler that changes a level also sends the invalidation for it,  *)
(* in every order of writes, publications, deliveries and evaluations: a   *)
(* cache entry that disagrees with the store has a broadcast coming, or is *)
(* one of the named exceptions (classifyNewTools,                          *)
(* upsertToolClassification, pruneOrphanedToolClassifications and          *)
(* ClassificationSubscriber.handle).                                       *)
THEOREM StaleEntriesStayDoomed == Spec => []StaleEntriesAreDoomed
<1>1. Init => Types /\ StaleEntriesAreDoomed
  BY InitTypes DEF Init, StaleEntriesAreDoomed
<1>2. Types /\ StaleEntriesAreDoomed /\ [Next]_vars => (Types /\ StaleEntriesAreDoomed)'
  <2>1. StaleEntriesAreDoomed /\ UNCHANGED vars => StaleEntriesAreDoomed'
    BY DEF vars, StaleEntriesAreDoomed, Coming, LevelIn
  <2> QED
    BY <2>1, StepTypes, NextIsAStep, RegistrationsKeepDoom, WritersKeepDoom, EnginesKeepDoom,
       TicksKeepDoom
<1> QED
  BY <1>1, <1>2, PTL DEF Spec
=============================================================================
