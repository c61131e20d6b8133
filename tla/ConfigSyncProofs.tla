-------------------------- MODULE ConfigSyncProofs --------------------------
(***************************************************************************)
(* Proofs about ConfigSync, for any number of pods, versions and faults,   *)
(* and about Search, for any tools, metadata, queries, synonyms and page   *)
(* sizes.                                                                  *)
(*                                                                         *)
(* Two chains of facts are inductive.  Of the connection: the callbacks    *)
(* that have not run yet lead from Client.connected to the connection's    *)
(* state (Pending), a connection is given up only after it was lost        *)
(* (GivenUp), and the manager, once it exists, agrees with                 *)
(* Client.connected unless a callback ran before its handlers were set     *)
(* (Managed).  Of the metadata: what a pod has received is buffered,       *)
(* waiting to be replayed, in the handler or applied (Carried).            *)
(*                                                                         *)
(* Of the index: the lexical engines hold the documents of the current     *)
(* entries (Indexed), whatever the vectors hold.  What the pages show is   *)
(* then a fact about lists: a ranking has every scored tool once           *)
(* (RankedFacts), consecutive pages tile it (PagesTile), and a tool that   *)
(* is owed has a score (OwedIsScored).                                     *)
(***************************************************************************)
EXTENDS ConfigSync, Search, WellFoundedInduction, FiniteSetTheorems, TLAPS

Messages == Versions \ {None}

Types ==
    /\ TypeOK
    /\ inbox \in [Pods -> [Scopes -> Seq(Messages)]]
    /\ \A p \in Pods : handling[p].at # "none" => handling[p].v # None

-----------------------------------------------------------------------------
(* Types.                                                                  *)

\* The platform numbers its versions upwards.
LEMMA NewVersion ==
    ASSUME NEW l \in [Scopes -> Versions]
    PROVE  Max({l[t] : t \in Scopes}) + 1 \in Nat \ {0}
<1> DEFINE S == {l[Policy], l[Servers], l[Settings], l[Auth], l[Metadata]}
<1>1. {l[t] : t \in Scopes} = S
  BY Zenon DEF Scopes
<1>2. \A x \in S : x \in Nat
  BY BoundsAssumption DEF Scopes, Versions
<1>3. \E x \in S : \A y \in S : x >= y
  BY <1>2
<1>4. Max(S) \in S
  BY <1>3, Zenon DEF Max
<1> HIDE DEF S
<1>5. Max({l[t] : t \in Scopes}) \in Nat
  BY <1>1, <1>2, <1>4, Zenon
<1> QED  BY <1>5

\* The initial state is well-formed.
LEMMA InitTypes == Init => Types
  BY BoundsAssumption
  DEF Init, Types, TypeOK, Phases, Manager, NoManager, Handling, NotHandling, Versions, None, Empty,
      NoAnswer, Disconnected

\* So is every state that the start-up of a pod leads to.
LEMMA StartUpTypes ==
    ASSUME Types, NEW p \in Pods, Boot(p) \/ StartUp(p) \/ Restart(p)
    PROVE  Types'
<1> USE BoundsAssumption DEF Types, TypeOK
<1>1. CASE Boot(p)
  <2>1. /\ phase' \in [Pods -> Phases] /\ connected' \in [Pods -> BOOLEAN]
        /\ conn' \in [Pods -> {"none", "up", "lost", "closed"}]
    BY <1>1, Zenon DEF Boot, Phases
  <2>2. faults' \in 0 .. MaxFaults
    BY <1>1 DEF Boot, Fault
  <2> QED  BY <1>1, <2>1, <2>2, Zenon DEF Boot, metadata, platform
<1>2. CASE Subscribe(p) \/ Bind(p)
  BY <1>2, Zenon DEF Subscribe, Bind, Phases, link, metadata, platform
<1>3. CASE Manage(p)
  BY <1>3, Zenon DEF Manage, Phases, Manager, NoManager, Connected, Degraded, Disconnected, metadata, platform
<1>4. CASE Hook(p)
  BY <1>4, Zenon DEF Hook, Phases, metadata, platform
<1>5. CASE LoadCachedConfig(p)
  BY <1>5, Zenon DEF LoadCachedConfig, Phases, Manager, NoManager, Connected, Degraded, Disconnected, metadata, platform
<1>6. CASE SetOnUpdate(p)
  BY <1>6, Zenon DEF SetOnUpdate, Phases, link, platform
<1>7. CASE Replay(p)
  <2>1. applied' \in [Pods -> [Scopes -> Versions]]
    BY <1>7, Zenon DEF Replay
  <2>2. phase' \in [Pods -> Phases] /\ replay' \in [Pods -> Versions]
    BY <1>7 DEF Replay, Phases, Versions, None
  <2> QED  BY <1>7, <2>1, <2>2, Zenon DEF Replay, link, platform
<1>8. CASE Restart(p)
  BY <1>8 DEF Restart, Fault, Phases, Manager, NoManager, Handling, NotHandling, Versions, None, Empty,
              NoAnswer, Disconnected, platform
<1> QED  BY <1>1, <1>2, <1>3, <1>4, <1>5, <1>6, <1>7, <1>8, Zenon DEF StartUp

\* ... that the connection and its callbacks lead to ...
LEMMA LinkStepTypes ==
    ASSUME Types, NEW p \in Pods, Disconnect(p) \/ Reconnect(p) \/ RunCallback(p)
    PROVE  Types'
<1> USE BoundsAssumption DEF Types, TypeOK
<1>1. CASE Disconnect(p)
  BY <1>1 DEF Disconnect, Fault, Callbacks, metadata, platform
<1>2. CASE Reconnect(p)
  <2>1. callbacks' \in [Pods -> Seq(Callbacks)]
    <3>1. PICK e \in Callbacks : callbacks' = [callbacks EXCEPT ![p] = Append(@, e)]
      BY <1>2, Zenon DEF Reconnect, Callbacks
    <3> QED  BY <3>1
  <2>2. conn' \in [Pods -> {"none", "up", "lost", "closed"}]
    BY <1>2, Zenon DEF Reconnect
  <2> QED  BY <1>2, <2>1, <2>2, Zenon DEF Reconnect, metadata, platform
<1>3. CASE RunCallback(p)
  <2>1. callbacks' \in [Pods -> Seq(Callbacks)]
    BY <1>3 DEF RunCallback
  <2>2. connected' \in [Pods -> BOOLEAN] /\ missed' \in [Pods -> BOOLEAN]
    BY <1>3, Zenon DEF RunCallback
  <2>3. \A m \in Manager : OnDisconnect(m) \in Manager /\ OnReconnect(m) \in Manager
    BY Zenon DEF Manager, OnDisconnect, OnReconnect, Connected, Degraded
  <2>4. manager' \in [Pods -> Manager]
    BY <1>3, <2>3, Zenon DEF RunCallback
  <2>5. requests' \subseteq Pods
    BY <1>3, Zenon DEF RunCallback, SnapshotRequest
  <2> QED  BY <1>3, <2>1, <2>2, <2>4, <2>5, Zenon DEF RunCallback, metadata
<1> QED  BY <1>1, <1>2, <1>3, Zenon

\* ... that the platform leads to ...
LEMMA PlatformTypes ==
    ASSUME Types, (\E s \in Scopes : Publish(s)) \/ ReadSnapshot \/ SendSnapshot
    PROVE  Types'
<1> USE BoundsAssumption DEF Types, TypeOK
<1>1. ASSUME NEW s \in Scopes, Publish(s) PROVE Types'
  <2> DEFINE v == Max({latest[t] : t \in Scopes}) + 1
  <2>1. v \in Messages
    <3>1. v \in Nat \ {0}
      BY NewVersion, Zenon
    <3>2. v <= MaxVersion
      BY <1>1, Zenon DEF Publish
    <3> HIDE DEF v
    <3> QED  BY <3>1, <3>2 DEF Messages, Versions, None
  <2>2. latest' = [latest EXCEPT ![s] = v]
    BY <1>1, Zenon DEF Publish
  <2>3. inbox' = [p \in Pods |-> IF Received(p) THEN [inbox[p] EXCEPT ![s] = Append(@, v)] ELSE inbox[p]]
    BY <1>1, Zenon DEF Publish
  <2> HIDE DEF v
  <2>4. latest' \in [Scopes -> Versions]
    BY <2>1, <2>2, Zenon DEF Messages
  <2>5. inbox' \in [Pods -> [Scopes -> Seq(Messages)]]
    BY <2>1, <2>3
  <2>6. inbox' \in [Pods -> [Scopes -> Seq(Versions)]]
    BY <2>1, <2>3 DEF Messages
  <2> QED  BY <1>1, <2>4, <2>5, <2>6, Zenon DEF Publish, link, metadata
<1>2. CASE ReadSnapshot
  BY <1>2, Zenon DEF ReadSnapshot, link, metadata
<1>3. CASE SendSnapshot
  <2>1. \A s \in Scopes : answer[s] # None => answer[s] \in Messages
    BY Zenon DEF Messages
  <2>2. inbox' \in [Pods -> [Scopes -> Seq(Messages)]]
    BY <1>3, <2>1 DEF SendSnapshot
  <2>3. inbox' \in [Pods -> [Scopes -> Seq(Versions)]]
    BY <1>3 DEF SendSnapshot
  <2>4. answer' \in [Scopes -> Versions]
    BY <1>3 DEF SendSnapshot, NoAnswer, None, Versions
  <2> QED  BY <1>3, <2>2, <2>3, <2>4, Zenon DEF SendSnapshot, link, metadata
<1> QED  BY <1>1, <1>2, <1>3, Zenon

\* ... and that the handlers lead to.
LEMMA HandleTypes ==
    ASSUME Types, NEW p \in Pods, Handle(p)
    PROVE  Types'
<1> USE BoundsAssumption DEF Types, TypeOK
<1>0. ASSUME NEW s \in Scopes, inbox[p][s] # <<>>, inbox' = Taken(p, s)
      PROVE  /\ inbox' \in [Pods -> [Scopes -> Seq(Messages)]]
             /\ inbox' \in [Pods -> [Scopes -> Seq(Versions)]]
             /\ Next1(p, s) \in Messages
  BY <1>0 DEF Taken, Next1
<1>1. CASE HandlePolicy(p)
  <2>1. Policy \in Scopes
    BY Zenon DEF Scopes
  <2>2. applied' \in [Pods -> [Scopes -> Versions]]
    BY <1>0, <1>1, <2>1, Zenon DEF HandlePolicy, Messages
  <2> QED  BY <1>0, <1>1, <2>1, <2>2, Zenon DEF HandlePolicy, link, metadata, platform
<1>2. CASE HandleAuth(p)
  <2>1. Auth \in Scopes
    BY Zenon DEF Scopes
  <2> QED  BY <1>0, <1>2, <2>1, Zenon DEF HandleAuth, link, metadata, platform
<1>3. CASE HandleServers(p)
  <2>1. Servers \in Scopes
    BY Zenon DEF Scopes
  <2>2. applied' \in [Pods -> [Scopes -> Versions]]
    BY <1>0, <1>3, <2>1, Zenon DEF HandleServers, Messages
  <2> QED  BY <1>0, <1>3, <2>1, <2>2, Zenon DEF HandleServers, link, metadata, platform
<1>4. CASE HandleSettings(p)
  <2>1. Settings \in Scopes
    BY Zenon DEF Scopes
  <2>2. applied' \in [Pods -> [Scopes -> Versions]]
    BY <1>0, <1>4, <2>1, Zenon DEF HandleSettings, Messages
  <2> QED  BY <1>0, <1>4, <2>1, <2>2, Zenon DEF HandleSettings, link, metadata, platform
<1>5. CASE TakeMetadata(p)
  <2>1. Metadata \in Scopes
    BY Zenon DEF Scopes
  <2>2. handling' = [handling EXCEPT ![p] = [at |-> "save", v |-> Next1(p, Metadata)]]
    BY <1>5, Zenon DEF TakeMetadata
  <2>3. Next1(p, Metadata) \in Messages
    BY <1>0, <1>5, <2>1, Zenon DEF TakeMetadata
  <2>4. handling' \in [Pods -> Handling] /\ \A q \in Pods : handling'[q].at # "none" => handling'[q].v # None
    BY <2>2, <2>3, Zenon DEF Handling, Messages
  <2> QED  BY <1>0, <1>5, <2>1, <2>4, Zenon DEF TakeMetadata, link, platform
<1>6. CASE SaveMetadata(p)
  <2>1. handling' \in [Pods -> Handling] /\ \A q \in Pods : handling'[q].at # "none" => handling'[q].v # None
    BY <1>6, Zenon DEF SaveMetadata, Handling
  <2>2. cache' \in Versions /\ faults' \in 0 .. MaxFaults
    BY <1>6 DEF SaveMetadata, Handling, Fault
  <2> QED  BY <1>6, <2>1, <2>2, Zenon DEF SaveMetadata, link, platform
<1>7. CASE BufferMetadata(p)
  <2>1. handling' \in [Pods -> Handling] /\ \A q \in Pods : handling'[q].at # "none" => handling'[q].v # None
    BY <1>7 DEF BufferMetadata, Handling, NotHandling, Versions, None
  <2>2. buffered' \in [Pods -> Versions]
    BY <1>7, Zenon DEF BufferMetadata, Handling
  <2> QED  BY <1>7, <2>1, <2>2, Zenon DEF BufferMetadata, link, platform
<1>8. CASE ApplyMetadata(p)
  <2>1. handling' \in [Pods -> Handling] /\ \A q \in Pods : handling'[q].at # "none" => handling'[q].v # None
    BY <1>8 DEF ApplyMetadata, Handling, NotHandling, Versions, None
  <2>2. applied' \in [Pods -> [Scopes -> Versions]]
    BY <1>8, Zenon DEF ApplyMetadata, Handling
  <2> QED  BY <1>8, <2>1, <2>2, Zenon DEF ApplyMetadata, link, platform
<1> QED  BY <1>1, <1>2, <1>3, <1>4, <1>5, <1>6, <1>7, <1>8, Zenon DEF Handle

\* Versions, queues and handlers are well-formed in every reachable state.
LEMMA TypesInductive ==
    /\ Init => Types
    /\ Types /\ [Next]_vars => Types'
<1>1. Types /\ UNCHANGED vars => Types'
  BY Zenon DEF Types, TypeOK, vars
<1> QED  BY <1>1, InitTypes, StartUpTypes, LinkStepTypes, PlatformTypes, HandleTypes, Zenon DEF Next

-----------------------------------------------------------------------------
(* Settings.                                                               *)

\* For any number of pods, versions and faults, and in whatever order pushes,
\* snapshot answers, disconnections and restarts come, the settings in force
\* in a running pod never go back to an older config_version:
\* UpdateEffectiveSettings alone decides, and refuses what is older.
THEOREM SettingsAreMonotone == Spec => SettingsNeverGoBack
<1>1. ASSUME Types, [Next]_vars, NEW p \in Pods, phase'[p] # "down"
      PROVE  applied'[p][Settings] >= applied[p][Settings]
  <2> USE BoundsAssumption DEF Types, TypeOK
  <2>0. Settings \in Scopes /\ Settings # Policy /\ Settings # Servers /\ Settings # Metadata
    BY Zenon DEF Settings, Policy, Servers, Metadata, Scopes
  <2>1. applied[p][Settings] \in Nat
    BY <1>1, <2>0 DEF Versions
  <2>2. applied' = applied => applied'[p][Settings] >= applied[p][Settings]
    BY <2>1
  <2>3. ASSUME NEW q \in Pods, NEW s \in {Policy, Servers, Metadata}, NEW v,
               applied' = [applied EXCEPT ![q][s] = v]
        PROVE  applied'[p][Settings] = applied[p][Settings]
    BY <1>1, <2>0, <2>3, Zenon
  <2>4. ASSUME NEW q \in Pods, Boot(q) \/ StartUp(q)
        PROVE  applied'[p][Settings] >= applied[p][Settings]
    <3>1. CASE Replay(q)
      <4>1. applied' = applied \/ applied' = [applied EXCEPT ![q][Metadata] = replay[q]]
        BY <3>1, Zenon DEF Replay
      <4> QED  BY <2>1, <2>2, <2>3, <4>1
    <3>2. CASE ~Replay(q)
      BY <2>2, <2>4, <3>2, Zenon DEF Boot, StartUp, Subscribe, Manage, Hook, LoadCachedConfig, Bind, SetOnUpdate
    <3> QED  BY <3>1, <3>2, Zenon
  <2>5. ASSUME NEW q \in Pods, Restart(q)
        PROVE  applied'[p][Settings] >= applied[p][Settings]
    <3>1. q # p
      BY <1>1, <2>5, Zenon DEF Restart
    <3> QED  BY <1>1, <2>1, <2>5, <3>1 DEF Restart
  <2>6. ASSUME NEW q \in Pods, Disconnect(q) \/ Reconnect(q) \/ RunCallback(q)
        PROVE  applied'[p][Settings] >= applied[p][Settings]
    BY <2>2, <2>6, Zenon DEF Disconnect, Reconnect, RunCallback
  <2>7. ASSUME NEW q \in Pods, Handle(q)
        PROVE  applied'[p][Settings] >= applied[p][Settings]
    <3>1. CASE HandlePolicy(q) \/ HandleServers(q) \/ ApplyMetadata(q)
      BY <2>1, <2>2, <2>3, <3>1 DEF HandlePolicy, HandleServers, ApplyMetadata
    <3>2. CASE HandleSettings(q)
      <4>1. CASE applied' = applied
        BY <2>2, <4>1, Zenon
      <4>2. CASE q # p
        BY <1>1, <2>1, <3>2, <4>2 DEF HandleSettings
      <4>3. CASE q = p /\ applied' # applied
        BY <1>1, <2>0, <2>1, <3>2, <4>3, Zenon DEF HandleSettings, Fresh
      <4> QED  BY <4>1, <4>2, <4>3, Zenon
    <3>3. CASE HandleAuth(q) \/ TakeMetadata(q) \/ SaveMetadata(q) \/ BufferMetadata(q)
      BY <2>2, <3>3, Zenon DEF HandleAuth, TakeMetadata, SaveMetadata, BufferMetadata
    <3> QED  BY <2>7, <3>1, <3>2, <3>3, Zenon DEF Handle
  <2>8. CASE (\E s \in Scopes : Publish(s)) \/ ReadSnapshot \/ SendSnapshot \/ UNCHANGED vars
    BY <2>2, <2>8, Zenon DEF Publish, ReadSnapshot, SendSnapshot, vars
  <2> QED  BY <1>1, <2>4, <2>5, <2>6, <2>7, <2>8, Zenon DEF Next
<1>2. Types /\ [Next]_vars
        => [\A p \in Pods : phase'[p] # "down" => applied'[p][Settings] >= applied[p][Settings]]_vars
  BY <1>1, Zenon
<1> QED  BY <1>2, TypesInductive, PTL DEF Spec, SettingsNeverGoBack

-----------------------------------------------------------------------------
(* Readiness.                                                              *)

\* A pod has a connection from Boot on, or else never.
Linked(p) ==
    /\ phase[p] \in {"down", "fallback"} => conn[p] = "none"
    /\ phase[p] \in {"connected", "subscribed", "managed"} => conn[p] # "none"
    /\ conn[p] = "none" => callbacks[p] = <<>> /\ ~connected[p] /\ ~hooked[p]
    /\ hooked[p] => phase[p] \in {"served", "bound", "replay", "up"}

\* The callback of the connection's last change is the last one queued.
Event(c) == CASE c = "up" -> "reconnected" [] c = "lost" -> "disconnected" [] OTHER -> "closed"
Pending(p) ==
    conn[p] # "none" => IF callbacks[p] = <<>> THEN connected[p] <=> conn[p] = "up"
                        ELSE callbacks[p][Len(callbacks[p])] = Event(conn[p])

\* A connection is given up only after it was lost.
GivenUp(p) ==
    \A i \in 1 .. Len(callbacks[p]) :
        callbacks[p][i] = "closed" =>
            IF i = 1 THEN ~connected[p] ELSE callbacks[p][i-1] = "disconnected"

\* The manager follows Client.connected unless a callback came too early.
Managed(p) ==
    conn[p] # "none" /\ ~missed[p] =>
        /\ ~hooked[p] => connected[p]
        /\ phase[p] \in {"managed", "served", "bound", "replay", "up"}
              => /\ manager[p].status = Connected <=> connected[p]
                 /\ manager[p].ever

LinkTyping ==
    /\ phase \in [Pods -> Phases]
    /\ conn \in [Pods -> {"none", "up", "lost", "closed"}]
    /\ connected \in [Pods -> BOOLEAN]
    /\ callbacks \in [Pods -> Seq(Callbacks)]
    /\ hooked \in [Pods -> BOOLEAN]
    /\ missed \in [Pods -> BOOLEAN]
    /\ manager \in [Pods -> Manager]

LinkInv == \A p \in Pods : Linked(p) /\ Pending(p) /\ GivenUp(p) /\ Managed(p)

\* A pod's link facts depend on its own link variables and phase.
LEMMA OtherLinks ==
    ASSUME LinkInv, NEW p \in Pods,
           \A q \in Pods \ {p} :
               /\ phase'[q] = phase[q] /\ conn'[q] = conn[q] /\ connected'[q] = connected[q]
               /\ callbacks'[q] = callbacks[q] /\ hooked'[q] = hooked[q]
               /\ missed'[q] = missed[q] /\ manager'[q] = manager[q],
           Linked(p)', Pending(p)', GivenUp(p)', Managed(p)'
    PROVE  LinkInv'
<1> SUFFICES ASSUME NEW q \in Pods, q # p
             PROVE  (Linked(q) /\ Pending(q) /\ GivenUp(q) /\ Managed(q))'
  BY Zenon DEF LinkInv
<1> QED  BY DEF LinkInv, Linked, Pending, GivenUp, Managed

\* What RunCallback leaves of the queue.
LEMMA TailOf ==
    ASSUME NEW s \in Seq(Callbacks), s # <<>>
    PROVE  /\ Len(Tail(s)) = Len(s) - 1
           /\ \A i \in 1 .. Len(s) - 1 : Tail(s)[i] = s[i+1]
           /\ Len(s) \in Nat \ {0}
           /\ Tail(s) = <<>> <=> Len(s) = 1
           /\ Head(s) = s[1]
<1>1. Len(s) \in Nat \ {0} /\ Head(s) = s[1]
  OBVIOUS
<1>2. /\ Len(Tail(s)) = Len(s) - 1 /\ Tail(s) \in Seq(Callbacks)
      /\ \A i \in 1 .. Len(s) - 1 : Tail(s)[i] = s[i+1]
  OBVIOUS
<1>3. Tail(s) = <<>> <=> Len(Tail(s)) = 0
  BY <1>2
<1> QED  BY <1>1, <1>2, <1>3

\* What NATS adds to it.
LEMMA AppendOf ==
    ASSUME NEW s \in Seq(Callbacks), NEW e \in Callbacks
    PROVE  /\ Len(Append(s, e)) = Len(s) + 1
           /\ Append(s, e) # <<>>
           /\ Append(s, e)[Len(s) + 1] = e
           /\ \A i \in 1 .. Len(s) : Append(s, e)[i] = s[i]
           /\ Len(s) \in Nat
           /\ s = <<>> <=> Len(s) = 0
  OBVIOUS

\* The start-up keeps the link facts ...
LEMMA StartUpLinks ==
    ASSUME Types, LinkInv, NEW p \in Pods, Boot(p) \/ StartUp(p) \/ Restart(p)
    PROVE  LinkInv'
<1>t. LinkTyping
  BY Zenon DEF Types, TypeOK, LinkTyping
<1> USE <1>t DEF LinkTyping
<1>0. Linked(p) /\ Pending(p) /\ GivenUp(p) /\ Managed(p)
  BY Zenon DEF LinkInv
<1>1. CASE Boot(p)
  <2>1. /\ UNCHANGED <<callbacks, hooked, missed, manager>>
        /\ \/ phase'[p] = "connected" /\ conn'[p] = "up" /\ connected'[p]
           \/ phase'[p] = "fallback" /\ conn'[p] = conn[p] /\ connected'[p] = connected[p]
    BY <1>1, Zenon DEF Boot
  <2>2. phase[p] = "down" /\ conn[p] = "none" /\ callbacks[p] = <<>> /\ ~hooked[p]
    BY <1>0, <1>1, Zenon DEF Boot, Linked
  <2>3. Linked(p)' /\ Pending(p)'
    BY <1>0, <2>1, <2>2, Zenon DEF Linked, Pending
  <2>4. GivenUp(p)' /\ Managed(p)'
    BY <2>1, <2>2 DEF GivenUp, Managed
  <2> QED  BY <1>1, <2>3, <2>4, OtherLinks, Zenon DEF Boot
<1>2. CASE Subscribe(p) \/ Bind(p)
  <2>1. /\ UNCHANGED <<conn, connected, callbacks, hooked, missed, manager>>
        /\ \/ phase[p] = "connected" /\ phase'[p] = "subscribed"
           \/ phase[p] = "served" /\ phase'[p] = "bound"
    BY <1>2, Zenon DEF Subscribe, Bind, link
  <2>2. Linked(p)' /\ Pending(p)' /\ GivenUp(p)' /\ Managed(p)'
    BY <1>0, <2>1, Zenon DEF Linked, Pending, GivenUp, Managed
  <2> QED  BY <1>2, <2>1, <2>2, OtherLinks, Zenon DEF Subscribe, Bind
<1>3. CASE Manage(p)
  <2>1. ~hooked[p]
    BY <1>0, <1>3, Zenon DEF Manage, Linked
  <2>2. Linked(p)' /\ Pending(p)' /\ GivenUp(p)'
    BY <1>0, <1>3, <2>1, Zenon DEF Manage, Linked, Pending, GivenUp
  <2>3. Managed(p)'
    BY <1>0, <1>3, <2>1, Zenon DEF Manage, Managed, NoManager, Connected, Disconnected
  <2> QED  BY <1>3, <2>2, <2>3, OtherLinks, Zenon DEF Manage
<1>4. CASE Hook(p)
  <2>1. /\ phase[p] = "managed" /\ phase'[p] = "served" /\ hooked'[p]
        /\ UNCHANGED <<conn, connected, callbacks, missed, manager>>
    BY <1>4, Zenon DEF Hook
  <2>2. ~hooked[p]
    BY <1>0, <2>1, Zenon DEF Linked
  <2>3. Linked(p)' /\ Pending(p)' /\ GivenUp(p)'
    BY <1>0, <2>1, Zenon DEF Linked, Pending, GivenUp
  <2>4. Managed(p)'
    BY <1>0, <2>1, <2>2, Zenon DEF Managed
  <2>5. \A q \in Pods \ {p} : phase'[q] = phase[q] /\ hooked'[q] = hooked[q]
    BY <1>4, Zenon DEF Hook
  <2> QED  BY <2>1, <2>3, <2>4, <2>5, OtherLinks, Zenon
<1>5. CASE LoadCachedConfig(p)
  <2>1. /\ phase[p] = "fallback" /\ phase'[p] = "served"
        /\ UNCHANGED <<conn, connected, callbacks, hooked, missed>>
    BY <1>5, Zenon DEF LoadCachedConfig
  <2>2. conn[p] = "none"
    BY <1>0, <2>1, Zenon DEF Linked
  <2>3. Linked(p)' /\ Pending(p)' /\ GivenUp(p)' /\ Managed(p)'
    BY <1>0, <2>1, <2>2, Zenon DEF Linked, Pending, GivenUp, Managed
  <2> QED  BY <1>5, <2>1, <2>3, OtherLinks, Zenon DEF LoadCachedConfig
<1>6. CASE SetOnUpdate(p) \/ Replay(p)
  <2>1. /\ UNCHANGED <<conn, connected, callbacks, hooked, missed, manager>>
        /\ \/ phase[p] = "bound" /\ phase'[p] = "replay"
           \/ phase[p] = "replay" /\ phase'[p] = "up"
    BY <1>6, Zenon DEF SetOnUpdate, Replay, link
  <2>2. Linked(p)' /\ Pending(p)' /\ GivenUp(p)' /\ Managed(p)'
    BY <1>0, <2>1, Zenon DEF Linked, Pending, GivenUp, Managed
  <2> QED  BY <1>6, <2>1, <2>2, OtherLinks, Zenon DEF SetOnUpdate, Replay
<1>7. CASE Restart(p)
  <2>1. /\ phase'[p] = "down" /\ conn'[p] = "none" /\ ~connected'[p]
        /\ callbacks'[p] = <<>> /\ ~hooked'[p]
    BY <1>7, Zenon DEF Restart
  <2>2. Linked(p)' /\ Pending(p)' /\ GivenUp(p)' /\ Managed(p)'
    BY <2>1 DEF Linked, Pending, GivenUp, Managed
  <2>3. \A q \in Pods \ {p} :
          /\ phase'[q] = phase[q] /\ conn'[q] = conn[q] /\ connected'[q] = connected[q]
          /\ callbacks'[q] = callbacks[q] /\ hooked'[q] = hooked[q]
          /\ missed'[q] = missed[q] /\ manager'[q] = manager[q]
    BY <1>7 DEF Restart
  <2> QED  BY <2>2, <2>3, OtherLinks, Zenon
<1> QED  BY <1>1, <1>2, <1>3, <1>4, <1>5, <1>6, <1>7, Zenon DEF StartUp

\* ... and so do the connection and its callbacks.
LEMMA ConnectionLinks ==
    ASSUME Types, LinkInv, NEW p \in Pods, Disconnect(p) \/ Reconnect(p) \/ RunCallback(p)
    PROVE  LinkInv'
<1>t. LinkTyping
  BY Zenon DEF Types, TypeOK, LinkTyping
<1> USE <1>t DEF LinkTyping
<1>0. /\ Linked(p) /\ Pending(p) /\ GivenUp(p) /\ Managed(p)
      /\ callbacks[p] \in Seq(Callbacks)
  BY Zenon DEF LinkInv
<1>1. CASE Disconnect(p) \/ Reconnect(p)
  <2>1. PICK c \in {"up", "lost", "closed"} :
          /\ conn' = [conn EXCEPT ![p] = c]
          /\ callbacks' = [callbacks EXCEPT ![p] = Append(callbacks[p], Event(c))]
          /\ c = "closed" => conn[p] = "lost"
          /\ conn[p] # "none"
    BY <1>1, Zenon DEF Disconnect, Reconnect, Event
  <2>2. Event(c) \in Callbacks /\ (Event(c) = "closed" <=> c = "closed")
    BY Zenon DEF Event, Callbacks
  <2>3. conn'[p] = c /\ callbacks'[p] = Append(callbacks[p], Event(c))
    BY <2>1, Zenon
  <2>4. UNCHANGED <<phase, connected, hooked, missed, manager>>
    BY <1>1, Zenon DEF Disconnect, Reconnect
  <2>5. Linked(p)' /\ Managed(p)'
    BY <1>0, <2>1, <2>3, <2>4, Zenon DEF Linked, Managed
  <2>6. Pending(p)'
    <3> DEFINE cs == callbacks[p]
               ev == Event(c)
    <3>0. /\ Append(cs, ev) # <<>> /\ Len(Append(cs, ev)) = Len(cs) + 1
          /\ Append(cs, ev)[Len(cs) + 1] = ev
      <4> HIDE DEF cs, ev
      <4> QED  BY <1>0, <2>2, AppendOf, Zenon DEF cs, ev
    <3>1. callbacks'[p] # <<>> /\ callbacks'[p][Len(callbacks'[p])] = Event(c)
      BY <2>3, <3>0, Zenon
    <3> QED  BY <2>3, <3>1, Zenon DEF Pending
  <2>7. GivenUp(p)'
    <3> SUFFICES ASSUME NEW i \in 1 .. Len(callbacks[p]) + 1, callbacks'[p][i] = "closed"
                 PROVE  IF i = 1 THEN ~connected[p] ELSE callbacks'[p][i-1] = "disconnected"
      BY <1>0, <2>2, <2>3, <2>4, AppendOf DEF GivenUp
    <3>1. CASE i <= Len(callbacks[p])
      <4>1. i \in 1 .. Len(callbacks[p]) /\ callbacks'[p][i] = callbacks[p][i]
        BY <1>0, <2>2, <2>3, <3>1, AppendOf
      <4>2. IF i = 1 THEN ~connected[p] ELSE callbacks[p][i-1] = "disconnected"
        BY <1>0, <4>1, Zenon DEF GivenUp
      <4>3. i # 1 => callbacks'[p][i-1] = callbacks[p][i-1]
        BY <1>0, <2>2, <2>3, <4>1, AppendOf
      <4> QED  BY <4>2, <4>3, Zenon
    <3>2. CASE i = Len(callbacks[p]) + 1
      <4>1. conn[p] = "lost"
        BY <1>0, <2>1, <2>2, <2>3, <3>2, AppendOf, Zenon
      <4>2. IF callbacks[p] = <<>> THEN ~connected[p]
            ELSE callbacks[p][Len(callbacks[p])] = "disconnected"
        BY <1>0, <4>1, Zenon DEF Pending, Event
      <4> QED  BY <1>0, <2>2, <2>3, <3>2, <4>2, AppendOf
    <3>3. Len(callbacks[p]) \in Nat
      BY <1>0
    <3> QED  BY <3>1, <3>2, <3>3
  <2> QED  BY <2>1, <2>4, <2>5, <2>6, <2>7, OtherLinks, Zenon
<1>2. CASE RunCallback(p)
  <2> DEFINE e == callbacks[p][1]
  <2>1. /\ callbacks[p] # <<>> /\ callbacks'[p] = Tail(callbacks[p])
        /\ connected'[p] = (callbacks[p][1] = "reconnected")
        /\ missed'[p] = (missed[p] \/ ~hooked[p])
        /\ UNCHANGED <<phase, conn, hooked>>
    BY <1>0, <1>2, TailOf, Zenon DEF RunCallback
  <2>2. conn[p] # "none"
    BY <1>0, <2>1, Zenon DEF Linked
  <2>3. Linked(p)'
    BY <1>0, <2>1, <2>2, Zenon DEF Linked
  <2>4. Pending(p)'
    <3>1. CASE Len(callbacks[p]) = 1
      <4>1. callbacks[p][1] = Event(conn[p])
        BY <1>0, <2>1, <2>2, <3>1, Zenon DEF Pending
      <4>2. callbacks'[p] = <<>>
        BY <1>0, <2>1, <3>1, TailOf, Zenon
      <4> QED  BY <2>1, <2>2, <4>1, <4>2, Zenon DEF Pending, Event
    <3>2. CASE Len(callbacks[p]) # 1
      <4>1. callbacks[p][Len(callbacks[p])] = Event(conn[p])
        BY <1>0, <2>1, <2>2, Zenon DEF Pending
      <4>2. /\ callbacks'[p] # <<>> /\ Len(callbacks'[p]) = Len(callbacks[p]) - 1
            /\ Len(callbacks[p]) \in Nat \ {0, 1}
        BY <1>0, <2>1, <3>2, TailOf, Zenon
      <4>3. callbacks'[p][Len(callbacks'[p])] = callbacks[p][Len(callbacks[p])]
        BY <1>0, <2>1, <4>2, TailOf
      <4> QED  BY <2>1, <4>1, <4>2, <4>3, Zenon DEF Pending
    <3> QED  BY <3>1, <3>2, Zenon
  <2>5. GivenUp(p)'
    <3> SUFFICES ASSUME NEW i \in 1 .. Len(callbacks[p]) - 1, callbacks[p][i+1] = "closed"
                 PROVE  IF i = 1 THEN ~connected'[p] ELSE callbacks[p][i] = "disconnected"
      BY <1>0, <2>1, TailOf DEF GivenUp
    <3>1. i + 1 \in 1 .. Len(callbacks[p]) /\ i + 1 # 1 /\ (i + 1) - 1 = i
      BY <1>0, <2>1, TailOf
    <3>2. callbacks[p][i] = "disconnected"
      BY <1>0, <3>1, Zenon DEF GivenUp
    <3> QED  BY <2>1, <3>2, Zenon
  <2>6. Managed(p)'
    <3> SUFFICES ASSUME hooked[p], ~missed[p] PROVE Managed(p)'
      BY <2>1, Zenon DEF Managed
    <3>1. phase[p] \in {"served", "bound", "replay", "up"}
      BY <1>0, Zenon DEF Linked
    <3>2. manager[p] \in Manager /\ (manager[p].status = Connected <=> connected[p]) /\ manager[p].ever
      BY <1>0, <2>2, <3>1, Zenon DEF Managed
    <3>3. CASE callbacks[p][1] = "closed"
      <4>1. ~connected[p] /\ ~connected'[p]
        BY <1>0, <2>1, <3>3, TailOf DEF GivenUp
      <4>2. manager'[p] = manager[p]
        BY <1>0, <1>2, <2>1, <3>3, TailOf, Zenon DEF RunCallback
      <4> QED  BY <2>1, <3>2, <4>1, <4>2, Zenon DEF Managed
    <3>4. CASE callbacks[p][1] = "reconnected"
      <4>1. manager'[p] = OnReconnect(manager[p])
        BY <1>0, <1>2, <2>1, <3>4, TailOf, Zenon DEF RunCallback
      <4> QED  BY <2>1, <3>2, <3>4, <4>1, Zenon DEF Managed, OnReconnect, Manager
    <3>5. CASE callbacks[p][1] = "disconnected"
      <4>1. manager'[p] = OnDisconnect(manager[p])
        BY <1>0, <1>2, <2>1, <3>5, TailOf, Zenon DEF RunCallback
      <4> QED  BY <2>1, <3>2, <3>5, <4>1, Zenon DEF Managed, OnDisconnect, Manager, Connected, Degraded
    <3>6. callbacks[p][1] \in Callbacks
      BY <1>0, <2>1
    <3> QED  BY <3>3, <3>4, <3>5, <3>6, Zenon DEF Callbacks
  <2> QED  BY <1>2, <2>3, <2>4, <2>5, <2>6, OtherLinks, Zenon DEF RunCallback
<1> QED  BY <1>1, <1>2, Zenon

\* Nothing else touches them.
LEMMA LinksInductive ==
    /\ Init => LinkInv
    /\ Types /\ LinkInv /\ [Next]_vars => LinkInv'
<1>1. Init => LinkInv
  BY DEF Init, LinkInv, Linked, Pending, GivenUp, Managed
<1>2. Types /\ LinkInv /\ [Next]_vars => LinkInv'
  <2> SUFFICES ASSUME Types, LinkInv, [Next]_vars PROVE LinkInv'
    BY Zenon
  <2>1. CASE UNCHANGED <<phase, link>>
    BY <2>1 DEF link, LinkInv, Linked, Pending, GivenUp, Managed
  <2>2. ASSUME NEW p \in Pods, Handle(p) PROVE UNCHANGED <<phase, link>>
    BY <2>2, Zenon DEF Handle, HandlePolicy, HandleAuth, HandleServers, HandleSettings, TakeMetadata,
                SaveMetadata, BufferMetadata, ApplyMetadata
  <2>3. CASE (\E s \in Scopes : Publish(s)) \/ ReadSnapshot \/ SendSnapshot
    BY <2>1, <2>3, Zenon DEF Publish, ReadSnapshot, SendSnapshot
  <2>4. CASE UNCHANGED vars
    BY <2>1, <2>4, Zenon DEF vars, link
  <2> QED  BY <2>1, <2>2, <2>3, <2>4, StartUpLinks, ConnectionLinks, Zenon DEF Next
<1> QED  BY <1>1, <1>2, Zenon

\* For any number of pods, disconnections and reconnections: when its callbacks
\* have run, /readyz of a serving pod tells the state of its connection and
\* stays 200 through outages, unless a callback ran before server.New had set
\* the handlers.
THEOREM ReadinessIsReported == Spec => []ReadinessIsTrue
<1>1. Types /\ LinkInv => ReadinessIsTrue
  <2> SUFFICES ASSUME Types, LinkInv, NEW p \in Pods,
                      phase[p] = "up", hooked[p], ~missed[p], callbacks[p] = <<>>
               PROVE  /\ manager[p].status = Connected <=> conn[p] = "up"
                      /\ manager[p].ever
    BY DEF ReadinessIsTrue, handleReady
  <2>1. conn[p] # "none" /\ (connected[p] <=> conn[p] = "up")
    BY Zenon DEF LinkInv, Linked, Pending
  <2> QED  BY <2>1, Zenon DEF LinkInv, Managed
<1> QED  BY <1>1, TypesInductive, LinksInductive, PTL DEF Spec

-----------------------------------------------------------------------------
(* Metadata.                                                               *)

\* What a pod has buffered is applied, or is about to be.
Carried(p) ==
    /\ inbox[p][Metadata] # <<>> \/ handling[p].at # "none" => conn[p] # "none"
    /\ phase[p] \in {"replay", "up"} =>
          /\ conn[p] # "none" => callback[p]
          /\ buffered[p] # None =>
                \/ applied[p][Metadata] # None
                \/ phase[p] = "replay" /\ replay[p] # None
                \/ handling[p].at = "call"

MetadataTyping ==
    /\ phase \in [Pods -> Phases]
    /\ conn \in [Pods -> {"none", "up", "lost", "closed"}]
    /\ inbox \in [Pods -> [Scopes -> Seq(Messages)]]
    /\ applied \in [Pods -> [Scopes -> Versions]]
    /\ buffered \in [Pods -> Versions]
    /\ callback \in [Pods -> BOOLEAN]
    /\ replay \in [Pods -> Versions]
    /\ handling \in [Pods -> Handling]
    /\ \A p \in Pods : handling[p].at # "none" => handling[p].v # None

MetadataInv == \A p \in Pods : Carried(p)

\* A pod's metadata depends on its own variables.
LEMMA OtherMetadata ==
    ASSUME MetadataInv, NEW p \in Pods,
           \A q \in Pods \ {p} :
               /\ phase'[q] = phase[q] /\ conn'[q] = conn[q] /\ inbox'[q] = inbox[q]
               /\ handling'[q] = handling[q] /\ callback'[q] = callback[q]
               /\ buffered'[q] = buffered[q] /\ applied'[q] = applied[q] /\ replay'[q] = replay[q],
           Carried(p)'
    PROVE  MetadataInv'
  BY DEF MetadataInv, Carried

\* The start-up installs the callback and replays what came before it.
LEMMA StartUpCarries ==
    ASSUME Types, LinkInv, MetadataInv, NEW p \in Pods, Boot(p) \/ StartUp(p) \/ Restart(p)
    PROVE  MetadataInv'
<1>t. MetadataTyping
  BY Zenon DEF Types, TypeOK, MetadataTyping
<1> USE <1>t DEF MetadataTyping
<1>0. Carried(p)
  BY Zenon DEF MetadataInv
<1>1. CASE Boot(p)
  BY <1>0, <1>1, OtherMetadata, Zenon DEF Boot, Carried, metadata
<1>2. CASE Subscribe(p) \/ Bind(p)
  <2>1. UNCHANGED <<conn, inbox, applied, metadata>> /\ phase'[p] \in {"subscribed", "bound"}
    BY <1>2, Zenon DEF Subscribe, Bind, link
  <2>2. Carried(p)'
    BY <1>0, <2>1, Zenon DEF Carried, metadata
  <2> QED  BY <1>2, <2>1, <2>2, OtherMetadata, Zenon DEF Subscribe, Bind, metadata
<1>3. CASE Manage(p) \/ Hook(p) \/ LoadCachedConfig(p)
  <2>1. UNCHANGED <<conn, inbox, applied, metadata>> /\ phase'[p] \in {"managed", "served"}
    BY <1>3, Zenon DEF Manage, Hook, LoadCachedConfig
  <2>2. Carried(p)'
    BY <1>0, <2>1, Zenon DEF Carried, metadata
  <2> QED  BY <1>3, <2>1, <2>2, OtherMetadata, Zenon DEF Manage, Hook, LoadCachedConfig, metadata
<1>4. CASE SetOnUpdate(p)
  BY <1>0, <1>4, OtherMetadata, Zenon DEF SetOnUpdate, Carried, link
<1>5. CASE Replay(p)
  <2>1. Metadata \in Scopes
    BY Zenon DEF Scopes
  <2>2. applied'[p][Metadata] = IF replay[p] # None THEN replay[p] ELSE applied[p][Metadata]
    BY <1>5, <2>1, Zenon DEF Replay
  <2>3. Carried(p)'
    <3>1. phase[p] = "replay" /\ phase'[p] = "up" /\ UNCHANGED <<conn, inbox, buffered, callback, handling>>
      BY <1>5, Zenon DEF Replay, link
    <3>2. buffered'[p] # None => applied'[p][Metadata] # None \/ handling'[p].at = "call"
      BY <1>0, <2>2, <3>1, Zenon DEF Carried
    <3>3. conn'[p] # "none" => callback'[p]
      BY <1>0, <3>1, Zenon DEF Carried
    <3> HIDE <1>t DEF MetadataTyping
    <3>4. inbox'[p][Metadata] # <<>> \/ handling'[p].at # "none" => conn'[p] # "none"
      BY <1>0, <3>1, Zenon DEF Carried
    <3>5. phase'[p] \in {"replay", "up"} /\ phase'[p] # "replay"
      BY <3>1, Zenon
    <3> QED  BY <3>2, <3>3, <3>4, <3>5, Zenon DEF Carried
  <2>4. \A q \in Pods \ {p} : applied'[q] = applied[q]
    BY <1>5, Zenon DEF Replay
  <2> QED  BY <1>5, <2>3, <2>4, OtherMetadata, Zenon DEF Replay, link
<1>6. CASE Restart(p)
  <2>1. Carried(p)'
    BY <1>6, Zenon DEF Restart, Carried, Empty, NotHandling, Scopes
  <2> QED  BY <1>6, <2>1, OtherMetadata, Zenon DEF Restart
<1> QED  BY <1>1, <1>2, <1>3, <1>4, <1>5, <1>6, Zenon DEF StartUp

\* The handlers move metadata towards the index.
LEMMA HandleCarries ==
    ASSUME Types, MetadataInv, NEW p \in Pods, Handle(p)
    PROVE  MetadataInv'
<1>t. MetadataTyping
  BY Zenon DEF Types, TypeOK, MetadataTyping
<1> USE <1>t DEF MetadataTyping
<1>0. Carried(p) /\ Metadata \in Scopes
  BY Zenon DEF MetadataInv, Scopes
<1>1. CASE HandlePolicy(p) \/ HandleAuth(p) \/ HandleServers(p) \/ HandleSettings(p)
  <2>1. PICK s \in Scopes \ {Metadata} :
          /\ inbox' = Taken(p, s)
          /\ applied' = applied \/ applied' = [applied EXCEPT ![p][s] = Next1(p, s)]
          /\ UNCHANGED <<phase, link, metadata>>
    BY <1>1, Zenon DEF HandlePolicy, HandleAuth, HandleServers, HandleSettings, Scopes,
                Policy, Auth, Servers, Settings, Metadata
  <2>2. inbox'[p][Metadata] = inbox[p][Metadata] /\ applied'[p][Metadata] = applied[p][Metadata]
    BY <1>0, <2>1 DEF Taken
  <2>3. \A q \in Pods \ {p} : inbox'[q] = inbox[q] /\ applied'[q] = applied[q]
    BY <2>1, Zenon DEF Taken
  <2>4. Carried(p)'
    BY <1>0, <2>1, <2>2, Zenon DEF Carried, link, metadata
  <2> QED  BY <2>1, <2>3, <2>4, OtherMetadata, Zenon DEF link, metadata
<1>2. CASE TakeMetadata(p)
  <2>1. \A q \in Pods \ {p} : inbox'[q] = inbox[q] /\ handling'[q] = handling[q]
    BY <1>2, Zenon DEF TakeMetadata, Taken
  <2>2. handling[p].at # "call" /\ conn[p] # "none"
    BY <1>0, <1>2 DEF TakeMetadata, NotHandling, Carried
  <2>3. Carried(p)'
    BY <1>0, <1>2, <2>2, Zenon DEF TakeMetadata, Carried, link
  <2> QED  BY <1>2, <2>1, <2>3, OtherMetadata, Zenon DEF TakeMetadata, link
<1>3. CASE SaveMetadata(p)
  <2>1. handling'[p].at = "buffer"
    BY <1>3, Zenon DEF SaveMetadata, Handling
  <2>2. Carried(p)'
    BY <1>0, <1>3, <2>1, Zenon DEF SaveMetadata, Carried, link
  <2> QED  BY <1>3, <2>2, OtherMetadata, Zenon DEF SaveMetadata, link
<1>4. CASE BufferMetadata(p)
  <2>1. conn[p] # "none"
    BY <1>0, <1>4, Zenon DEF BufferMetadata, Carried
  <2>2. callback[p] => handling'[p].at = "call"
    BY <1>4, Zenon DEF BufferMetadata, Handling
  <2>3. Carried(p)'
    BY <1>0, <1>4, <2>1, <2>2, Zenon DEF BufferMetadata, Carried, link
  <2> QED  BY <1>4, <2>3, OtherMetadata, Zenon DEF BufferMetadata, link
<1>5. CASE ApplyMetadata(p)
  <2>1. applied'[p][Metadata] = handling[p].v /\ handling[p].v # None
    BY <1>0, <1>5, Zenon DEF ApplyMetadata
  <2>2. Carried(p)'
    <3>1. handling'[p].at = "none" /\ UNCHANGED <<phase, conn, inbox, buffered, callback, replay>>
      BY <1>5, Zenon DEF ApplyMetadata, link, NotHandling
    <3>2. applied'[p][Metadata] # None
      BY <2>1, Zenon
    <3> HIDE <1>t DEF MetadataTyping
    <3>3. inbox'[p][Metadata] # <<>> => conn'[p] # "none"
      BY <1>0, <3>1, Zenon DEF Carried
    <3>4. phase'[p] \in {"replay", "up"} => (conn'[p] # "none" => callback'[p])
      BY <1>0, <3>1, Zenon DEF Carried
    <3> QED  BY <3>1, <3>2, <3>3, <3>4, Zenon DEF Carried
  <2>3. \A q \in Pods \ {p} : applied'[q] = applied[q]
    BY <1>5, Zenon DEF ApplyMetadata
  <2> QED  BY <1>5, <2>2, <2>3, OtherMetadata, Zenon DEF ApplyMetadata, link
<1> QED  BY <1>1, <1>2, <1>3, <1>4, <1>5, Zenon DEF Handle

\* For any number of pods and messages: a serving pod whose handler is idle has
\* applied tool metadata if it has received any, whether the messages came
\* before the callback was installed, during the replay or after it.
THEOREM MetadataIsNotLost == Spec => []MetadataIsApplied
<1>1. Init => MetadataInv
  BY DEF Init, MetadataInv, Carried, Empty, NotHandling, Scopes
<1>2. Types /\ LinkInv /\ MetadataInv /\ [Next]_vars => MetadataInv'
  <2> SUFFICES ASSUME Types, LinkInv, MetadataInv, [Next]_vars PROVE MetadataInv'
    BY Zenon
  <2>0. Metadata \in Scopes
    BY Zenon DEF Scopes
  <2>1. ASSUME NEW p \in Pods, Disconnect(p) \/ Reconnect(p) \/ RunCallback(p) PROVE MetadataInv'
    <3>1. UNCHANGED <<phase, inbox, applied, metadata>>
      BY <2>1, Zenon DEF Disconnect, Reconnect, RunCallback
    <3>2. \A q \in Pods : conn'[q] # "none" <=> conn[q] # "none"
      BY <2>1, Zenon DEF Disconnect, Reconnect, RunCallback, Types, TypeOK
    <3> QED  BY <3>1, <3>2, Zenon DEF MetadataInv, Carried, metadata
  <2>2. ASSUME (\E s \in Scopes : Publish(s)) \/ SendSnapshot PROVE MetadataInv'
    <3>1. UNCHANGED <<phase, conn, applied, metadata>>
      BY <2>2, Zenon DEF Publish, SendSnapshot, link
    <3>2. \A q \in Pods : conn[q] = "none" => inbox'[q] = inbox[q]
      BY <2>2, Zenon DEF Publish, SendSnapshot, Received
    <3> QED  BY <3>1, <3>2, Zenon DEF MetadataInv, Carried, metadata
  <2>3. CASE ReadSnapshot \/ UNCHANGED vars
    <3>1. UNCHANGED <<phase, conn, inbox, applied, metadata>>
      BY <2>3, Zenon DEF ReadSnapshot, link, vars, metadata
    <3> QED  BY <3>1, Zenon DEF MetadataInv, Carried, metadata
  <2> QED  BY <2>1, <2>2, <2>3, StartUpCarries, HandleCarries, Zenon DEF Next
<1>3. MetadataInv => MetadataIsApplied
  BY DEF MetadataInv, Carried, MetadataIsApplied, NotHandling
<1> QED  BY <1>1, <1>2, <1>3, TypesInductive, LinksInductive, PTL DEF Spec

-----------------------------------------------------------------------------
(* Search.  Numbers and rankings.                                          *)

\* A non-empty set of numbers has a least one.
LEMMA Least ==
    ASSUME NEW T, T \subseteq Nat, T # {}
    PROVE  \E x \in T : \A y \in T : x <= y
<1>1. IsWellFoundedOn({ss \in Nat \X Nat : ss[1] < ss[2]}, Nat)
  BY NatLessThanWellFounded, Zenon DEF OpToRel
<1>2. PICK x \in T : \A y \in T : ~ (<<y, x>> \in {ss \in Nat \X Nat : ss[1] < ss[2]})
  BY <1>1, WFMin, Zenon
<1>3. \A y \in T : ~(y < x)
  BY <1>2, Zenon
<1> QED
  BY <1>3

\* Induction, stated of a set.
LEMMA Induction ==
    ASSUME NEW T, 0 \in T, \A n \in Nat : n \in T => n + 1 \in T
    PROVE  Nat \subseteq T
<1> SUFFICES ASSUME Nat \ T # {} PROVE FALSE
  BY Zenon
<1>1. PICK x \in Nat \ T : \A y \in Nat \ T : x <= y
  BY Least, Zenon
<1>2. x # 0 /\ x - 1 \in Nat
  BY <1>1
<1>3. x - 1 \in T
  BY <1>1, <1>2
<1> QED
  BY <1>1, <1>2, <1>3

\* Clamping.
LEMMA MinOfTwo ==
    ASSUME NEW a \in Int, NEW b \in Int
    PROVE  Min({a, b}) = IF a <= b THEN a ELSE b
<1> DEFINE m == IF a <= b THEN a ELSE b
<1>1. m \in {a, b} /\ \A y \in {a, b} : m <= y
  OBVIOUS
<1>2. \A x \in {a, b} : (\A y \in {a, b} : x <= y) => x = m
  OBVIOUS
<1> HIDE DEF m
<1>3. Min({a, b}) = m
  BY <1>1, <1>2, Zenon DEF Min
<1> QED
  BY <1>3, Zenon DEF m

LEMMA MaxOfTwo ==
    ASSUME NEW a \in Int, NEW b \in Int
    PROVE  Max({a, b}) = IF a >= b THEN a ELSE b
<1> DEFINE m == IF a >= b THEN a ELSE b
<1>1. m \in {a, b} /\ \A y \in {a, b} : m >= y
  OBVIOUS
<1>2. \A x \in {a, b} : (\A y \in {a, b} : x >= y) => x = m
  OBVIOUS
<1> HIDE DEF m
<1>3. Max({a, b}) = m
  BY <1>1, <1>2, Zenon DEF Max
<1> QED
  BY <1>3, Zenon DEF m

LEMMA Intervals ==
    ASSUME NEW n \in Nat
    PROVE  IsFiniteSet(1..n) /\ Cardinality(1..n) = n
<1>1. IsFiniteSet(1..n) /\ Cardinality(1..n) = IF 1 > n THEN 0 ELSE n - 1 + 1
  BY FS_Interval
<1> QED
  BY <1>1

\* What is ranked: whole scores of tools, finitely many.
Scores(f) == IsFiniteSet(DOMAIN f) /\ DOMAIN f \subseteq Int /\ \A t \in DOMAIN f : f[t] \in Int

\* No two tools have the same rank.
LEMMA RanksDiffer ==
    ASSUME NEW f, Scores(f), NEW t \in DOMAIN f, NEW u \in DOMAIN f, t # u
    PROVE  Cardinality(Before(f, t)) # Cardinality(Before(f, u))
<1>1. ASSUME NEW v \in DOMAIN f, NEW w \in DOMAIN f, w \in Before(f, v)
      PROVE  Cardinality(Before(f, v)) # Cardinality(Before(f, w))
  <2>1. f[v] \in Int /\ f[w] \in Int /\ v \in Int /\ w \in Int
        /\ \A x \in DOMAIN f : x \in Int /\ f[x] \in Int
    BY Zenon DEF Scores
  <2>2. f[w] > f[v] \/ (f[w] = f[v] /\ w < v)
    BY <1>1, Zenon DEF Before
  <2>3. ASSUME NEW x \in Before(f, w) PROVE x \in Before(f, v)
    <3>1. x \in DOMAIN f /\ (f[x] > f[w] \/ (f[x] = f[w] /\ x < w))
      BY Zenon DEF Before
    <3>2. f[x] > f[v] \/ (f[x] = f[v] /\ x < v)
      BY <2>1, <2>2, <3>1
    <3> QED
      BY <3>1, <3>2, Zenon DEF Before
  <2>4. w \notin Before(f, w)
    <3>1. ~(f[w] > f[w] \/ (f[w] = f[w] /\ w < w))
      BY <2>1
    <3> QED
      BY <3>1, Zenon DEF Before
  <2>5. Before(f, w) \in SUBSET Before(f, v) /\ Before(f, v) # Before(f, w)
    BY <1>1, <2>3, <2>4, Zenon
  <2>6. IsFiniteSet(Before(f, v))
    <3>1. Before(f, v) \in SUBSET DOMAIN f /\ IsFiniteSet(DOMAIN f)
      BY Zenon DEF Before, Scores
    <3> QED
      BY <3>1, FS_Subset, Zenon
  <2> QED
    BY <2>5, <2>6, FS_Subset, Zenon
<1>2. t \in Before(f, u) \/ u \in Before(f, t)
  <2>1. f[t] \in Int /\ f[u] \in Int /\ t \in Int /\ u \in Int
    BY Zenon DEF Scores
  <2>2. \/ f[t] > f[u] \/ (f[t] = f[u] /\ t < u)
        \/ f[u] > f[t] \/ (f[u] = f[t] /\ u < t)
    BY <2>1
  <2> QED
    BY <2>2, Zenon DEF Before
<1> QED
  BY <1>1, <1>2, Zenon

\* sort.Slice with a total order lists everything once.
LEMMA RankedFacts ==
    ASSUME NEW f, Scores(f)
    PROVE  LET n == Cardinality(DOMAIN f) IN
           /\ n \in Nat /\ Ranked(f) \in Seq(DOMAIN f) /\ Len(Ranked(f)) = n
           /\ \A i, j \in 1..n : Ranked(f)[i] = Ranked(f)[j] => i = j
           /\ Range(Ranked(f)) = DOMAIN f
<1> DEFINE D == DOMAIN f
           n == Cardinality(D)
           R == [t \in D |-> Cardinality(Before(f, t)) + 1]
<1>1. IsFiniteSet(D) /\ n \in Nat
  BY FS_CardinalityType, Zenon DEF Scores
<1>2. ASSUME NEW t \in D
      PROVE  Cardinality(Before(f, t)) \in Nat /\ Cardinality(Before(f, t)) + 1 \in 1..n
  <2> DEFINE B == Before(f, t)
             E == D \ {t}
  <2>1. B \in SUBSET E
    <3>1. f[t] \in Int /\ t \in Int
      BY <1>2, Zenon DEF Scores
    <3>2. ~(f[t] > f[t]) /\ ~(t < t)
      BY <3>1
    <3> QED
      BY <3>2, Zenon DEF Before
  <2>2. IsFiniteSet(E) /\ Cardinality(E) = n - 1
    BY <1>1, <1>2, FS_RemoveElement
  <2> HIDE DEF B, E, n
  <2>3. IsFiniteSet(B) /\ Cardinality(B) <= Cardinality(E)
    BY <2>1, <2>2, FS_Subset, Zenon
  <2>4. Cardinality(B) \in Nat
    BY <2>3, FS_CardinalityType, Zenon
  <2>5. Cardinality(B) + 1 \in 1..n
    BY <1>1, <2>2, <2>3, <2>4
  <2> QED
    BY <2>4, <2>5, Zenon DEF B
<1>3. \A t, u \in D : Cardinality(Before(f, t)) = Cardinality(Before(f, u)) => t = u
  BY RanksDiffer, Zenon
<1>4. IsFiniteSet(1..n) /\ Cardinality(1..n) = n
  BY <1>1, Intervals, Zenon
<1>5. \A i \in 1..n : \E t \in D : Cardinality(Before(f, t)) = i - 1
  <2> HIDE DEF D
  <2>1. \A t \in D : R[t] = Cardinality(Before(f, t)) + 1
    BY Zenon
  <2>2. R \in [D -> 1..n]
    BY <1>2, Zenon
  <2>3. ASSUME NEW t \in D, NEW u \in D, R[t] = R[u] PROVE t = u
    <3>1. Cardinality(Before(f, t)) + 1 = Cardinality(Before(f, u)) + 1
      BY <2>1, <2>3, Zenon
    <3>2. Cardinality(Before(f, t)) = Cardinality(Before(f, u))
      BY <1>2, <3>1
    <3> QED
      BY <1>3, <3>2, Zenon
  <2> HIDE DEF R
  <2>4. R \in Injection(D, 1..n)
    BY <2>2, <2>3, Zenon DEF Injection, IsInjective
  <2>5. R \in Surjection(D, 1..n)
    BY <1>4, <2>4, FS_Injection, Zenon
  <2>6. ASSUME NEW i \in 1..n PROVE \E t \in D : Cardinality(Before(f, t)) = i - 1
    <3>1. PICK t \in D : R[t] = i
      BY <2>5, Zenon DEF Surjection
    <3>2. Cardinality(Before(f, t)) + 1 = i /\ Cardinality(Before(f, t)) \in Nat
      BY <1>2, <2>1, <3>1, Zenon
    <3>3. Cardinality(Before(f, t)) = i - 1
      BY <3>2
    <3> QED
      BY <3>3, Zenon
  <2> QED
    BY <2>6, Zenon
<1> DEFINE q == Ranked(f)
<1>6. q = [i \in 1..n |-> CHOOSE t \in D : Cardinality(Before(f, t)) = i - 1]
  BY Zenon DEF Ranked
<1>7. \A i \in 1..n : q[i] \in D /\ Cardinality(Before(f, q[i])) = i - 1
  BY <1>5, <1>6, Zenon
<1> HIDE DEF R, q, D
<1>8. q \in [1..n -> D]
  BY <1>6, <1>7, Zenon
<1> HIDE DEF n
<1>9. q \in Seq(D) /\ Len(q) = n /\ DOMAIN q = 1..n
  BY <1>1, <1>8
<1>10. \A i, j \in 1..n : q[i] = q[j] => i = j
  <2> SUFFICES ASSUME NEW i \in 1..n, NEW j \in 1..n, q[i] = q[j] PROVE i = j
    BY Zenon
  <2>1. i - 1 = j - 1
    BY <1>7, Zenon
  <2> QED
    BY <1>1, <2>1
<1>11. ASSUME NEW t \in D PROVE \E i \in 1..n : q[i] = t
  <2> DEFINE i == Cardinality(Before(f, t)) + 1
  <2>1. i \in 1..n /\ i - 1 = Cardinality(Before(f, t))
    BY <1>2
  <2>2. q[i] \in D /\ Cardinality(Before(f, q[i])) = Cardinality(Before(f, t))
    BY <1>7, <2>1, Zenon
  <2> QED
    BY <1>3, <2>1, <2>2, Zenon
<1>12. Range(q) = D
  BY <1>7, <1>9, <1>11, Zenon DEF Range
<1> QED
  BY <1>1, <1>9, <1>10, <1>12, Zenon DEF q, n, D

-----------------------------------------------------------------------------
(* Pages.                                                                  *)

\* Multiples of a page size grow with the number of the page.
LEMMA Multiples ==
    ASSUME NEW per \in Nat \ {0}
    PROVE  /\ \A k \in Nat : k * per \in Nat /\ (k + 1) * per = k * per + per /\ k <= k * per
           /\ \A j, k \in Nat : j < k => (j + 1) * per <= k * per
<1>1. ASSUME NEW k \in Nat PROVE k * per \in Nat /\ (k + 1) * per = k * per + per /\ k <= k * per
  <2>1. PICK m \in Nat : per = m + 1
    <3>1. per - 1 \in Nat /\ per = (per - 1) + 1
      OBVIOUS
    <3> QED
      BY <3>1, Zenon
  <2>2. k * per = k * m + k /\ k * m \in Nat
    BY <2>1
  <2>3. (k + 1) * per = k * per + per
    OBVIOUS
  <2> QED
    BY <2>2, <2>3
<1>2. ASSUME NEW j \in Nat, NEW k \in Nat, j < k PROVE (j + 1) * per <= k * per
  <2>1. PICK i \in Nat : k = (j + 1) + i
    <3>1. k - (j + 1) \in Nat /\ k = (j + 1) + (k - (j + 1))
      BY <1>2
    <3> QED
      BY <3>1, Zenon
  <2>2. k * per = (j + 1) * per + i * per
    BY <2>1
  <2>3. i * per \in Nat /\ (j + 1) * per \in Nat
    BY <1>1
  <2> QED
    BY <2>2, <2>3
<1> QED
  BY <1>1, <1>2, Zenon

\* What a page shows.
LEMMA PageFacts ==
    ASSUME NEW D, NEW s \in Seq(D), NEW per \in Nat \ {0}, NEW o \in Nat
    PROVE  LET g == paginateScored(s, o, per) IN
           /\ DOMAIN g = {i \in 1..per : o + i <= Len(s)}
           /\ \A i \in DOMAIN g : g[i] = s[o + i]
<1> DEFINE n == Len(s)
           e == Min({o + per, n})
           g == SubSeq(s, o + 1, e)
<1>1. n \in Nat /\ o + per \in Int
  OBVIOUS
<1>2. Max({o, 0}) = o /\ e = IF o + per <= n THEN o + per ELSE n
  <2>1. Max({o, 0}) = IF o >= 0 THEN o ELSE 0
    BY MaxOfTwo
  <2>2. e = IF o + per <= n THEN o + per ELSE n
    BY <1>1, MinOfTwo
  <2> QED
    BY <2>1, <2>2
<1>3. paginateScored(s, o, per) = g
  BY <1>2, Zenon DEF paginateScored
<1>4. e \in Nat /\ e <= n /\ e <= o + per /\ (e = n \/ e = o + per)
  BY <1>1, <1>2
<1> HIDE DEF e
<1>5. g = [i \in 1..(e - o) |-> s[o + i]]
  <2>1. CASE e >= o + 1
    BY <1>1, <1>4, <2>1
  <2>2. CASE ~(e >= o + 1)
    BY <1>1, <1>4, <2>2
  <2> QED
    BY <2>1, <2>2
<1> HIDE DEF g, n
<1>6. DOMAIN g = 1..(e - o) /\ \A i \in 1..(e - o) : g[i] = s[o + i]
  BY <1>5, Zenon
<1>7. 1..(e - o) = {i \in 1..per : o + i <= n}
  BY <1>1, <1>4
<1> QED
  BY <1>3, <1>6, <1>7, Zenon DEF n

\* The first pages of a list.
PagesUpTo(s, per, count) == [p \in 1..count |-> paginateScored(s, (p - 1) * per, per)]

\* The places on pages, and what is shown at them.
Places(pages) == UNION {{<<p, i>> : i \in DOMAIN pages[p]} : p \in DOMAIN pages}
ShownOn(pages) == [x \in Places(pages) |-> pages[x[1]][x[2]]]

\* Consecutive pages show everything, each in one place.
LEMMA PagesTile ==
    ASSUME NEW D, NEW s \in Seq(D), NEW per \in Nat \ {0}, NEW N \in Nat, Len(s) <= N,
           \A i, j \in 1..Len(s) : s[i] = s[j] => i = j
    PROVE  LET pages == PagesUpTo(s, per, N + 1)
           IN /\ IsInjective(ShownOn(pages)) /\ Cardinality(Places(pages)) = Len(s)
              /\ Range(ShownOn(pages)) = Range(s)
<1> DEFINE pages == PagesUpTo(s, per, N + 1)
<1> pages = [p \in 1..(N + 1) |-> paginateScored(s, (p - 1) * per, per)]
  BY Zenon DEF PagesUpTo
<1> HIDE DEF pages
<1> DEFINE n == Len(s)
           places == UNION {{<<p, i>> : i \in DOMAIN pages[p]} : p \in DOMAIN pages}
           shown == [x \in places |-> pages[x[1]][x[2]]]
           At(p, i) == (p - 1) * per + i
           f == [x \in places |-> At(x[1], x[2])]
<1>0. \A o \in Nat : /\ DOMAIN paginateScored(s, o, per) = {i \in 1..per : o + i <= Len(s)}
                     /\ \A i \in DOMAIN paginateScored(s, o, per) : paginateScored(s, o, per)[i] = s[o + i]
  BY PageFacts
<1>1. n \in Nat /\ DOMAIN s = 1..n /\ n <= N
  OBVIOUS
<1>2. ASSUME NEW p \in 1..(N + 1) PROVE p - 1 \in Nat /\ p \in Nat /\ (p - 1) * per \in Nat
  <2>1. p - 1 \in Nat /\ p \in Nat
    OBVIOUS
  <2> QED
    BY <2>1, Multiples, Zenon
<1>3. ASSUME NEW p \in 1..(N + 1)
      PROVE  /\ DOMAIN pages[p] = {i \in 1..per : At(p, i) <= n}
             /\ \A i \in DOMAIN pages[p] : pages[p][i] = s[At(p, i)]
  <2> DEFINE o == (p - 1) * per
  <2>1. pages[p] = paginateScored(s, o, per) /\ o \in Nat
    BY <1>2, Zenon
  <2> HIDE DEF o
  <2> DEFINE g == paginateScored(s, o, per)
  <2>2. /\ DOMAIN g = {i \in 1..per : o + i <= Len(s)}
        /\ \A i \in DOMAIN g : g[i] = s[o + i]
    BY <1>0, <2>1, Zenon
  <2> HIDE DEF g
  <2>3. pages[p] = g
    BY <2>1, Zenon DEF g
  <2> QED
    BY <2>2, <2>3, Zenon DEF o
<1>4. DOMAIN pages = 1..(N + 1)
  BY Zenon
<1>5. ASSUME NEW x \in places
      PROVE  /\ x[1] \in 1..(N + 1) /\ x[2] \in 1..per /\ x = <<x[1], x[2]>>
             /\ At(x[1], x[2]) \in 1..n /\ shown[x] = s[At(x[1], x[2])]
  <2>1. PICK p \in 1..(N + 1) : x \in {<<p, i>> : i \in DOMAIN pages[p]}
    BY <1>4, <1>5, Zenon
  <2>2. PICK i \in DOMAIN pages[p] : x = <<p, i>>
    BY <2>1, Zenon
  <2>3. x[1] = p /\ x[2] = i
    BY <2>2
  <2>4. i \in 1..per /\ At(p, i) <= n /\ pages[p][i] = s[At(p, i)]
    BY <1>3, <2>2, Zenon
  <2>5. (p - 1) * per \in Nat
    BY <1>2, Zenon
  <2>6. At(p, i) \in 1..n
    <3> DEFINE o == (p - 1) * per
    <3>1. o \in Nat /\ i \in 1..per /\ o + i <= n
      BY <2>4, <2>5, Zenon
    <3> HIDE DEF o
    <3>2. o + i \in 1..n
      BY <1>1, <3>1
    <3> QED
      BY <3>2, Zenon DEF o
  <2>7. shown[x] = pages[p][i]
    BY <1>5, <2>3, Zenon
  <2> HIDE DEF places, shown, At
  <2> QED
    BY <2>2, <2>3, <2>4, <2>6, <2>7, Zenon
<1>6. ASSUME NEW p \in 1..(N + 1), NEW r \in 1..(N + 1), NEW i \in 1..per, NEW j \in 1..per, p < r
      PROVE  At(p, i) < At(r, j)
  <2> DEFINE k == p - 1
             m == r - 1
             a == k * per
             b == m * per
  <2>1. k \in Nat /\ m \in Nat /\ k < m
    BY <1>6
  <2> HIDE DEF k, m
  <2>2. (k + 1) * per <= m * per /\ (k + 1) * per = k * per + per /\ k * per \in Nat /\ m * per \in Nat
    BY <2>1, Multiples, Zenon
  <2>3. a \in Nat /\ b \in Nat /\ a + per <= b
    BY <2>2, Zenon
  <2> HIDE DEF a, b
  <2>4. a + i < b + j
    BY <2>3
  <2> QED
    BY <2>4, Zenon DEF a, b, k, m
<1>7. ASSUME NEW x \in places, NEW y \in places, At(x[1], x[2]) = At(y[1], y[2]) PROVE x = y
  <2> DEFINE p == x[1]
             i == x[2]
             r == y[1]
             j == y[2]
  <2>1. /\ p \in 1..(N + 1) /\ i \in 1..per /\ x = <<p, i>>
        /\ r \in 1..(N + 1) /\ j \in 1..per /\ y = <<r, j>>
        /\ At(p, i) \in 1..n /\ At(p, i) = At(r, j)
    BY <1>5, <1>7, Zenon
  <2> HIDE DEF p, i, r, j, places
  <2>2. ~(p < r) /\ ~(r < p)
    <3> DEFINE v == At(p, i)
               w == At(r, j)
    <3>1. v \in 1..n /\ v = w
      BY <2>1, Zenon
    <3>2. (p < r => v < w) /\ (r < p => w < v)
      BY <1>6, <2>1, Zenon
    <3> HIDE DEF v, w
    <3> QED
      BY <3>1, <3>2
  <2>3. p = r
    BY <2>1, <2>2
  <2>4. i = j
    <3> DEFINE o == (p - 1) * per
    <3>1. o \in Nat /\ o + i = o + j
      BY <1>2, <2>1, <2>3, Zenon
    <3> HIDE DEF o
    <3> QED
      BY <2>1, <3>1
  <2> QED
    BY <2>1, <2>3, <2>4, Zenon
<1>8. ASSUME NEW k \in 1..n PROVE \E x \in places : At(x[1], x[2]) = k
  <2> DEFINE T == {p \in Nat : k <= p * per}
  <2>1. k \in T
    BY <1>8, Multiples
  <2>2. PICK p \in T : \A y \in T : p <= y
    <3>1. T \subseteq Nat /\ T # {}
      BY <2>1, Zenon
    <3> HIDE DEF T
    <3> QED
      BY <3>1, Least, Zenon
  <2>3. p \in Nat /\ k <= p * per
    BY Zenon
  <2>4. p # 0
    BY <2>3
  <2> DEFINE m == p - 1
             o == m * per
             i == k - o
  <2>5. m \in Nat /\ m + 1 = p /\ ~(p <= m)
    BY <2>3, <2>4
  <2>6. m \notin T
    BY <2>2, <2>5, Zenon
  <2> HIDE DEF m
  <2>7. ~(k <= m * per)
    BY <2>5, <2>6, Zenon
  <2>8. o \in Nat /\ p * per = o + per /\ m <= o
    BY <2>5, Multiples, Zenon
  <2> DEFINE z == p * per
  <2>9. z = o + per /\ k <= z /\ ~(k <= o)
    BY <2>3, <2>7, <2>8, Zenon
  <2> HIDE DEF o, z
  <2>10. i \in 1..per /\ o + i = k /\ k <= n
    BY <1>1, <2>8, <2>9
  <2>11. p \in 1..(N + 1)
    BY <1>1, <2>3, <2>4, <2>5, <2>8, <2>9
  <2>12. At(p, i) = k
    BY <2>10, Zenon DEF o, m
  <2> HIDE DEF i
  <2>13. i \in DOMAIN pages[p]
    <3>1. DOMAIN pages[p] = {v \in 1..per : At(p, v) <= n}
      BY <1>3, <2>11, Zenon
    <3> HIDE DEF At, n
    <3> QED
      BY <2>10, <2>12, <3>1, Zenon
  <2>14. <<p, i>> \in places /\ <<p, i>>[1] = p /\ <<p, i>>[2] = i
    BY <1>4, <2>11, <2>13
  <2> HIDE DEF places
  <2> QED
    BY <2>12, <2>14, Zenon
<1>10. DOMAIN shown = places /\ DOMAIN f = places /\ \A x \in places : f[x] = At(x[1], x[2])
  BY Zenon
<1>11. f = [x \in places |-> f[x]]
  BY Zenon
<1>18. \A i, j \in 1..n : s[i] = s[j] => i = j
  BY Zenon
<1>19. \A x, y \in places : At(x[1], x[2]) = At(y[1], y[2]) => x = y
  BY <1>7, Zenon
<1> HIDE DEF places, shown, At, f, n
<1>17. \A x \in places : At(x[1], x[2]) \in 1..n /\ shown[x] = s[At(x[1], x[2])]
  BY <1>5, Zenon
<1>9. IsInjective(shown)
  <2> SUFFICES ASSUME NEW x \in places, NEW y \in places, shown[x] = shown[y] PROVE x = y
    BY <1>10, Zenon DEF IsInjective
  <2>1. /\ At(x[1], x[2]) \in 1..n /\ At(y[1], y[2]) \in 1..n
        /\ s[At(x[1], x[2])] = s[At(y[1], y[2])]
    BY <1>5, Zenon
  <2>2. At(x[1], x[2]) = At(y[1], y[2])
    BY <1>18, <2>1, Zenon
  <2> QED
    BY <1>19, <2>2, Zenon
<1>12. f \in [places -> 1..n]
  <2>1. \A x \in places : f[x] \in 1..n
    BY <1>10, <1>17, Zenon
  <2> QED
    BY <1>11, <2>1, Zenon
<1>13. f \in Injection(places, 1..n)
  <2>1. \A x, y \in places : f[x] = f[y] => x = y
    <3> SUFFICES ASSUME NEW x \in places, NEW y \in places, f[x] = f[y] PROVE x = y
      BY Zenon
    <3>1. At(x[1], x[2]) = At(y[1], y[2])
      BY <1>10, Zenon
    <3> QED
      BY <1>19, <3>1, Zenon
  <2>2. IsInjective(f)
    BY <1>10, <2>1, Zenon DEF IsInjective
  <2> QED
    BY <1>12, <2>2, Zenon DEF Injection
<1>14. f \in Surjection(places, 1..n)
  BY <1>8, <1>10, <1>12, Zenon DEF Surjection
<1>15. Cardinality(places) = n
  BY <1>1, <1>13, <1>14, Intervals, FS_Injection, Zenon
<1>16. Range(shown) = Range(s)
  <2>1. \A x \in places : shown[x] \in Range(s)
    BY <1>1, <1>17, Zenon DEF Range
  <2>2. ASSUME NEW v \in Range(s) PROVE \E x \in places : shown[x] = v
    <3>1. PICK k \in 1..n : s[k] = v
      BY <1>1, Zenon DEF Range
    <3>2. PICK x \in places : At(x[1], x[2]) = k
      BY <1>8, Zenon
    <3> QED
      BY <1>17, <3>1, <3>2, Zenon
  <2> QED
    <3>1. Range(shown) = {shown[x] : x \in places}
      BY <1>10, Zenon DEF Range
    <3>2. \A v \in Range(shown) : v \in Range(s)
      BY <2>1, <3>1, Zenon
    <3>3. \A v \in Range(s) : v \in Range(shown)
      BY <2>2, <3>1, Zenon
    <3> QED
      BY <3>2, <3>3, Zenon
<1> QED
  BY <1>9, <1>15, <1>16, Zenon DEF places, shown, n, ShownOn, Places, pages

-----------------------------------------------------------------------------
(* What the index and the engines hold.                                    *)

DiscoveryEntry ==
    [def : ToolDefinition, desc : Text, summary : Text, category : STRING, tags : Text, priority : Int]
SearchDocument == [name : Text, title : Text, tags : Text, desc : Text]

Entered(es) == DOMAIN es \subseteq Listable /\ \A t \in DOMAIN es : es[t] \in DiscoveryEntry
Filed(ds) == DOMAIN ds \subseteq Listable /\ \A t \in DOMAIN ds : ds[t] \in SearchDocument

\* The lexical engines have the documents of the entries there are.
Indexed ==
    /\ overlay \in Seq(ToolMetadata) /\ Entered(entries) /\ Filed(lexical) /\ Filed(vectors)
    /\ engine \in {"bm25", "hybrid"} =>
          DOMAIN lexical = DOMAIN entries /\ \A t \in DOMAIN entries : lexical[t] = Document(entries[t])

\* The entry of a tool after each of n items of metadata.
EnrichedUpTo(e, old, t, ms, n) ==
    e = [i \in 0..n |-> IF i = 0 THEN old
           ELSE IF ms[i].tool = t THEN Enriched(e[i - 1], ms[i]) ELSE e[i - 1]]

LEMMA EnrichedExists ==
    ASSUME NEW old, NEW t, NEW ms, NEW n \in Nat
    PROVE  \E e : EnrichedUpTo(e, old, t, ms, n)
<1> DEFINE Step(v, i) == IF ms[i].tool = t THEN Enriched(v, ms[i]) ELSE v
           Is(f, m) == f = [i \in 0..m |-> IF i = 0 THEN old ELSE Step(f[i - 1], i)]
           T == {m \in Nat : \E f : Is(f, m)}
<1>1. 0 \in T
  <2> HIDE DEF Step
  <2>1. Is([i \in 0..0 |-> old], 0)
    OBVIOUS
  <2> QED
    BY <2>1, Zenon
<1>2. ASSUME NEW m \in Nat, m \in T PROVE m + 1 \in T
  <2>1. PICK f : Is(f, m)
    BY <1>2, Zenon
  <2> DEFINE g == [i \in 0..(m + 1) |-> IF i <= m THEN f[i] ELSE Step(f[m], i)]
  <2> HIDE DEF Step
  <2>2. \A i \in 0..m : f[i] = IF i = 0 THEN old ELSE Step(f[i - 1], i)
    BY <2>1, Zenon
  <2>3. \A i \in 0..(m + 1) : g[i] = IF i = 0 THEN old ELSE Step(g[i - 1], i)
    <3> SUFFICES ASSUME NEW i \in 0..(m + 1)
                 PROVE  g[i] = IF i = 0 THEN old ELSE Step(g[i - 1], i)
      BY Zenon
    <3>1. CASE i = 0
      BY <2>2, <3>1
    <3>2. CASE i # 0 /\ i <= m
      <4>1. g[i] = f[i] /\ g[i - 1] = f[i - 1]
        BY <3>2
      <4> QED
        BY <2>2, <3>2, <4>1
    <3>3. CASE i = m + 1
      <4>1. g[i] = Step(f[m], i) /\ g[i - 1] = f[m] /\ i # 0
        BY <3>3
      <4> QED
        BY <4>1, Zenon
    <3> QED
      BY <3>1, <3>2, <3>3
  <2>4. Is(g, m + 1)
    BY <2>3, Zenon
  <2> HIDE DEF g, Is
  <2> QED
    BY <2>4
<1> HIDE DEF T
<1>3. n \in T
  BY <1>1, <1>2, Induction, Zenon
<1> QED
  BY <1>3, Zenon DEF T, EnrichedUpTo

LEMMA EnrichedIsEntry ==
    ASSUME NEW e \in DiscoveryEntry, NEW m \in ToolMetadata
    PROVE  Enriched(e, m) \in DiscoveryEntry
  BY DEF DiscoveryEntry, ToolMetadata, Enriched, Text

\* Metadata changes entries and adds none.
LEMMA OverlayKeeps ==
    ASSUME NEW es, Entered(es), NEW ms \in Seq(ToolMetadata)
    PROVE  Entered(applyMetadataLocked(es, ms)) /\ DOMAIN applyMetadataLocked(es, ms) = DOMAIN es
<1> DEFINE n == Len(ms)
           Upto(t) == CHOOSE e : EnrichedUpTo(e, es[t], t, ms, n)
           new == applyMetadataLocked(es, ms)
<1>1. n \in Nat /\ \A i \in 1..n : ms[i] \in ToolMetadata
  OBVIOUS
<1>2. new = [t \in DOMAIN es |-> Upto(t)[n]]
  BY Zenon DEF applyMetadataLocked, EnrichedUpTo
<1>3. ASSUME NEW t \in DOMAIN es PROVE Upto(t)[n] \in DiscoveryEntry
  <2> DEFINE e == Upto(t)
             T == {k \in Nat : k <= n => e[k] \in DiscoveryEntry}
  <2>1. EnrichedUpTo(e, es[t], t, ms, n)
    BY <1>1, EnrichedExists, Zenon
  <2> HIDE DEF e
  <2>2. \A i \in 0..n : e[i] = IF i = 0 THEN es[t]
                              ELSE IF ms[i].tool = t THEN Enriched(e[i - 1], ms[i]) ELSE e[i - 1]
    BY <2>1, Zenon DEF EnrichedUpTo
  <2>3. 0 \in T
    <3>1. e[0] = es[t]
      BY <1>1, <2>2
    <3>2. es[t] \in DiscoveryEntry
      BY <1>3, Zenon DEF Entered
    <3> QED
      BY <3>1, <3>2, Zenon
  <2>4. ASSUME NEW k \in Nat, k \in T PROVE k + 1 \in T
    <3> SUFFICES ASSUME k + 1 <= n PROVE e[k + 1] \in DiscoveryEntry
      OBVIOUS
    <3>1. k <= n /\ k + 1 \in 1..n /\ k + 1 \in 0..n /\ k + 1 # 0 /\ (k + 1) - 1 = k
      BY <1>1
    <3>2. e[k] \in DiscoveryEntry /\ ms[k + 1] \in ToolMetadata
      BY <1>1, <2>4, <3>1, Zenon
    <3>3. e[k + 1] = IF ms[k + 1].tool = t THEN Enriched(e[k], ms[k + 1]) ELSE e[k]
      BY <2>2, <3>1, Zenon
    <3> QED
      BY <3>2, <3>3, EnrichedIsEntry, Zenon
  <2>5. n \in T
    <3> HIDE DEF T
    <3> QED
      BY <1>1, <2>3, <2>4, Induction, Zenon
  <2>6. e[n] \in DiscoveryEntry
    BY <1>1, <2>5
  <2> QED
    BY <2>6, Zenon DEF e
<1> HIDE DEF Upto, new
<1>4. DOMAIN new = DOMAIN es /\ \A t \in DOMAIN es : new[t] \in DiscoveryEntry
  BY <1>2, <1>3, Zenon
<1> QED
  BY <1>4, Zenon DEF Entered, new

LEMMA DocumentIsFiled ==
    ASSUME NEW e \in DiscoveryEntry
    PROVE  Document(e) \in SearchDocument
<1>1. /\ e.def.name \in Text /\ e.def.title \in Text /\ e.tags \in Text /\ e.def.desc \in Text
      /\ e.summary \in Text
  BY DEF DiscoveryEntry, ToolDefinition
<1>2. e.def.desc \o e.summary \in Text
  BY <1>1 DEF Text
<1> QED
  BY <1>1, <1>2 DEF Document, SearchDocument

LEMMA NewEntryIsEntry ==
    ASSUME NEW t \in Listable
    PROVE  NewEntry(t) \in DiscoveryEntry
<1>1. Catalog[t] \in ToolDefinition
  BY SearchAssumption DEF Listable
<1>2. NoText \in Text
  BY DEF NoText, Text
<1> QED
  BY <1>1, <1>2 DEF NewEntry, DiscoveryEntry, ToolDefinition

\* Every sync and every list of metadata leaves the engines in step, except a
\* vector engine whose model fails.
LEMMA IndexedInductive ==
    /\ SInit => Indexed
    /\ Indexed /\ [SNext]_svars => Indexed'
<1>1. ASSUME SInit PROVE Indexed
  <2>1. DOMAIN <<>> = {} /\ <<>> \in Seq(ToolMetadata)
    OBVIOUS
  <2> QED
    BY <1>1, <2>1, Zenon DEF SInit, Indexed, Entered, Filed
<1>2. ASSUME Indexed, NEW embeds, reindexEngineLocked(entries', embeds), UNCHANGED engine, Entered(entries'),
             overlay' \in Seq(ToolMetadata)
      PROVE  Indexed'
  <2> DEFINE docs == [t \in DOMAIN entries' |-> Document(entries'[t])]
  <2>1. DOMAIN docs = DOMAIN entries' /\ \A t \in DOMAIN entries' : docs[t] = Document(entries'[t])
    BY Zenon
  <2>2. \/ engine = "bm25" /\ lexical' = docs /\ UNCHANGED vectors
        \/ engine = "vector" /\ vectorIndex(docs, embeds) /\ UNCHANGED lexical
        \/ engine = "hybrid" /\ lexical' = docs /\ vectorIndex(docs, embeds)
        \/ engine \notin {"bm25", "vector", "hybrid"} /\ UNCHANGED <<lexical, vectors>>
    BY <1>2 DEF reindexEngineLocked, hybridIndex
  <2> HIDE DEF docs
  <2>3. Filed(docs)
    BY <1>2, <2>1, DocumentIsFiled, Zenon DEF Entered, Filed
  <2>4. ASSUME vectorIndex(docs, embeds) PROVE Filed(vectors')
    BY <1>2, <2>3, <2>4, Zenon DEF vectorIndex, Indexed
  <2>5. Filed(lexical') /\ Filed(vectors')
    BY <1>2, <2>2, <2>3, <2>4, Zenon DEF Indexed
  <2>6. engine' \in {"bm25", "hybrid"} => lexical' = docs
    BY <1>2, <2>2
  <2> QED
    BY <1>2, <2>1, <2>5, <2>6, Zenon DEF Indexed
<1>3. ASSUME Indexed, NEW embeds \in BOOLEAN, NEW listed \in SUBSET Listable, IndexTools(listed, embeds)
      PROVE  Indexed'
  <2> DEFINE new == [t \in listed |-> NewEntry(t)]
  <2>1. Entered(new)
    BY NewEntryIsEntry, Zenon DEF Entered
  <2>2. /\ entries' = applyMetadataLocked(new, overlay) /\ reindexEngineLocked(entries', embeds)
        /\ UNCHANGED <<engine, overlay>> /\ overlay \in Seq(ToolMetadata)
    BY <1>3, Zenon DEF IndexTools, Indexed
  <2> HIDE DEF new
  <2>3. Entered(entries')
    BY <2>1, <2>2, OverlayKeeps, Zenon
  <2> QED
    BY <1>2, <1>3, <2>2, <2>3, Zenon
<1>4. ASSUME Indexed, NEW embeds \in BOOLEAN, NEW ms \in Overlays, ApplyOverlay(ms, embeds)
      PROVE  Indexed'
  <2>1. /\ entries' = applyMetadataLocked(entries, ms) /\ reindexEngineLocked(entries', embeds)
        /\ UNCHANGED engine /\ overlay' = ms
    BY <1>4, Zenon DEF ApplyOverlay
  <2>2. ms \in Seq(ToolMetadata)
    BY SearchAssumption, Zenon
  <2>3. Entered(entries')
    BY <1>4, <2>1, <2>2, OverlayKeeps, Zenon DEF Indexed
  <2> QED
    BY <1>2, <1>4, <2>1, <2>2, <2>3, Zenon
<1>5. ASSUME Indexed, UNCHANGED svars PROVE Indexed'
  BY <1>5, Zenon DEF Indexed, Entered, Filed, svars
<1> QED
  BY <1>1, <1>3, <1>4, <1>5, Zenon DEF SNext

-----------------------------------------------------------------------------
(* The scores of the engines are whole, and positive where they should be. *)

LEMMA ListIsFinite ==
    ASSUME NEW S, NEW q \in Seq(S)
    PROVE  IsFiniteSet(Range(q))
<1> DEFINE I == 1..Len(q)
           Op(i) == q[i]
<1>1. Len(q) \in Nat /\ DOMAIN q = I
  OBVIOUS
<1>2. 1 \in Int /\ Len(q) \in Int
  BY <1>1
<1>3. IsFiniteSet(I)
  BY <1>2, FS_Interval, Zenon
<1>4. q \in Surjection(I, Range(q))
  <2>1. q \in [I -> Range(q)]
    <3>1. q = [i \in I |-> q[i]]
      BY <1>1
    <3>2. \A i \in I : q[i] \in Range(q)
      BY <1>1, Zenon DEF Range
    <3> QED
      BY <3>1, <3>2, Zenon
  <2>2. \A v \in Range(q) : \E i \in I : q[i] = v
    BY <1>1, Zenon DEF Range
  <2> QED
    BY <2>1, <2>2, Zenon DEF Surjection
<1> HIDE DEF I
<1> QED
  BY <1>3, <1>4, FS_Surjection, Zenon

LEMMA CountFacts ==
    ASSUME NEW S, IsFiniteSet(S), NEW T, T \subseteq S
    PROVE  Cardinality(T) \in Nat /\ (T # {} => Cardinality(T) # 0)
<1>1. T \in SUBSET S
  BY Zenon
<1>2. IsFiniteSet(T)
  BY <1>1, FS_Subset, Zenon
<1> QED
  BY <1>2, FS_CardinalityType, FS_EmptySet, Zenon

LEMMA ListableFacts == IsFiniteSet(Listable) /\ Listable \subseteq Nat /\ Cardinality(Listable) \in Nat
<1>1. Len(Catalog) \in Nat /\ Listable = 1..Len(Catalog)
  BY SearchAssumption DEF Listable
<1>2. IsFiniteSet(Listable) /\ Cardinality(Listable) = Len(Catalog)
  BY <1>1, Intervals, Zenon
<1>3. Listable \subseteq Nat
  BY <1>1
<1> QED
  BY <1>1, <1>2, <1>3, Zenon

\* Scores of tools that can be listed.
LEMMA ListableScores ==
    ASSUME NEW f, DOMAIN f \subseteq Listable, \A t \in DOMAIN f : f[t] \in Int
    PROVE  Scores(f)
<1>1. IsFiniteSet(DOMAIN f)
  <2>1. DOMAIN f \in SUBSET Listable
    BY Zenon
  <2> QED
    BY <2>1, ListableFacts, FS_Subset, Zenon
<1>2. DOMAIN f \subseteq Int
  <2>1. Nat \subseteq Int
    OBVIOUS
  <2> QED
    BY <2>1, ListableFacts, Zenon
<1> QED
  BY <1>1, <1>2, Zenon DEF Scores

LEMMA FieldFacts ==
    ASSUME NEW text \in Text, NEW terms, NEW weight \in Nat \ {0}
    PROVE  /\ accumulateField(text, terms, weight) \in Nat
           /\ Range(text) \cap terms # {} => accumulateField(text, terms, weight) > 0
<1> DEFINE c == Cardinality(Range(text) \cap terms)
<1>1. IsFiniteSet(Range(text))
  BY ListIsFinite, Zenon DEF Text
<1>2. Range(text) \cap terms \subseteq Range(text)
  BY Zenon
<1>3. c \in Nat /\ (Range(text) \cap terms # {} => c # 0)
  BY <1>1, <1>2, CountFacts, Zenon
<1>4. accumulateField(text, terms, weight) = weight * c
  BY Zenon DEF accumulateField
<1> HIDE DEF c
<1>5. weight * c \in Nat /\ (c # 0 => weight * c > 0)
  BY <1>3
<1> QED
  BY <1>3, <1>4, <1>5, Zenon

\* The score of a document, by field.
DocumentScore(d, terms) ==
    accumulateField(d.name, terms, 3) + accumulateField(d.title, terms, 2)
        + accumulateField(d.desc, terms, 1) + accumulateField(d.tags, terms, 2)

LEMMA DocumentFacts ==
    ASSUME NEW d \in SearchDocument, NEW terms
    PROVE  /\ DocumentScore(d, terms) \in Nat
           /\ (\E x \in {d.name, d.title, d.desc, d.tags} : Range(x) \cap terms # {})
                 => DocumentScore(d, terms) > 0
<1> DEFINE a == accumulateField(d.name, terms, 3)
           b == accumulateField(d.title, terms, 2)
           c == accumulateField(d.desc, terms, 1)
           e == accumulateField(d.tags, terms, 2)
<1>1. d.name \in Text /\ d.title \in Text /\ d.desc \in Text /\ d.tags \in Text
  BY DEF SearchDocument
<1>2. 1 \in Nat \ {0} /\ 2 \in Nat \ {0} /\ 3 \in Nat \ {0}
  OBVIOUS
<1>3. /\ a \in Nat /\ (Range(d.name) \cap terms # {} => a > 0)
      /\ b \in Nat /\ (Range(d.title) \cap terms # {} => b > 0)
      /\ c \in Nat /\ (Range(d.desc) \cap terms # {} => c > 0)
      /\ e \in Nat /\ (Range(d.tags) \cap terms # {} => e > 0)
  BY <1>1, <1>2, FieldFacts, Zenon
<1>4. DocumentScore(d, terms) = a + b + c + e
  BY Zenon DEF DocumentScore
<1> HIDE DEF a, b, c, e
<1>5. a + b + c + e \in Nat /\ (a > 0 \/ b > 0 \/ c > 0 \/ e > 0 => a + b + c + e > 0)
  BY <1>3
<1> QED
  BY <1>3, <1>4, <1>5, Zenon

LEMMA Bm25Facts ==
    ASSUME Filed(lexical), NEW q
    PROVE  /\ Scores(bm25Search(q)) /\ DOMAIN bm25Search(q) \subseteq DOMAIN lexical
           /\ \A t \in DOMAIN lexical :
                (\E x \in {lexical[t].name, lexical[t].title, lexical[t].desc, lexical[t].tags} :
                    Range(x) \cap ExpandQuery(q) # {}) => t \in DOMAIN bm25Search(q)
<1> DEFINE terms == ExpandQuery(q)
           f == bm25Search(q)
           Hits == {k \in DOMAIN lexical : DocumentScore(lexical[k], terms) > 0}
<1>1. f = [t \in Hits |-> Unit * DocumentScore(lexical[t], terms)]
  BY Zenon DEF bm25Search, DocumentScore
<1>2. DOMAIN f = Hits /\ \A t \in Hits : f[t] = Unit * DocumentScore(lexical[t], terms)
  BY <1>1, Zenon
<1>3. ASSUME NEW t \in DOMAIN lexical
      PROVE  /\ DocumentScore(lexical[t], terms) \in Nat
             /\ (\E x \in {lexical[t].name, lexical[t].title, lexical[t].desc, lexical[t].tags} :
                    Range(x) \cap terms # {}) => DocumentScore(lexical[t], terms) > 0
  <2>1. lexical[t] \in SearchDocument
    BY Zenon DEF Filed
  <2> HIDE DEF terms
  <2> QED
    BY <2>1, DocumentFacts, Zenon
<1> HIDE DEF terms, f
<1>4. ASSUME NEW t \in Hits PROVE f[t] \in Int
  <2> DEFINE s == DocumentScore(lexical[t], terms)
  <2>1. s \in Nat /\ f[t] = Unit * s
    BY <1>2, <1>3, Zenon
  <2> HIDE DEF s
  <2>2. Unit * s \in Int
    BY <2>1, SearchAssumption
  <2> QED
    BY <2>1, <2>2, Zenon
<1>5. Hits \subseteq DOMAIN lexical /\ Hits \subseteq Listable
  BY Zenon DEF Filed
<1>6. Scores(f)
  <2> HIDE DEF Hits
  <2> QED
    BY <1>2, <1>4, <1>5, ListableScores, Zenon
<1>7. \A t \in DOMAIN lexical :
         (\E x \in {lexical[t].name, lexical[t].title, lexical[t].desc, lexical[t].tags} :
             Range(x) \cap terms # {}) => t \in DOMAIN f
  BY <1>2, <1>3, Zenon
<1> QED
  BY <1>2, <1>5, <1>6, <1>7, Zenon DEF f, terms

LEMMA VectorFacts ==
    ASSUME Filed(vectors), NEW q \in Text
    PROVE  Scores(vectorSearch(q)) /\ DOMAIN vectorSearch(q) \subseteq Listable
<1> DEFINE Sim(t) == cosineSimilarity(q, buildEmbedText(vectors[t]))
           f == vectorSearch(q)
           Hits == {k \in DOMAIN vectors : Sim(k) > 0}
<1>1. f = [t \in Hits |-> Unit * Sim(t)]
  BY Zenon DEF vectorSearch
<1>2. DOMAIN f = Hits /\ \A t \in Hits : f[t] = Unit * Sim(t)
  BY <1>1, Zenon
<1>3. ASSUME NEW t \in DOMAIN vectors PROVE Sim(t) \in Nat
  <2> DEFINE text == buildEmbedText(vectors[t])
             P == Range(q) \X Range(text)
             near == {p \in P : p[1] = p[2] \/ p \in Related}
  <2>1. vectors[t] \in SearchDocument
    BY Zenon DEF Filed
  <2>2. text \in Text
    BY <2>1 DEF SearchDocument, Text, buildEmbedText
  <2> HIDE DEF text
  <2>3. IsFiniteSet(Range(q)) /\ IsFiniteSet(Range(text))
    BY <2>2, ListIsFinite, Zenon DEF Text
  <2>4. IsFiniteSet(P)
    BY <2>3, FS_Product, Zenon
  <2>5. near \subseteq P
    BY Zenon
  <2> HIDE DEF P
  <2>6. Cardinality(near) \in Nat
    BY <2>4, <2>5, CountFacts, Zenon
  <2> QED
    BY <2>6, Zenon DEF text, P, cosineSimilarity
<1> HIDE DEF Sim, f
<1>4. ASSUME NEW t \in Hits PROVE f[t] \in Int
  <2> DEFINE s == Sim(t)
  <2>1. s \in Nat /\ f[t] = Unit * s
    BY <1>2, <1>3, Zenon
  <2> HIDE DEF s
  <2>2. Unit * s \in Int
    BY <2>1, SearchAssumption
  <2> QED
    BY <2>1, <2>2, Zenon
<1>5. Hits \subseteq Listable
  BY Zenon DEF Filed
<1> HIDE DEF Hits
<1>6. Scores(f)
  BY <1>2, <1>4, <1>5, ListableScores, Zenon
<1> QED
  BY <1>2, <1>5, <1>6, Zenon DEF f

LEMMA FusedFacts ==
    ASSUME NEW f, Scores(f), DOMAIN f \subseteq Listable, NEW g, Scores(g), DOMAIN g \subseteq Listable
    PROVE  LET h == fuseRRF(Ranked(f), Ranked(g))
           IN Scores(h) /\ DOMAIN h = DOMAIN f \cup DOMAIN g
<1> DEFINE a == Ranked(f)
           b == Ranked(g)
           Part(rs, t) == IF t \in Range(rs) THEN Unit \div (rrfK + CHOOSE i \in DOMAIN rs : rs[i] = t) ELSE 0
           h == fuseRRF(a, b)
<1>1. a \in Seq(DOMAIN f) /\ Range(a) = DOMAIN f
  BY RankedFacts, Zenon
<1>2. b \in Seq(DOMAIN g) /\ Range(b) = DOMAIN g
  BY RankedFacts, Zenon
<1>3. h = [t \in Range(a) \cup Range(b) |-> Part(a, t) + Part(b, t)]
  BY Zenon DEF fuseRRF
<1>4. DOMAIN h = DOMAIN f \cup DOMAIN g /\ \A t \in DOMAIN f \cup DOMAIN g : h[t] = Part(a, t) + Part(b, t)
  BY <1>1, <1>2, <1>3, Zenon
<1>5. \A D : \A rs \in Seq(D) : \A t : Part(rs, t) \in Int
  <2> SUFFICES ASSUME NEW D, NEW rs \in Seq(D), NEW t PROVE Part(rs, t) \in Int
    BY Zenon
  <2> DEFINE k == CHOOSE i \in DOMAIN rs : rs[i] = t
  <2>1. CASE t \in Range(rs)
    <3>1. \E i \in DOMAIN rs : rs[i] = t
      BY <2>1, Zenon DEF Range
    <3>2. k \in DOMAIN rs
      BY <3>1, Zenon
    <3> HIDE DEF k
    <3>3. k \in Nat
      BY <3>2
    <3>4. Unit \div (rrfK + k) \in Int
      BY <3>3, SearchAssumption DEF rrfK
    <3> QED
      BY <2>1, <3>4, Zenon DEF k
  <2>2. CASE t \notin Range(rs)
    <3>1. Part(rs, t) = 0
      BY <2>2, Zenon
    <3> QED
      BY <3>1
  <2> QED
    BY <2>1, <2>2, Zenon
<1>6. ASSUME NEW t \in DOMAIN f \cup DOMAIN g PROVE h[t] \in Int
  <2> DEFINE x == Part(a, t)
             y == Part(b, t)
  <2> HIDE DEF Part, a, b
  <2>1. x \in Int /\ y \in Int /\ h[t] = x + y
    BY <1>1, <1>2, <1>4, <1>5, Zenon
  <2> HIDE DEF x, y
  <2> QED
    BY <2>1
<1> HIDE DEF h
<1>7. DOMAIN h \subseteq Listable /\ \A t \in DOMAIN h : h[t] \in Int
  BY <1>4, <1>6, Zenon
<1>8. Scores(h)
  BY <1>7, ListableScores, Zenon
<1> QED
  BY <1>4, <1>8, Zenon DEF h, a, b

\* The substring score of an entry.
LEMMA EntryScore ==
    ASSUME NEW e \in DiscoveryEntry, NEW q
    PROVE  /\ scoreEntry(e, q) \in Nat
           /\ \/ HasPhrase(e.def.name, q) \/ HasPhrase(e.def.title, q) \/ HasPhrase(e.desc, q)
              \/ \E w \in Range(e.tags) : HasPhrase(<<w>>, q)
              => scoreEntry(e, q) > 0
<1> DEFINE Hit(text, points) == IF HasPhrase(text, q) THEN points ELSE 0
           a == IF e.def.name = q THEN 10 ELSE Hit(e.def.name, 5)
           b == Hit(e.def.title, 3)
           c == Hit(e.desc, 1)
           Tagged == {i \in DOMAIN e.tags : HasPhrase(<<e.tags[i]>>, q)}
           d == Cardinality(Tagged)
<1>1. scoreEntry(e, q) = a + b + c + 2 * d
  BY Zenon DEF scoreEntry
<1>2. IsFiniteSet(DOMAIN e.tags)
  <2>1. Len(e.tags) \in Nat /\ DOMAIN e.tags = 1..Len(e.tags)
    BY DEF DiscoveryEntry, Text
  <2> QED
    BY <2>1, Intervals, Zenon
<1>3. Tagged \subseteq DOMAIN e.tags
  BY Zenon
<1>4. d \in Nat /\ (Tagged # {} => d # 0)
  BY <1>2, <1>3, CountFacts, Zenon
<1>5. (\E w \in Range(e.tags) : HasPhrase(<<w>>, q)) => Tagged # {}
  BY Zenon DEF Range
<1>6. /\ a \in Nat /\ (HasPhrase(e.def.name, q) => a > 0)
      /\ b \in Nat /\ (HasPhrase(e.def.title, q) => b > 0)
      /\ c \in Nat /\ (HasPhrase(e.desc, q) => c > 0)
  OBVIOUS
<1> HIDE DEF a, b, c, d, Tagged
<1>7. /\ a + b + c + 2 * d \in Nat
      /\ a > 0 \/ b > 0 \/ c > 0 \/ d # 0 => a + b + c + 2 * d > 0
  BY <1>4, <1>6
<1> QED
  BY <1>1, <1>4, <1>5, <1>6, <1>7, Zenon

LEMMA PrioritisedFacts ==
    ASSUME Entered(entries), NEW f, Scores(f), NEW cat
    PROVE  /\ Scores(Prioritised(f, cat))
           /\ DOMAIN Prioritised(f, cat) = {t \in DOMAIN f \cap DOMAIN entries : InCategory(t, cat)}
<1> DEFINE D == {k \in DOMAIN f \cap DOMAIN entries : InCategory(k, cat)}
           g == Prioritised(f, cat)
<1>1. DOMAIN g = D /\ \A t \in D : g[t] = f[t] + Unit * entries[t].priority
  BY Zenon DEF Prioritised
<1> HIDE DEF g
<1>2. ASSUME NEW t \in D PROVE g[t] \in Int
  <2> DEFINE x == f[t]
             y == entries[t].priority
  <2>1. entries[t] \in DiscoveryEntry /\ x \in Int /\ g[t] = x + Unit * y
    BY <1>1, Zenon DEF Scores, Entered
  <2>2. y \in Int
    BY <2>1 DEF DiscoveryEntry
  <2> HIDE DEF x, y
  <2> QED
    BY <2>1, <2>2, SearchAssumption
<1>3. D \subseteq Listable
  BY Zenon DEF Entered
<1>4. Scores(g)
  <2> HIDE DEF D
  <2> QED
    BY <1>1, <1>2, <1>3, ListableScores, Zenon
<1> QED
  BY <1>1, <1>4, Zenon DEF g

LEMMA SubstringFacts ==
    ASSUME Entered(entries), NEW q, NEW cat
    PROVE  /\ Scores(collectScoredEntriesSubstring(q, cat))
           /\ DOMAIN collectScoredEntriesSubstring(q, cat)
                = {t \in DOMAIN entries : scoreEntry(entries[t], q) > 0 /\ InCategory(t, cat)}
<1> DEFINE D == {k \in DOMAIN entries : scoreEntry(entries[k], q) > 0}
           f == [t \in D |-> Unit * scoreEntry(entries[t], q)]
<1>1. DOMAIN f = D /\ \A t \in D : f[t] = Unit * scoreEntry(entries[t], q)
  BY Zenon
<1>2. collectScoredEntriesSubstring(q, cat) = Prioritised(f, cat)
  BY Zenon DEF collectScoredEntriesSubstring
<1> HIDE DEF f
<1>3. ASSUME NEW t \in D PROVE f[t] \in Int
  <2> DEFINE x == scoreEntry(entries[t], q)
  <2>1. entries[t] \in DiscoveryEntry /\ f[t] = Unit * x
    BY <1>1, Zenon DEF Entered
  <2>2. x \in Nat
    BY <2>1, EntryScore, Zenon
  <2> HIDE DEF x
  <2> QED
    BY <2>1, <2>2, SearchAssumption
<1>4. D \subseteq Listable
  BY Zenon DEF Entered
<1>5. Scores(f)
  <2> HIDE DEF D
  <2> QED
    BY <1>1, <1>3, <1>4, ListableScores, Zenon
<1>6. Scores(Prioritised(f, cat))
      /\ DOMAIN Prioritised(f, cat) = {t \in DOMAIN f \cap DOMAIN entries : InCategory(t, cat)}
  BY <1>5, PrioritisedFacts, Zenon
<1>7. {t \in DOMAIN f \cap DOMAIN entries : InCategory(t, cat)}
        = {t \in DOMAIN entries : scoreEntry(entries[t], q) > 0 /\ InCategory(t, cat)}
  BY <1>1, Zenon
<1> QED
  BY <1>2, <1>6, <1>7, Zenon

\* What a lexical engine has to find is found.
LEMMA WordIsFound ==
    ASSUME NEW e \in DiscoveryEntry, NEW terms,
           \E x \in {e.def.name, e.def.title} \cup {<<w>> : w \in Range(e.tags)} \cup {e.def.desc, e.summary} :
              Range(x) \cap terms # {}
    PROVE  LET d == Document(e)
           IN \E x \in {d.name, d.title, d.desc, d.tags} : Range(x) \cap terms # {}
<1> DEFINE d == Document(e)
           Meets(x) == Range(x) \cap terms # {}
<1>1. /\ d.name = e.def.name /\ d.title = e.def.title /\ d.tags = e.tags
      /\ d.desc = IF e.summary \in {NoText, e.def.desc} THEN e.def.desc ELSE e.def.desc \o e.summary
  BY DEF Document
<1>2. e.def.desc \in Seq(STRING) /\ e.summary \in Seq(STRING)
  BY DEF DiscoveryEntry, ToolDefinition, Text
<1> HIDE DEF d
<1>3. \A a, b \in Seq(STRING) : Range(a) \subseteq Range(a \o b) /\ Range(b) \subseteq Range(a \o b)
  <2> SUFFICES ASSUME NEW a \in Seq(STRING), NEW b \in Seq(STRING)
               PROVE  Range(a) \subseteq Range(a \o b) /\ Range(b) \subseteq Range(a \o b)
    BY Zenon
  <2>1. \A i \in DOMAIN a : i \in DOMAIN (a \o b) /\ (a \o b)[i] = a[i]
    OBVIOUS
  <2>2. \A i \in DOMAIN b : i + Len(a) \in DOMAIN (a \o b) /\ (a \o b)[i + Len(a)] = b[i]
    OBVIOUS
  <2> QED
    BY <2>1, <2>2, Zenon DEF Range
<1>4. Range(NoText) = {}
  BY DEF Range, NoText
<1>5. Meets(e.def.desc) \/ Meets(e.summary) => Meets(d.desc)
  <2>1. CASE e.summary \in {NoText, e.def.desc}
    BY <1>1, <1>4, <2>1, Zenon
  <2>2. CASE e.summary \notin {NoText, e.def.desc}
    <3>1. Range(e.def.desc) \subseteq Range(d.desc) /\ Range(e.summary) \subseteq Range(d.desc)
      BY <1>1, <1>2, <1>3, <2>2, Zenon
    <3> QED
      BY <3>1, Zenon
  <2> QED
    BY <2>1, <2>2, Zenon
<1>6. \A w \in Range(e.tags) : Meets(<<w>>) => Meets(d.tags)
  <2> SUFFICES ASSUME NEW w \in Range(e.tags), Meets(<<w>>) PROVE Meets(d.tags)
    BY Zenon
  <2>1. Range(<<w>>) = {w}
    BY DEF Range
  <2> QED
    BY <1>1, <2>1, Zenon
<1>7. Meets(e.def.name) => Meets(d.name)
  BY <1>1, Zenon
<1>8. Meets(e.def.title) => Meets(d.title)
  BY <1>1, Zenon
<1>9. \E x \in {d.name, d.title, d.desc, d.tags} : Meets(x)
  BY <1>5, <1>6, <1>7, <1>8, Zenon
<1> QED
  BY <1>9, Zenon DEF d

\* What a client is owed by a search gets a score.
LEMMA OwedIsScored ==
    ASSUME Indexed, NEW q \in Text, q # NoText, NEW cat, NEW embeds \in BOOLEAN
    PROVE  LET f == collectScoredEntries(q, cat, embeds)
           IN Scores(f) /\ DOMAIN f \subseteq DOMAIN entries /\ Owed(q, cat) \subseteq DOMAIN f
<1> DEFINE f == collectScoredEntries(q, cat, embeds)
           b == bm25Search(q)
           v == vectorSearch(q)
           h == hybridSearch(q, embeds)
           Texts(e) == {e.def.name, e.def.title} \cup {<<w>> : w \in Range(e.tags)}
           Phrase(e) == \E x \in Texts(e) \cup {e.desc} : HasPhrase(x, q)
           Word(e) == \E x \in Texts(e) \cup {e.def.desc, e.summary} : Range(x) \cap ExpandQuery(q) # {}
<1>0. Entered(entries) /\ Filed(lexical) /\ Filed(vectors)
  BY Zenon DEF Indexed
<1>1. /\ Owed(q, cat) \subseteq {t \in DOMAIN entries : InCategory(t, cat)}
      /\ engine = "substring" => \A t \in Owed(q, cat) : Phrase(entries[t])
      /\ engine \in {"bm25", "hybrid"} => \A t \in Owed(q, cat) : Word(entries[t])
      /\ engine \notin {"bm25", "hybrid", "substring"} => Owed(q, cat) = {}
  <2>1. CASE engine = "substring"
    BY <2>1 DEF Owed
  <2>2. CASE engine \in {"bm25", "hybrid"}
    BY <2>2 DEF Owed
  <2>3. CASE engine \notin {"bm25", "hybrid", "substring"}
    BY <2>3 DEF Owed
  <2> QED
    BY <2>1, <2>2, <2>3
<1>2. /\ Scores(b) /\ DOMAIN b \subseteq Listable
      /\ \A t \in DOMAIN lexical :
            (\E x \in {lexical[t].name, lexical[t].title, lexical[t].desc, lexical[t].tags} :
                Range(x) \cap ExpandQuery(q) # {}) => t \in DOMAIN b
  <2>1. DOMAIN lexical \subseteq Listable
    BY <1>0, Zenon DEF Filed
  <2> QED
    BY <1>0, <2>1, Bm25Facts, Zenon
<1>3. Scores(v) /\ DOMAIN v \subseteq Listable
  BY <1>0, VectorFacts, Zenon
<1>4. Scores(h) /\ DOMAIN b \subseteq DOMAIN h
  <2>1. CASE DOMAIN vectors # {} /\ ~embeds
    BY <1>2, <2>1, Zenon DEF hybridSearch
  <2>2. CASE ~(DOMAIN vectors # {} /\ ~embeds)
    <3>1. h = fuseRRF(Ranked(b), Ranked(v))
      BY <2>2, Zenon DEF hybridSearch
    <3> HIDE DEF b, v, h
    <3>2. LET g == fuseRRF(Ranked(b), Ranked(v)) IN Scores(g) /\ DOMAIN g = DOMAIN b \cup DOMAIN v
      BY <1>2, <1>3, FusedFacts, Zenon
    <3> QED
      BY <3>1, <3>2, Zenon
  <2> QED
    BY <2>1, <2>2, Zenon
<1>5. ASSUME engine \in {"bm25", "hybrid"} PROVE Owed(q, cat) \subseteq DOMAIN b
  <2> SUFFICES ASSUME NEW t \in Owed(q, cat) PROVE t \in DOMAIN b
    BY Zenon
  <2>1. t \in DOMAIN entries /\ Word(entries[t])
    BY <1>1, <1>5, Zenon
  <2>2. entries[t] \in DiscoveryEntry /\ t \in DOMAIN lexical /\ lexical[t] = Document(entries[t])
    BY <1>0, <1>5, <2>1, Zenon DEF Entered, Indexed
  <2> DEFINE d == Document(entries[t])
  <2>3. \E x \in {d.name, d.title, d.desc, d.tags} : Range(x) \cap ExpandQuery(q) # {}
    BY <2>1, <2>2, WordIsFound, Zenon
  <2> HIDE DEF d
  <2>4. lexical[t] = d
    BY <2>2, Zenon DEF d
  <2> HIDE DEF b
  <2> QED
    BY <1>2, <2>2, <2>3, <2>4, Zenon
<1>6. ASSUME NEW g, Scores(g)
      PROVE  /\ Scores(Prioritised(g, cat))
             /\ DOMAIN Prioritised(g, cat) = {t \in DOMAIN g \cap DOMAIN entries : InCategory(t, cat)}
  BY <1>0, <1>6, PrioritisedFacts, Zenon
<1>7. ASSUME NEW g, Scores(g), f = Prioritised(g, cat), Owed(q, cat) \subseteq DOMAIN g
      PROVE  Scores(f) /\ DOMAIN f \subseteq DOMAIN entries /\ Owed(q, cat) \subseteq DOMAIN f
  <2> HIDE DEF f
  <2>1. Scores(f) /\ DOMAIN f = {t \in DOMAIN g \cap DOMAIN entries : InCategory(t, cat)}
    BY <1>6, <1>7, Zenon
  <2> QED
    BY <1>1, <1>7, <2>1, Zenon
<1>8. ASSUME engine \notin {"bm25", "hybrid"}, f = collectScoredEntriesSubstring(q, cat)
      PROVE  Scores(f) /\ DOMAIN f \subseteq DOMAIN entries /\ Owed(q, cat) \subseteq DOMAIN f
  <2> HIDE DEF f
  <2>1. Scores(f) /\ DOMAIN f = {t \in DOMAIN entries : scoreEntry(entries[t], q) > 0 /\ InCategory(t, cat)}
    BY <1>0, <1>8, SubstringFacts, Zenon
  <2>2. ASSUME NEW t \in Owed(q, cat) PROVE scoreEntry(entries[t], q) > 0
    <3>1. Phrase(entries[t]) /\ entries[t] \in DiscoveryEntry
      BY <1>0, <1>1, <1>8, Zenon DEF Entered
    <3> DEFINE e == entries[t]
    <3>2. HasPhrase(e.def.name, q) \/ HasPhrase(e.def.title, q) \/ HasPhrase(e.desc, q)
          \/ \E w \in Range(e.tags) : HasPhrase(<<w>>, q)
      BY <3>1, Zenon
    <3> QED
      BY <3>1, <3>2, EntryScore, Zenon
  <2> QED
    BY <1>1, <2>1, <2>2, Zenon
<1> DEFINE Goal == Scores(f) /\ DOMAIN f \subseteq DOMAIN entries /\ Owed(q, cat) \subseteq DOMAIN f
<1>9. Goal
  <2>1. CASE engine = "bm25"
    <3>1. f = Prioritised(b, cat)
      BY <2>1 DEF collectScoredEntries
    <3> HIDE DEF b, f
    <3> QED
      BY <1>2, <1>5, <1>7, <2>1, <3>1, Zenon
  <2>2. CASE engine = "hybrid"
    <3>1. f = Prioritised(h, cat)
      BY <2>2 DEF collectScoredEntries
    <3> HIDE DEF b, h, f
    <3>2. Owed(q, cat) \subseteq DOMAIN h
      BY <1>4, <1>5, <2>2, Zenon
    <3> QED
      BY <1>4, <1>7, <3>1, <3>2, Zenon
  <2>3. CASE engine = "vector" /\ (embeds \/ DOMAIN vectors = {})
    <3>1. f = Prioritised(v, cat)
      BY <2>3 DEF collectScoredEntries
    <3>2. Owed(q, cat) = {}
      BY <1>1, <2>3
    <3> HIDE DEF v, f
    <3>3. Owed(q, cat) \subseteq DOMAIN v
      BY <3>2, Zenon
    <3> QED
      BY <1>3, <1>7, <3>1, <3>3, Zenon
  <2>4. CASE ~(engine = "bm25" \/ engine = "hybrid" \/ (engine = "vector" /\ (embeds \/ DOMAIN vectors = {})))
    <3>1. f = collectScoredEntriesSubstring(q, cat)
      BY <2>4 DEF collectScoredEntries
    <3>2. engine \notin {"bm25", "hybrid"}
      BY <2>4, Zenon
    <3> HIDE DEF f
    <3> QED
      BY <1>8, <3>1, <3>2, Zenon
  <2> QED
    BY <2>1, <2>2, <2>3, <2>4, Zenon
<1> QED
  BY <1>9, Zenon DEF f, Goal

-----------------------------------------------------------------------------
(* Paging through the browser.                                             *)

\* What a browser ranks: the matches of a query, or every tool of a category.
Browsed(q, cat, embeds) ==
    IF q # NoText THEN collectScoredEntries(q, cat, embeds)
    ELSE [t \in {k \in DOMAIN entries : InCategory(k, cat)} |-> 0]

\* A page size within the limits is used as it is, or as the largest there is.
LEMMA BrowsedPage ==
    ASSUME NEW q, NEW cat, NEW embeds, NEW per \in 1..MaxLimit, NEW p \in Nat \ {0}
    PROVE  LET k == Min({per, MaxPerPage})
               s == Ranked(Browsed(q, cat, embeds))
               r == HandleToolBrowse(q, cat, p, per, embeds)
           IN k \in Nat \ {0} /\ r.page = paginateScored(s, (p - 1) * k, k) /\ r.total = Len(s)
<1> DEFINE k == Min({per, MaxPerPage})
           s == Ranked(Browsed(q, cat, embeds))
           r == HandleToolBrowse(q, cat, p, per, embeds)
           o == (p - 1) * k
           Answer == [page |-> paginateScored(s, o, k), total |-> Len(s)]
<1>1. per \in Int /\ MaxPerPage \in Int /\ MaxLimit \in Int /\ 0 < per /\ per <= MaxLimit /\ 0 < MaxPerPage
  BY SearchAssumption
<1>2. k = IF per <= MaxPerPage THEN per ELSE MaxPerPage
  BY <1>1, MinOfTwo, Zenon
<1> HIDE DEF k
<1>3. k \in Nat \ {0} /\ k <= MaxLimit /\ k \in Int
  BY <1>1, <1>2
<1>4. clampLimit(k) = k
  <2>1. Min({k, MaxLimit}) = IF k <= MaxLimit THEN k ELSE MaxLimit
    BY <1>1, <1>3, MinOfTwo, Zenon
  <2>2. ~(k <= 0)
    BY <1>3
  <2> QED
    BY <1>3, <2>1, <2>2, Zenon DEF clampLimit
<1>5. Max({p, 1}) = p
  <2>1. p \in Int /\ 1 \in Int /\ p >= 1
    OBVIOUS
  <2> QED
    BY <2>1, MaxOfTwo, Zenon
<1>6. ~(per <= 0)
  BY <1>1
<1>7. r = IF q # NoText THEN SearchIndex(q, cat, o, k, embeds) ELSE Browse(cat, o, k)
  BY <1>5, <1>6, Zenon DEF HandleToolBrowse, k
<1>8. r = Answer
  <2> HIDE DEF o, r
  <2>1. CASE q # NoText
    BY <1>4, <1>7, <2>1, Zenon DEF SearchIndex, Browsed
  <2>2. CASE q = NoText
    BY <1>4, <1>7, <2>2, Zenon DEF Browse, Browsed
  <2> QED
    BY <2>1, <2>2, Zenon
<1>9. r.page = paginateScored(s, o, k) /\ r.total = Len(s)
  <2> DEFINE x == paginateScored(s, o, k)
             y == Len(s)
  <2>1. r = [page |-> x, total |-> y]
    BY <1>8, Zenon
  <2> HIDE DEF r, x, y
  <2>2. r.page = x /\ r.total = y
    BY <2>1
  <2> QED
    BY <2>2, Zenon DEF x, y
<1> QED
  BY <1>3, <1>9, Zenon DEF k

\* What is browsed are current tools, with every one that is owed.
LEMMA BrowsedFacts ==
    ASSUME Indexed, NEW q \in Text, NEW cat, NEW embeds \in BOOLEAN
    PROVE  LET f == Browsed(q, cat, embeds)
           IN Scores(f) /\ DOMAIN f \subseteq DOMAIN entries /\ Owed(q, cat) \subseteq DOMAIN f
<1>1. CASE q # NoText
  <2>1. Browsed(q, cat, embeds) = collectScoredEntries(q, cat, embeds)
    BY <1>1, Zenon DEF Browsed
  <2> DEFINE f == collectScoredEntries(q, cat, embeds)
  <2>2. Scores(f) /\ DOMAIN f \subseteq DOMAIN entries /\ Owed(q, cat) \subseteq DOMAIN f
    BY <1>1, OwedIsScored
  <2> QED
    BY <2>1, <2>2, Zenon
<1>2. CASE q = NoText
  <2> DEFINE D == {k \in DOMAIN entries : InCategory(k, cat)}
             f == Browsed(q, cat, embeds)
  <2>1. f = [t \in D |-> 0]
    BY <1>2, Zenon DEF Browsed
  <2>2. Owed(q, cat) \subseteq D /\ D \subseteq DOMAIN entries
    BY Zenon DEF Owed
  <2>3. DOMAIN entries \subseteq Listable
    BY Zenon DEF Indexed, Entered
  <2> HIDE DEF f
  <2>4. DOMAIN f = D /\ \A t \in D : f[t] = 0
    BY <2>1, Zenon
  <2>5. 0 \in Int
    OBVIOUS
  <2> HIDE DEF D
  <2>6. DOMAIN f \subseteq Listable /\ \A t \in DOMAIN f : f[t] \in Int
    BY <2>2, <2>3, <2>4, <2>5, Zenon
  <2>7. Scores(f)
    BY <2>6, ListableScores, Zenon
  <2> QED
    BY <2>2, <2>4, <2>7, Zenon DEF f
<1> QED
  BY <1>1, <1>2, Zenon

\* The pages of a browser.
PagesOf(q, cat, per, embeds) ==
    [p \in 1..(Cardinality(Listable) + 1) |-> HandleToolBrowse(q, cat, p, per, embeds).page]

LEMMA IndexedShowsEveryMatch == Indexed => PagesShowEveryMatch
<1> DEFINE N == Cardinality(Listable)
<1> SUFFICES ASSUME Indexed,
                    NEW q \in Queries \cup {NoText},
                    NEW cat \in {Anything} \cup {Catalog[t].category : t \in Listable},
                    NEW per \in 1..MaxLimit, NEW embeds \in BOOLEAN
             PROVE  PagesAreComplete(q, cat, per, embeds)
  BY DEF PagesShowEveryMatch
<1> DEFINE f == Browsed(q, cat, embeds)
           s == Ranked(f)
           k == Min({per, MaxPerPage})
           pages == PagesOf(q, cat, per, embeds)
           total == HandleToolBrowse(q, cat, 1, per, embeds).total
<1>1. q \in Text
  <2>1. NoText \in Text
    BY DEF NoText, Text
  <2> QED
    BY <2>1, SearchAssumption, Zenon
<1>2. Scores(f) /\ DOMAIN f \subseteq DOMAIN entries /\ Owed(q, cat) \subseteq DOMAIN f
  BY <1>1, BrowsedFacts
<1>3. \A p \in Nat \ {0} : /\ k \in Nat \ {0} /\ HandleToolBrowse(q, cat, p, per, embeds).page = paginateScored(s, (p - 1) * k, k)
                           /\ HandleToolBrowse(q, cat, p, per, embeds).total = Len(s)
  BY BrowsedPage
<1>4. k \in Nat \ {0} /\ total = Len(s)
  <2>1. 1 \in Nat \ {0}
    OBVIOUS
  <2> QED
    BY <1>3, <2>1, Zenon
<1>5. N \in Nat
  BY ListableFacts, Zenon
<1>6. pages = PagesUpTo(s, k, N + 1)
  <2>1. \A p \in 1..(N + 1) : p \in Nat \ {0}
    BY <1>5
  <2>2. \A p \in 1..(N + 1) : HandleToolBrowse(q, cat, p, per, embeds).page = paginateScored(s, (p - 1) * k, k)
    BY <1>3, <2>1, Zenon
  <2> QED
    BY <2>2, Zenon DEF PagesOf, PagesUpTo
<1>7. /\ s \in Seq(DOMAIN f) /\ Len(s) = Cardinality(DOMAIN f)
      /\ \A i, j \in 1..Len(s) : s[i] = s[j] => i = j
      /\ Range(s) = DOMAIN f
  <2> HIDE DEF f
  <2> QED
    BY <1>2, RankedFacts, Zenon
<1>8. Len(s) <= N
  <2>1. DOMAIN f \in SUBSET Listable
    BY <1>2, Zenon DEF Indexed, Entered
  <2>2. Cardinality(DOMAIN f) <= Cardinality(Listable)
    BY <2>1, ListableFacts, FS_Subset, Zenon
  <2> QED
    BY <1>7, <2>2, Zenon
<1>9. IsInjective(ShownOn(pages)) /\ Cardinality(Places(pages)) = Len(s) /\ Range(ShownOn(pages)) = Range(s)
  <2> DEFINE D == DOMAIN f
  <2>1. s \in Seq(D) /\ (\A i, j \in 1..Len(s) : s[i] = s[j] => i = j)
    BY <1>7, Zenon
  <2> HIDE DEF N, k, s, pages, D
  <2> QED
    BY <1>4, <1>5, <1>6, <1>8, <2>1, PagesTile
<1>10. IsInjective(ShownOn(pages)) /\ Cardinality(Places(pages)) = total
       /\ Owed(q, cat) \subseteq Range(ShownOn(pages)) /\ Range(ShownOn(pages)) \subseteq DOMAIN entries
  <2> HIDE DEF f, s, pages, total
  <2> QED
    BY <1>2, <1>4, <1>7, <1>9, Zenon
<1> QED
  BY <1>10, Zenon DEF PagesAreComplete, PagesOf, ShownOn, Places

\* Paging through the tool browser with any page size that is not clamped
\* shows every tool owed to the query, each once and only current ones, and as
\* many as the total says: with every engine, however often the embedding model
\* failed while the index was rebuilt, and whether or not it answers now.
THEOREM BrowsingIsComplete == SSpec => []PagesShowEveryMatch
<1>1. SInit => Indexed
  BY IndexedInductive
<1>2. Indexed /\ [SNext]_svars => Indexed'
  BY IndexedInductive
<1>3. Indexed => PagesShowEveryMatch
  BY IndexedShowsEveryMatch
<1> QED
  BY <1>1, <1>2, <1>3, PTL DEF SSpec
=============================================================================
