------------------------------- MODULE Proxy --------------------------------
(***************************************************************************)
(* The unified endpoint of one gateway pod: what it lists, and where its   *)
(* calls go, while servers re-register, move and leave (internal/proxy     *)
(* server.go, tools.go, router.go, client.go, catalog.go and resources.go, *)
(* and the invalidation subscription of cmd/mcpgw/serve.go).               *)
(*                                                                         *)
(* A server keeps its id when it registers again; its address and its      *)
(* tool definitions, an edition number, may change.  The pod learns of a   *)
(* registration through two subscriptions that nothing orders: one         *)
(* refreshes the capability index, the other drops cached definitions and  *)
(* resets the debounce of the registry sync.  Listings are gathered by two *)
(* goroutines: a request that passed the sync hook, under syncMu, and the  *)
(* catalogue, under no lock; both write the tool cache.                    *)
(***************************************************************************)
EXTENDS ToolNames, FiniteSetsExt

CONSTANTS
    Servers,        \* the identities (and ids) of the servers
    Fleets,         \* for each namespace mode, the sets of servers considered together
    ToolOrder,      \* the raw tool names in the order of index.ListTools
    Addrs,          \* where each server may listen
    NoAddr,
    TTL,            \* of a cached definition, in ticks; also the debounce
    MaxFetch,       \* the longest a listing of a backend takes
    MaxEditions     \* changes of the registry

ASSUME BoundsAssumption ==
    /\ TTL \in Nat \ {0} /\ MaxFetch \in Nat /\ MaxEditions \in Nat
    /\ Fleets \in [Modes -> SUBSET SUBSET Servers]
    /\ ToolOrder \in Seq(Range(ToolOrder))
    /\ \A s \in Servers : Profile[s].tools \subseteq Range(ToolOrder)

\* Names tell servers apart, as the deployments in the documentation do: a
\* display name is one word, no other server goes by it or registers a raw
\* name that begins with it and one of the server's tools.  The gateway does
\* not refuse registrations that break this; where it fails, a call may reach
\* a namesake.
ASSUME NamesAssumption ==
    /\ IsFiniteSet(Servers)
    /\ \A s \in Servers :
        /\ Profile[s].display = <<Head(Profile[s].display)>> /\ Profile[s].display # <<"mcp">>
        /\ \A t \in Profile[s].tools : t \in Seq(Range(t)) \ {<<>>}
    /\ \A r, s \in Servers :
        /\ Profile[s].display \in {Profile[r].full, Profile[r].display, <<r>>} => r = s
        /\ \A t \in Profile[s].tools : Profile[s].display \o t \in Profile[r].tools => r = s

VARIABLES
    mode,       \* the namespace mode of the configuration
    fleet,      \* the servers there are
    real,       \* the registry: the edition and the address of each server
    editions,   \* changes of the registry so far
    index,      \* the capability index of the pod
    stale,      \* the servers whose index refresh is still under way
    events,     \* messages for the invalidation subscription; one that is
                \* lost stays here
    resetting,  \* an invalidation waits for syncMu
    clients,    \* ProxyServer.clients: the address each client was made for
    routes,     \* Router.clients
    cache,      \* the tool cache
    tools,      \* what the MCP server lists and accepts calls for
    debounce,   \* the time until a request syncs again
    agg,        \* the aggregations under way
    calm        \* the time since something that concerns a listing happened

config == <<mode, fleet>>
registry == <<real, editions>>
pod == <<index, stale, events, resetting>>
conns == <<clients, routes>>
listing == <<cache, tools, debounce, agg>>
pvars == <<config, registry, pod, conns, listing, calm>>

-----------------------------------------------------------------------------
(* Records, clients and cached definitions.                                *)

None == [edition |-> 0, addr |-> NoAddr]
Record(s, reg) == [id |-> s, edition |-> reg.edition, addr |-> reg.addr]

\* CapabilityIndex.removeLocked and RefreshServer: what is refreshed goes to
\* the end of every lookup.
Removed(ix, s) == Kept(ix, {r \in Range(ix) : r.id # s})
Refreshed(ix, s) == IF real[s] = None THEN Removed(ix, s)
                    ELSE Append(Removed(ix, s), Record(s, real[s]))

\* Mutation: the router is not told of the client.
getOrCreateUnshared(r) ==
    /\ clients' = [clients EXCEPT ![r.id] = IF @ = NoAddr THEN r.addr ELSE @]
    /\ UNCHANGED routes

\* The two ways into Router.clients: Store replaces, LoadOrStore does not.
StoreBackendClient(r, a) == routes' = [routes EXCEPT ![r.id] = a]
GetOrCreateClient(r) == routes' = [routes EXCEPT ![r.id] = IF @ = NoAddr THEN r.addr ELSE @]

\* ProxyServer.getOrCreateClient: the client of an id is made once, and the
\* router is given it every time.
getOrCreateClient(r) ==
    /\ clients' = [clients EXCEPT ![r.id] = IF @ = NoAddr THEN r.addr ELSE @]
    /\ StoreBackendClient(r, clients'[r.id])

\* handleListResources asks every server of the index that has resources.
handleListResources ==
    LET asked == {r \in Range(index) : Resources(r) # {}}
        Made(s) == {r.addr : r \in {q \in asked : q.id = s}}
    IN /\ clients' = [s \in Servers |-> IF clients[s] = NoAddr /\ Made(s) # {}
                                       THEN CHOOSE x \in Made(s) : TRUE ELSE clients[s]]
       /\ routes' = [s \in Servers |-> IF Made(s) # {} THEN clients'[s] ELSE routes[s]]

\* A cache entry: the definition, the server it is filed under and its age.
Get(n) == {e \in cache : e.name = n}
InvalidateServer(s) == {e \in cache : e.server # s}
Set(n, edition, s) == (cache \ Get(n)) \cup {[name |-> n, edition |-> edition, server |-> s, age |-> 0]}

\* Mutation: an entry that is used starts a new life.
AgedOnlyUnlisted(es) ==
    {[e EXCEPT !.age = @ + 1] : e \in {x \in es : x.age < TTL /\ x.name \notin {t.name : t \in tools}}}
    \cup {e \in es : e.name \in {t.name : t \in tools}}

\* Get serves an entry up to and at the age of TTL, and deletes it after.
Aged(es) == {[e EXCEPT !.age = @ + 1] : e \in {x \in es : x.age < TTL}}

\* The mutex syncMu is held by an aggregation of the sync hook.
Aggregators == {"sync", "catalog"}
Idle == [pc |-> "idle", todo |-> <<>>, rest |-> <<>>, name |-> <<>>, defs |-> {},
         result |-> {}, spent |-> 0]
SyncFree == agg["sync"].pc = "idle"

-----------------------------------------------------------------------------
PInit ==
    /\ mode \in Modes /\ fleet \in Fleets[mode]
    /\ \E there \in SUBSET fleet, at \in [Servers -> UNION {Addrs[s] : s \in Servers}] :
        /\ \A s \in Servers : at[s] \in Addrs[s]
        /\ real = [s \in Servers |-> IF s \in there THEN [edition |-> 1, addr |-> at[s]] ELSE None]
    /\ editions = 1
    \* Rebuild at start-up, from the rows that are active.
    /\ LET up == {s \in Servers : real[s] # None}
       IN index \in {[i \in DOMAIN q |-> Record(q[i], real[q[i]])] : q \in Bijection(1..Cardinality(up), up)}
    /\ stale = {} /\ events = {} /\ resetting = FALSE
    /\ clients = [s \in Servers |-> NoAddr] /\ routes = clients
    /\ cache = {} /\ tools = {}
    /\ debounce = 0
    /\ agg = [a \in Aggregators |-> Idle]
    /\ calm = 0

-----------------------------------------------------------------------------
(* The servers, and the news of them.                                      *)

Announce(s, type) ==
    /\ stale' = stale \cup {s}
    /\ events' = events \cup {[type |-> type, server |-> s]}
    /\ calm' = 0

\* A server registers, with new definitions and perhaps from elsewhere.
Register(s, a) ==
    /\ editions < MaxEditions
    /\ editions' = editions + 1
    /\ real' = [real EXCEPT ![s] = [edition |-> editions', addr |-> a]]
    /\ Announce(s, "registered")
    /\ UNCHANGED <<config, index, resetting, conns, listing>>

Deregister(s) ==
    /\ real[s] # None /\ editions < MaxEditions
    /\ editions' = editions + 1
    /\ real' = [real EXCEPT ![s] = None]
    /\ Announce(s, "deregistered")
    /\ UNCHANGED <<config, index, resetting, conns, listing>>

\* The sync subscriber refreshes or removes the server.
RefreshServer(s) ==
    /\ s \in stale
    /\ stale' = stale \ {s}
    /\ index' = Refreshed(index, s)
    /\ calm' = 0
    /\ UNCHANGED <<config, registry, events, resetting, conns, listing>>

\* subscribeToolCacheInvalidation, up to the lock of resetSyncDebounce.
Invalidate(e) ==
    /\ e \in events /\ ~resetting
    /\ events' = events \ {e}
    /\ resetting' = TRUE
    /\ cache' = IF e.type = "deregistered" THEN {} ELSE InvalidateServer(e.server)
    /\ UNCHANGED <<config, registry, index, stale, conns, tools, debounce, agg, calm>>

resetSyncDebounce ==
    /\ resetting /\ SyncFree
    /\ resetting' = FALSE
    /\ debounce' = 0
    /\ UNCHANGED <<config, registry, index, stale, events, conns, cache, tools, agg, calm>>

-----------------------------------------------------------------------------
(* Listings.                                                               *)

Stay == UNCHANGED <<config, registry, pod>>
Over(new, old) == [f \in DOMAIN new \cup DOMAIN old |-> IF f \in DOMAIN new THEN new[f] ELSE old[f]]
With(a, fields) == agg' = [agg EXCEPT ![a] = Over(fields, @)]

\* handleListTools and the head of aggregateTool: the next of these tools that
\* has candidates, with them.
FromTool(ts) ==
    LET at == {i \in DOMAIN ts : LookupTool(index, ts[i]) # {}}
    IN IF at = {} THEN [pc |-> "done", todo |-> <<>>, rest |-> <<>>]
       ELSE [pc |-> "pick", todo |-> SubSeq(ts, Min(at), Len(ts)),
             rest |-> Kept(index, LookupTool(index, ts[Min(at)]))]

\* syncMCPRegistry by a request that is not debounced: the time counts from
\* here, whatever becomes of the sync.
SyncBegin ==
    /\ SyncFree /\ debounce = 0
    /\ debounce' = TTL
    /\ With("sync", FromTool(ToolOrder))
    /\ Stay /\ UNCHANGED <<conns, cache, tools, calm>>

\* ListCatalogTools.
CatalogBegin ==
    /\ agg["catalog"].pc = "idle" /\ index # <<>>
    /\ With("catalog", FromTool(ToolOrder))
    /\ Stay /\ UNCHANGED <<conns, cache, tools, debounce, calm>>

Tool(a) == Head(agg[a].todo)
Backend(a) == Head(agg[a].rest)
Loaded(a) == {d \in agg[a].defs : d.server = Backend(a).id}

\* The next candidate, with these tools added to the result.
Advance(a, found) ==
    LET to == IF Len(agg[a].rest) > 1 THEN [pc |-> "pick", rest |-> Tail(agg[a].rest)]
              ELSE FromTool(Tail(agg[a].todo))
    IN IF to.pc = "done" /\ a = "catalog" THEN agg' = [agg EXCEPT ![a] = Idle]
       ELSE With(a, Over(to, [name |-> <<>>, spent |-> 0, result |-> agg[a].result \cup found]))

\* Who answers at an address: the process registered there; at a former one
\* nobody, or a process that was left behind.
Answers(s, a) == IF real[s].addr = a THEN {real[s].edition} ELSE 0..(editions - 1)

\* loadBackendDefinitions: client.ListTools, once in an aggregation; an error
\* leaves the server without definitions.
Fetch(a, n) ==
    LET s == Backend(a).id
        Answered(e) == With(a, [pc |-> "set", name |-> n, defs |-> agg[a].defs \cup {[server |-> s, edition |-> e]}])
    IN /\ getOrCreateClient(Backend(a))
       /\ \/ /\ \E e \in Answers(s, clients'[s]) : Answered(e)
             /\ UNCHANGED calm
          \/ Answered(0) /\ calm' = 0

\* One candidate: listed already, in the cache, fetched with an earlier tool
\* (which leaves nothing to wait for), or to be fetched.  The answer is on its
\* way until SetTool.
Pick(a) ==
    /\ agg[a].pc = "pick"
    /\ LET n == FederatedName(mode, index, Backend(a), Tool(a))
           seen == \E x \in agg[a].result : x.name = n
       IN \/ seen /\ Advance(a, {}) /\ UNCHANGED <<conns, calm>>
          \/ /\ ~seen /\ UNCHANGED <<conns, calm>>
             /\ \E e \in Get(n) :
                    Advance(a, {[name |-> n, edition |-> e.edition, server |-> e.server]})
          \/ /\ ~seen /\ Get(n) = {} /\ Loaded(a) # {}
             /\ With(a, [pc |-> "set", name |-> n, spent |-> MaxFetch])
             /\ UNCHANGED <<conns, calm>>
          \/ ~seen /\ Get(n) = {} /\ Loaded(a) = {} /\ Fetch(a, n)
    /\ UNCHANGED <<config, registry, pod, cache, tools, debounce>>

\* resolveFromBackend: the definition is cached and listed; without one the
\* candidate is skipped.
SetTool(a) ==
    /\ agg[a].pc = "set"
    /\ \E d \in Loaded(a) :
        IF d.edition = 0 THEN Advance(a, {}) /\ UNCHANGED cache
        ELSE /\ cache' = Set(agg[a].name, d.edition, Backend(a).id)
             /\ Advance(a, {[name |-> agg[a].name, edition |-> d.edition, server |-> Backend(a).id]})
    /\ Stay /\ UNCHANGED <<conns, tools, debounce, calm>>

\* SetTools replaces the list, syncMCPResources follows, and syncMu is
\* released.
SyncEnd ==
    /\ agg["sync"].pc = "done"
    /\ tools' = agg["sync"].result
    /\ handleListResources
    /\ agg' = [agg EXCEPT !["sync"] = Idle]
    /\ Stay /\ UNCHANGED <<cache, debounce, calm>>

-----------------------------------------------------------------------------
(* Calls.  A request waits for syncMu first, so the tools it finds are not *)
(* those of a sync under way.                                              *)

\* Round robin and session affinity pick one of the candidates; which one
\* depends on a counter and a hash that nothing here knows.
Select(rs) == rs

\* Router.Route: the call goes through the client the router has, or one it
\* makes.
Route(n) ==
    /\ SyncFree /\ debounce > 0
    /\ \E r \in Select(Candidates(index, n)) : GetOrCreateClient(r)
    /\ UNCHANGED <<config, registry, pod, clients, listing, calm>>

\* A call of a raw name with the header X-MCP-Server, which the handler
\* rewrites before the MCP server looks it up among its tools.
CallFrom(r, t) ==
    /\ SyncFree /\ \E x \in tools : x.name = rewriteLegacyToolCallName(r, t)
    /\ Route(rewriteLegacyToolCallName(r, t))

\* handleReadResource asks the first server of the longest prefix.
ReadResource(uri) ==
    /\ SyncFree /\ debounce > 0
    /\ LET rs == LookupResource(index, uri) IN rs # <<>> /\ getOrCreateClient(rs[1])
    /\ Stay /\ UNCHANGED <<listing, calm>>

-----------------------------------------------------------------------------
(* Time.  A listing of a backend ends within MaxFetch; the other steps     *)
(* take no time worth counting.                                            *)

\* How long a disturbance can be seen: an aggregation that began before it
\* caches what it fetched then, and a sync serves that to the end of both
\* lives.
Settled == 2 * TTL + MaxFetch * Cardinality(Servers)

Tick ==
    /\ \A a \in Aggregators : agg[a].pc = "idle" \/ (agg[a].pc = "set" /\ agg[a].spent < MaxFetch)
    /\ agg' = [a \in Aggregators |-> IF agg[a].pc = "set" THEN [agg[a] EXCEPT !.spent = @ + 1] ELSE agg[a]]
    /\ debounce' = Max({0, debounce - 1})
    /\ cache' = Aged(cache)
    /\ calm' = Min({calm + 1, Settled})
    /\ UNCHANGED <<config, registry, pod, conns, tools>>

PNext ==
    \/ \E s \in fleet : Deregister(s) \/ RefreshServer(s)
    \/ \E s \in fleet : \E a \in Addrs[s] : Register(s, a)
    \/ \E e \in events : Invalidate(e)
    \/ resetSyncDebounce \/ SyncBegin \/ SyncEnd \/ CatalogBegin \/ Tick
    \/ \E a \in Aggregators : Pick(a) \/ SetTool(a)
    \/ \E x \in tools : Route(x.name)
    \/ \E r \in Range(index) : \E t \in Tools(r) : CallFrom(r, t)
    \/ \E uri \in UNION {Profile[s].resources : s \in Servers} : ReadResource(uri)

PSpec == PInit /\ [][PNext]_pvars

-----------------------------------------------------------------------------
(* Properties.                                                             *)

\* What a tools/list that passes the hook now would be answered for s, and
\* what it should be.
Listed(s) == {x \in tools : x.server = s}
Due(s) == {[name |-> FederatedName(mode, index, r, t), edition |-> real[s].edition, server |-> s] :
              r \in {q \in Range(index) : q.id = s}, t \in Profile[s].tools}

\* Listings catch up without a notice: once nothing has been registered,
\* refreshed, stopped or failed for two lifetimes of a cached definition and as
\* long as an aggregation can wait for its backends, every request that passes
\* the sync hook without a sync finds exactly the current definitions of every
\* server whose client is not bound to a former address, lost invalidations and
\* aggregations that cached old definitions notwithstanding.
ListingConverges ==
    (calm >= Settled /\ SyncFree /\ debounce > 0 /\ stale = {})
        => \A s \in Servers : (clients[s] \in {NoAddr, real[s].addr}) => Listed(s) = Due(s)

\* A call by a prefixed name never leaves for another server than the one it
\* was listed for, although the index has changed since the listing.
PrefixedNamesStayPut ==
    \A x \in tools : \A t \in Profile[x.server].tools :
        x.name = Profile[x.server].display \o t
            => \A r \in Candidates(index, x.name) : r.id = x.server

\* Listings and calls use one connection: wherever the proxy has a client
\* for a server, the router calls through that client, not through one it
\* made itself from another record of the server.
ClientsAgree ==
    \A s \in Servers : clients[s] # NoAddr => routes[s] = clients[s]
=============================================================================
