---------------------------- MODULE ProxyProofs -----------------------------
(***************************************************************************)
(* Proofs about Proxy, for any servers, addresses and tools, any number of *)
(* changes of the registry and listings that take any time.                *)
(*                                                                         *)
(* That calls and listings use one client is inductive as it stands.       *)
(* That a prefixed name is not called elsewhere is a fact about names,     *)
(* whatever the index holds when the call comes (NamesResolve); it needs   *)
(* that everything the pod keeps came from a server (Sourced).             *)
(*                                                                         *)
(* That listings catch up needs the age of everything old.  A disturbance  *)
(* lives in an aggregation no longer than that one can wait (Worst), in    *)
(* what it cached for TTL more, and in what a sync listed from the cache   *)
(* until the debounce ends.  Converging says so of each of the three, as   *)
(* long as the index agrees with the registry (Heard).                     *)
(***************************************************************************)
EXTENDS Proxy, WellFoundedInduction, FiniteSetTheorems, TLAPS

-----------------------------------------------------------------------------
(* The clients of the proxy and of the router.                             *)

Conns ==
    /\ clients = [s \in Servers |-> clients[s]]
    /\ routes = [s \in Servers |-> routes[s]]
    /\ ClientsAgree

\* The steps that touch a client: the proxy asks for one, the router does, or
\* a sync asks for those of all servers with resources.
LEMMA ConnSteps ==
    ASSUME [PNext]_pvars
    PROVE  \/ UNCHANGED conns
           \/ \E r : getOrCreateClient(r) \/ (GetOrCreateClient(r) /\ UNCHANGED clients)
           \/ handleListResources
<1>1. ASSUME NEW a \in Aggregators, Pick(a)
      PROVE  UNCHANGED conns \/ \E r : getOrCreateClient(r)
  BY <1>1, Zenon DEF Pick, Fetch
<1>2. ASSUME NEW n, Route(n)
      PROVE  \E r : GetOrCreateClient(r) /\ UNCHANGED clients
  BY <1>2, Zenon DEF Route
<1>3. ASSUME NEW uri, ReadResource(uri)
      PROVE  \E r : getOrCreateClient(r)
  BY <1>3, Zenon DEF ReadResource
<1>4. CASE SyncEnd
  BY <1>4, Zenon DEF SyncEnd
<1>5. CASE \/ \E s \in fleet : Deregister(s) \/ RefreshServer(s)
           \/ \E s \in fleet : \E a \in Addrs[s] : Register(s, a)
           \/ \E e \in events : Invalidate(e)
           \/ resetSyncDebounce \/ SyncBegin \/ CatalogBegin \/ Tick
           \/ \E a \in Aggregators : SetTool(a)
           \/ UNCHANGED pvars
  BY <1>5, Zenon DEF Deregister, RefreshServer, Register, Invalidate, resetSyncDebounce, SyncBegin,
              CatalogBegin, Tick, SetTool, pvars
<1> QED
  BY <1>1, <1>2, <1>3, <1>4, <1>5, Zenon DEF PNext, CallFrom

\* Whoever comes first makes the client, and the proxy's replaces the router's.
LEMMA ConnsInductive ==
    /\ PInit => Conns
    /\ Conns /\ [PNext]_pvars => Conns'
<1>1. PInit => Conns
  BY Zenon DEF PInit, Conns, ClientsAgree
<1>2. ASSUME Conns, [PNext]_pvars PROVE Conns'
  <2>1. CASE UNCHANGED conns
    BY <1>2, <2>1, Zenon DEF Conns, ClientsAgree, conns
  <2>2. ASSUME NEW r, getOrCreateClient(r) PROVE Conns'
    <3>1. /\ clients' = [s \in Servers |-> clients'[s]] /\ routes' = [s \in Servers |-> routes'[s]]
          /\ r.id \in Servers => routes'[r.id] = clients'[r.id]
          /\ \A s \in Servers \ {r.id} : clients'[s] = clients[s] /\ routes'[s] = routes[s]
      BY <1>2, <2>2, Zenon DEF Conns, getOrCreateClient, StoreBackendClient
    <3> QED
      BY <1>2, <3>1, Zenon DEF Conns, ClientsAgree
  <2>3. ASSUME NEW r, GetOrCreateClient(r), UNCHANGED clients PROVE Conns'
    <3>1. /\ routes' = [s \in Servers |-> routes'[s]]
          /\ \A s \in Servers : routes[s] # NoAddr \/ s # r.id => routes'[s] = routes[s]
      BY <1>2, <2>3, Zenon DEF Conns, GetOrCreateClient
    <3> QED
      BY <1>2, <2>3, <3>1, Zenon DEF Conns, ClientsAgree
  <2>4. CASE handleListResources
    <3> DEFINE Made(s) == {r.addr : r \in {q \in {p \in Range(index) : Resources(p) # {}} : q.id = s}}
    <3>1. /\ clients' = [s \in Servers |-> IF clients[s] = NoAddr /\ Made(s) # {}
                                           THEN CHOOSE x \in Made(s) : TRUE ELSE clients[s]]
          /\ routes' = [s \in Servers |-> IF Made(s) # {} THEN clients'[s] ELSE routes[s]]
      BY <2>4, Zenon DEF handleListResources
    <3> HIDE DEF Made
    <3>2. ASSUME NEW s \in Servers, clients'[s] # NoAddr PROVE routes'[s] = clients'[s]
      <4>1. CASE Made(s) # {}
        BY <3>1, <4>1, Zenon
      <4>2. CASE Made(s) = {}
        <5>1. clients'[s] = clients[s] /\ routes'[s] = routes[s]
          BY <3>1, <4>2, Zenon
        <5> QED
          BY <1>2, <3>2, <5>1, Zenon DEF Conns, ClientsAgree
      <4> QED
        BY <4>1, <4>2, Zenon
    <3> QED
      BY <3>1, <3>2, Zenon DEF Conns, ClientsAgree
  <2> QED
    BY <1>2, <2>1, <2>2, <2>3, <2>4, ConnSteps, Zenon
<1> QED
  BY <1>1, <1>2, Zenon

\* Router.clients never holds another client for a server than the proxy has
\* (getOrCreateClient stores, GetOrCreateClient only fills).
THEOREM ClientsStayShared == PSpec => []ClientsAgree
<1>1. PInit => Conns
  BY ConnsInductive, Zenon
<1>2. Conns /\ [PNext]_pvars => Conns'
  BY ConnsInductive, Zenon
<1>3. Conns => ClientsAgree
  BY Zenon DEF Conns
<1> QED
  BY <1>1, <1>2, <1>3, PTL DEF PSpec

-----------------------------------------------------------------------------
(* Names.                                                                  *)

\* A prefixed name leads only to the server whose display name it begins
\* with, whichever of the three ways resolveFederatedName takes.
LEMMA NamesResolve ==
    ASSUME NEW ix, \A r \in Range(ix) : r.id \in Servers,
           NEW s \in Servers, NEW t \in Profile[s].tools,
           NEW r \in Candidates(ix, Profile[s].display \o t)
    PROVE  r.id = s
<1> DEFINE d == Head(Profile[s].display)
           n == Profile[s].display \o t
           W == {d} \cup Range(t)
<1>1. Profile[s].display = <<d>> /\ <<d>> # <<"mcp">> /\ t \in Seq(Range(t)) /\ t # <<>>
  BY NamesAssumption, Zenon
<1>2. d \in W /\ t \in Seq(W) /\ t # <<>>
  BY <1>1
<1>3. /\ n = <<d>> \o t
      /\ Len(n) > 1 /\ Head(n) = d /\ Tail(n) = t /\ n[1] = d /\ d # "mcp"
  <2>1. n = <<d>> \o t /\ d # "mcp"
    BY <1>1, Zenon
  <2> HIDE DEF d, n, W
  <2>2. Len(n) > 1 /\ Head(n) = d /\ n[1] = d
    BY <1>2, <2>1
  <2>3. Tail(n) = t
    BY <1>2, <2>1
  <2> QED
    BY <2>1, <2>2, <2>3, Zenon
<1>4. r \in Range(ix) => r.id \in Servers
  BY Zenon
<1>5. ASSUME r \in LookupTool(ix, n) PROVE r.id = s
  <2>1. n \in Profile[r.id].tools /\ r.id \in Servers
    BY <1>4, <1>5, Zenon DEF LookupTool, Tools
  <2> QED
    BY <2>1, NamesAssumption, Zenon
<1>6. ASSUME r \in Range(ix), matchesServerHint(r, <<d>>) PROVE r.id = s
  <2>1. <<d>> \in {Profile[r.id].full, Profile[r.id].display, <<r.id>>} /\ r.id \in Servers
    BY <1>4, <1>6, Zenon DEF matchesServerHint, Full, Display
  <2> HIDE DEF d
  <2> QED
    BY <1>1, <2>1, NamesAssumption, Zenon
<1>7. ResolveNamespace(n) = [tool |-> t, hint |-> <<d>>]
  <2> HIDE DEF d, n
  <2> QED
    BY <1>3, Zenon DEF ResolveNamespace
<1> DEFINE found == resolveFederatedName(ix, n)
<1>8. \/ found = [tool |-> n, hint |-> NoHint]
      \/ found = [tool |-> t, hint |-> <<d>>]
  <2> HIDE DEF d, n
  <2> QED
    BY <1>3, <1>7, Zenon DEF resolveFederatedName
<1>9. r \in IF found.hint = NoHint THEN LookupTool(ix, found.tool)
            ELSE filterCandidatesByServer(LookupTool(ix, found.tool), found.hint)
  BY Zenon DEF Candidates
<1> HIDE DEF d, n, found
<1>10. CASE found = [tool |-> n, hint |-> NoHint]
  BY <1>5, <1>9, <1>10, Zenon
<1>11. CASE found = [tool |-> t, hint |-> <<d>>]
  <2>1. <<d>> # NoHint
    BY DEF NoHint
  <2>2. r \in Range(ix) /\ matchesServerHint(r, <<d>>)
    BY <1>9, <1>11, <2>1, Zenon DEF filterCandidatesByServer, LookupTool
  <2> QED
    BY <1>6, <2>2, Zenon
<1> QED
  BY <1>8, <1>10, <1>11, Zenon

-----------------------------------------------------------------------------
(* What the loops over records return.                                     *)

\* A non-empty set of numbers has a least one.
LEMMA Least ==
    ASSUME NEW T, T \subseteq Nat, T # {}
    PROVE  \E x \in T : \A y \in T : x <= y
<1>1. IsWellFoundedOn({ss \in Nat \X Nat : ss[1] < ss[2]}, Nat)
  BY NatLessThanWellFounded, Zenon DEF OpToRel
<1>2. PICK x \in T : \A y \in T : ~ (<<y, x>> \in {ss \in Nat \X Nat : ss[1] < ss[2]})
  BY <1>1, WFMin, Zenon
<1>3. \A y \in T : ~(y < x)
  BY <1>2, Zenon
<1> QED
  BY <1>3

\* Induction, stated of a set.
LEMMA Induction ==
    ASSUME NEW T, 0 \in T, \A n \in Nat : n \in T => n + 1 \in T
    PROVE  Nat \subseteq T
<1> SUFFICES ASSUME Nat \ T # {} PROVE FALSE
  BY Zenon
<1>1. PICK x \in Nat \ T : \A y \in Nat \ T : x <= y
  BY Least, Zenon
<1>2. x # 0 /\ x - 1 \in Nat
  BY <1>1
<1>3. x - 1 \in T
  BY <1>1, <1>2
<1> QED
  BY <1>1, <1>2, <1>3

\* The first tool with candidates is one of them.
LEMMA MinIsLeast ==
    ASSUME NEW T, T \subseteq Nat, T # {}
    PROVE  Min(T) \in T /\ \A y \in T : Min(T) <= y
  BY Least, Zenon DEF Min

\* The lists that the loop of Kept has made after each of n records.
KeptUpTo(f, s, keep, n) ==
    f = [i \in 0..n |-> IF i = 0 THEN <<>>
           ELSE IF s[i] \in keep THEN Append(f[i - 1], s[i]) ELSE f[i - 1]]

\* The loop has such lists for every number of records.
LEMMA KeptExists ==
    ASSUME NEW s, NEW keep, NEW n \in Nat
    PROVE  \E f : KeptUpTo(f, s, keep, n)
<1> DEFINE Next(v, i) == IF s[i] \in keep THEN Append(v, s[i]) ELSE v
           Is(f, m) == f = [i \in 0..m |-> IF i = 0 THEN <<>> ELSE Next(f[i - 1], i)]
           T == {m \in Nat : \E f : Is(f, m)}
<1>1. 0 \in T
  <2> HIDE DEF Next
  <2>1. Is([i \in 0..0 |-> <<>>], 0)
    OBVIOUS
  <2> QED
    BY <2>1, Zenon
<1>2. ASSUME NEW m \in Nat, m \in T PROVE m + 1 \in T
  <2>1. PICK f : Is(f, m)
    BY <1>2, Zenon
  <2> DEFINE g == [i \in 0..(m + 1) |-> IF i <= m THEN f[i] ELSE Next(f[m], i)]
  <2> HIDE DEF Next
  <2>2. \A i \in 0..m : f[i] = IF i = 0 THEN <<>> ELSE Next(f[i - 1], i)
    BY <2>1, Zenon
  <2>3. \A i \in 0..(m + 1) : g[i] = IF i = 0 THEN <<>> ELSE Next(g[i - 1], i)
    <3> SUFFICES ASSUME NEW i \in 0..(m + 1)
                 PROVE  g[i] = IF i = 0 THEN <<>> ELSE Next(g[i - 1], i)
      BY Zenon
    <3>1. CASE i = 0
      BY <2>2, <3>1
    <3>2. CASE i # 0 /\ i <= m
      <4>1. g[i] = f[i] /\ g[i - 1] = f[i - 1]
        BY <3>2
      <4> QED
        BY <2>2, <3>2, <4>1
    <3>3. CASE i = m + 1
      <4>1. g[i] = Next(f[m], i) /\ g[i - 1] = f[m] /\ i # 0
        BY <3>3
      <4> QED
        BY <4>1, Zenon
    <3> QED
      BY <3>1, <3>2, <3>3
  <2>4. Is(g, m + 1)
    BY <2>3, Zenon
  <2> HIDE DEF g, Is
  <2> QED
    BY <2>4
<1> HIDE DEF T
<1>3. n \in T
  BY <1>1, <1>2, Induction, Zenon
<1> QED
  BY <1>3, Zenon DEF T, KeptUpTo

\* Every list is a list of its members.
LEMMA OwnMembers ==
    ASSUME NEW S, NEW q \in Seq(S)
    PROVE  q \in Seq(Range(q)) /\ Range(q) \subseteq S
<1>1. Range(q) = {q[i] : i \in 1..Len(q)}
  BY DEF Range
<1>2. Range(q) \subseteq S
  BY <1>1
<1>3. Len(q) \in Nat /\ q \in [1..Len(q) -> Range(q)]
  BY <1>1
<1> QED
  BY <1>2, <1>3

\* A list with one more.
LEMMA AppendMembers ==
    ASSUME NEW S, NEW q \in Seq(S), NEW v
    PROVE  Range(Append(q, v)) = Range(q) \cup {v}
<1> DEFINE T == S \cup {v}
           n == Len(q)
           a == Append(q, v)
<1>1. q \in Seq(T) /\ v \in T
  OBVIOUS
<1> HIDE DEF T
<1>2. /\ n \in Nat /\ DOMAIN q = 1..n /\ DOMAIN a = 1..(n + 1) /\ a[n + 1] = v
      /\ \A i \in 1..n : a[i] = q[i]
  BY <1>1
<1>3. \A i \in 1..(n + 1) : i \in 1..n \/ i = n + 1
  BY <1>2
<1>4. n + 1 \in 1..(n + 1) /\ \A i \in 1..n : i \in 1..(n + 1)
  BY <1>2
<1> HIDE DEF n, a
<1>5. Range(a) = Range(q) \cup {v}
  BY <1>2, <1>3, <1>4, Zenon DEF Range
<1> QED
  BY <1>5, Zenon DEF a

\* A filter returns the records of its list that fit, in a list.
LEMMA KeptFacts ==
    ASSUME NEW S, NEW s \in Seq(S), NEW keep
    PROVE  Kept(s, keep) \in Seq(S \cap keep) /\ Range(Kept(s, keep)) = Range(s) \cap keep
<1> DEFINE k == CHOOSE f : KeptUpTo(f, s, keep, Len(s))
<1>1. Len(s) \in Nat /\ \A i \in 1..Len(s) : s[i] \in S
  OBVIOUS
<1>2. k = [i \in 0..Len(s) |-> IF i = 0 THEN <<>>
             ELSE IF s[i] \in keep THEN Append(k[i - 1], s[i]) ELSE k[i - 1]]
  <2>1. KeptUpTo(k, s, keep, Len(s))
    BY <1>1, KeptExists, Zenon
  <2> QED
    BY <2>1, Zenon DEF KeptUpTo
<1>3. Kept(s, keep) = k[Len(s)]
  BY Zenon DEF Kept, KeptUpTo
<1> DEFINE T == {n \in Nat : n <= Len(s) => /\ k[n] \in Seq(S \cap keep)
                                            /\ Range(k[n]) = {s[i] : i \in 1..n} \cap keep}
<1> HIDE DEF k
<1>4. 0 \in T
  <2>1. k[0] = <<>>
    BY <1>1, <1>2
  <2>2. Range(<<>>) = {} /\ 1..0 = {}
    BY DEF Range
  <2>3. <<>> \in Seq(S \cap keep)
    OBVIOUS
  <2> QED
    BY <2>1, <2>2, <2>3, Zenon
<1>5. ASSUME NEW n \in Nat, n \in T PROVE n + 1 \in T
  <2> SUFFICES ASSUME n + 1 <= Len(s)
               PROVE  /\ k[n + 1] \in Seq(S \cap keep)
                      /\ Range(k[n + 1]) = {s[i] : i \in 1..(n + 1)} \cap keep
    OBVIOUS
  <2>1. /\ k[n] \in Seq(S \cap keep) /\ s[n + 1] \in S
        /\ Range(k[n]) = {s[i] : i \in 1..n} \cap keep
    BY <1>1, <1>5
  <2>2. k[n + 1] = IF s[n + 1] \in keep THEN Append(k[n], s[n + 1]) ELSE k[n]
    <3>1. n + 1 \in 0..Len(s) /\ n + 1 # 0 /\ (n + 1) - 1 = n
      BY <1>1
    <3> QED
      BY <1>2, <3>1, Zenon
  <2>3. {s[i] : i \in 1..(n + 1)} = {s[i] : i \in 1..n} \cup {s[n + 1]}
    <3>1. 1..(n + 1) = 1..n \cup {n + 1}
      OBVIOUS
    <3> QED
      BY <3>1, Zenon
  <2>4. CASE s[n + 1] \in keep
    <3>1. k[n + 1] = Append(k[n], s[n + 1]) /\ s[n + 1] \in S \cap keep
      BY <2>1, <2>2, <2>4, Zenon
    <3>2. k[n + 1] \in Seq(S \cap keep)
      BY <2>1, <3>1, SMTT(20)
    <3>3. Range(k[n + 1]) = Range(k[n]) \cup {s[n + 1]}
      BY <2>1, <3>1, AppendMembers, Zenon
    <3> QED
      BY <2>1, <2>3, <2>4, <3>2, <3>3, Zenon
  <2>5. CASE s[n + 1] \notin keep
    <3>1. k[n + 1] = k[n]
      BY <2>2, <2>5, Zenon
    <3> QED
      BY <2>1, <2>3, <2>5, <3>1, Zenon
  <2> QED
    BY <2>4, <2>5, Zenon
<1> HIDE DEF T
<1>6. Len(s) \in T
  BY <1>1, <1>4, <1>5, Induction, Zenon
<1>7. Range(s) = {s[i] : i \in 1..Len(s)}
  BY DEF Range
<1>8. k[Len(s)] \in Seq(S \cap keep) /\ Range(k[Len(s)]) = {s[i] : i \in 1..Len(s)} \cap keep
  BY <1>1, <1>6 DEF T
<1> QED
  BY <1>3, <1>7, <1>8, Zenon

\* The first of a list and the others.
LEMMA HeadAndTail ==
    ASSUME NEW q, q \in Seq(Range(q)), q # <<>>
    PROVE  /\ Head(q) \in Range(q) /\ Tail(q) \in Seq(Range(Tail(q)))
           /\ Range(q) = {Head(q)} \cup Range(Tail(q))
<1> DEFINE S == Range(q)
           n == Len(q)
           p == Tail(q)
<1>1. q \in Seq(S) /\ q # <<>>
  BY Zenon
<1> HIDE DEF S
<1>2. Head(q) \in S /\ p \in Seq(S)
  BY <1>1
<1>3. p \in Seq(Range(p))
  BY <1>2, OwnMembers, Zenon
<1>4. /\ n \in Nat /\ n >= 1 /\ DOMAIN q = 1..n /\ Len(p) = n - 1 /\ Head(q) = q[1]
      /\ \A i \in 1..(n - 1) : p[i] = q[i + 1]
  BY <1>1
<1>5. DOMAIN p = 1..(n - 1)
  BY <1>2, <1>4
<1>6. /\ 1 \in 1..n /\ \A i \in 1..(n - 1) : i + 1 \in 1..n
      /\ \A i \in 1..n : i = 1 \/ (i - 1 \in 1..(n - 1) /\ (i - 1) + 1 = i)
  BY <1>4
<1> HIDE DEF n, p
<1>7. Range(q) = {q[1]} \cup Range(p)
  <2>1. ASSUME NEW i \in 1..n, i # 1 PROVE q[i] \in Range(p)
    <3>1. i - 1 \in DOMAIN p /\ p[i - 1] = q[i]
      BY <1>4, <1>5, <1>6, <2>1, Zenon
    <3> QED
      BY <3>1, Zenon DEF Range
  <2>2. ASSUME NEW i \in 1..(n - 1) PROVE p[i] \in Range(q)
    BY <1>4, <1>6, Zenon DEF Range
  <2>3. ASSUME NEW v \in Range(q) PROVE v \in {q[1]} \cup Range(p)
    <3>1. PICK i \in 1..n : v = q[i]
      BY <1>4, Zenon DEF Range
    <3> QED
      BY <2>1, <3>1, Zenon
  <2>4. ASSUME NEW v \in Range(p) PROVE v \in Range(q)
    <3>1. PICK i \in 1..(n - 1) : v = p[i]
      BY <1>5, Zenon DEF Range
    <3> QED
      BY <2>2, <3>1, Zenon
  <2>5. q[1] \in Range(q)
    BY <1>4, <1>6, Zenon DEF Range
  <2> QED
    BY <2>3, <2>4, <2>5, Zenon
<1> QED
  BY <1>2, <1>3, <1>4, <1>7, Zenon DEF S, p

-----------------------------------------------------------------------------
(* Where what the pod keeps came from, and how old it can be.              *)

Records(q) == q \in Seq(Range(q)) /\ \A r \in Range(q) : r.id \in Servers

AggFields == {"pc", "todo", "rest", "name", "defs", "result", "spent"}

Listing(x) == x = [f \in {"name", "edition", "server"} |-> x[f]] /\ x.server \in Servers

\* The servers that an aggregation has asked for their definitions.
Asked(g) == {d.server : d \in g.defs}

\* An aggregation walks over records and tools, with one of each at hand when
\* it asks a backend, and has gathered definitions of servers.  It waits only
\* for a backend it has asked.
Gathering(g) ==
    /\ g = [f \in AggFields |-> g[f]]
    /\ g.pc \in {"idle", "pick", "set", "done"}
    /\ g.pc = "idle" => g = Idle
    /\ Records(g.rest) /\ g.todo \in Seq(Range(g.todo))
    /\ \A x \in g.result : Listing(x)
    /\ Asked(g) \subseteq Servers
    /\ g.pc \in {"pick", "set"} => g.rest # <<>> /\ g.todo # <<>>
    /\ g.spent \in 0..MaxFetch
    /\ g.pc = "pick" => g.spent = 0
    /\ g.pc = "set" => Head(g.rest).id \in Asked(g)

Gatherings == agg = [a \in Aggregators |-> agg[a]] /\ \A a \in Aggregators : Gathering(agg[a])

Definition(e) ==
    /\ e = [f \in {"name", "edition", "server", "age"} |-> e[f]]
    /\ e.server \in Servers /\ e.age \in 0..TTL

Sourced ==
    /\ fleet \subseteq Servers
    /\ Records(index)
    /\ Gatherings
    /\ \A e \in cache : Definition(e)
    /\ \A x \in tools : Listing(x)
    /\ debounce \in 0..TTL /\ calm \in 0..Settled

\* Parts of lists of records, and a list with one more, are such lists.
LEMMA RecordLists ==
    ASSUME NEW q, Records(q)
    PROVE  /\ q # <<>> => Head(q).id \in Servers /\ Records(Tail(q))
           /\ \A keep : Records(Kept(q, keep)) /\ Range(Kept(q, keep)) = Range(q) \cap keep
           /\ \A r : r.id \in Servers => Records(Append(q, r)) /\ Range(Append(q, r)) = Range(q) \cup {r}
<1>1. q \in Seq(Range(q)) /\ \A r \in Range(q) : r.id \in Servers
  BY Zenon DEF Records
<1>2. ASSUME q # <<>> PROVE Head(q).id \in Servers /\ Records(Tail(q))
  BY <1>1, <1>2, HeadAndTail, Zenon DEF Records
<1>3. ASSUME NEW keep PROVE Records(Kept(q, keep)) /\ Range(Kept(q, keep)) = Range(q) \cap keep
  <2>1. Kept(q, keep) \in Seq(Range(q) \cap keep) /\ Range(Kept(q, keep)) = Range(q) \cap keep
    BY <1>1, KeptFacts, Zenon
  <2>2. Kept(q, keep) \in Seq(Range(Kept(q, keep)))
    BY <2>1, OwnMembers, Zenon
  <2> QED
    BY <1>1, <2>1, <2>2, Zenon DEF Records
<1>4. ASSUME NEW r, r.id \in Servers
      PROVE  Records(Append(q, r)) /\ Range(Append(q, r)) = Range(q) \cup {r}
  <2> DEFINE S == Range(q) \cup {r}
  <2>1. q \in Seq(S) /\ r \in S /\ \A p \in S : p.id \in Servers
    BY <1>1, <1>4
  <2> HIDE DEF S
  <2>2. Append(q, r) \in Seq(S)
    BY <2>1
  <2>3. Range(Append(q, r)) = Range(q) \cup {r}
    BY <1>1, AppendMembers, Zenon
  <2> QED
    BY <2>1, <2>2, <2>3, OwnMembers, Zenon DEF Records
<1> QED
  BY <1>2, <1>3, <1>4, Zenon

\* A walk still has a tool of a record before it.
Ahead(g, r, t) ==
    /\ g.pc \in {"pick", "set"}
    /\ t \in Range(Tail(g.todo)) \/ (t = Head(g.todo) /\ r \in Range(g.rest))

\* handleListTools goes on with a tool that has candidates, or ends; it
\* passes over no tool of the index.
LEMMA FromToolFacts ==
    ASSUME Records(index), NEW ts, ts \in Seq(Range(ts))
    PROVE  LET f == FromTool(ts) IN
           /\ f = [g \in {"pc", "todo", "rest"} |-> f[g]]
           /\ Records(f.rest) /\ f.todo \in Seq(Range(f.todo))
           /\ f.pc = "pick" => f.rest # <<>> /\ f.todo # <<>>
           /\ f.pc \in {"pick", "done"}
           /\ f.pc = "pick" => \A r \in Range(f.rest) : r \in Range(index) /\ Head(f.todo) \in Tools(r)
           /\ \A r \in Range(index) : \A t \in Tools(r) \cap Range(ts) : Ahead(f, r, t)
<1> DEFINE at == {i \in DOMAIN ts : LookupTool(index, ts[i]) # {}}
           f == FromTool(ts)
<1>1. ASSUME NEW r \in Range(index), NEW t \in Tools(r) \cap Range(ts)
      PROVE  \E i \in at : ts[i] = t
  <2>1. PICK i \in DOMAIN ts : ts[i] = t
    BY Zenon DEF Range
  <2>2. r \in LookupTool(index, t)
    BY Zenon DEF LookupTool
  <2> QED
    BY <2>1, <2>2, Zenon
<1>2. CASE at = {}
  <2>1. f = [pc |-> "done", todo |-> <<>>, rest |-> <<>>]
    BY <1>2, Zenon DEF FromTool
  <2>2. Range(<<>>) = {}
    BY DEF Range
  <2>3. Records(<<>>) /\ <<>> \in Seq(Range(<<>>))
    BY <2>2 DEF Records
  <2> HIDE DEF f
  <2>4. f.pc = "done" /\ f.todo = <<>> /\ f.rest = <<>>
    BY <2>1, Zenon
  <2>5. f = [g \in {"pc", "todo", "rest"} |-> f[g]]
    BY <2>1
  <2>6. /\ Records(f.rest) /\ f.todo \in Seq(Range(f.todo))
        /\ f.pc # "pick" /\ f.pc \in {"pick", "done"}
    BY <2>3, <2>4
  <2>7. \A r \in Range(index) : \A t \in Tools(r) \cap Range(ts) : FALSE
    BY <1>1, <1>2, Zenon
  <2> QED
    BY <2>5, <2>6, <2>7, Zenon DEF f
<1>3. CASE at # {}
  <2> DEFINE m == Min(at)
             rest == Kept(index, LookupTool(index, ts[m]))
             todo == SubSeq(ts, m, Len(ts))
  <2>1. f = [pc |-> "pick", todo |-> todo, rest |-> rest]
    BY <1>3, Zenon DEF FromTool
  <2>2. DOMAIN ts = 1..Len(ts) /\ Len(ts) \in Nat
    OBVIOUS
  <2>3. m \in at /\ \A i \in at : m <= i
    <3>1. at \subseteq Nat
      BY <2>2
    <3> QED
      BY <1>3, <3>1, MinIsLeast, Zenon
  <2>4. m \in 1..Len(ts) /\ LookupTool(index, ts[m]) # {}
    BY <2>2, <2>3, Zenon
  <2>a. \A i \in at : i \in 1..Len(ts) /\ m <= i
    BY <2>2, <2>3, Zenon
  <2> HIDE DEF at, m
  <2>5. /\ todo \in Seq(Range(ts)) /\ todo # <<>> /\ Head(todo) = ts[m]
        /\ \A i \in (m + 1)..Len(ts) : ts[i] \in Range(Tail(todo))
    <3> DEFINE S == Range(ts)
    <3>1. ts \in Seq(S)
      BY Zenon
    <3> HIDE DEF S
    <3>2. todo \in Seq(S)
      BY <2>2, <2>4, <3>1
    <3>3. /\ Len(todo) = Len(ts) - m + 1 /\ Len(todo) >= 1 /\ todo[1] = ts[m]
          /\ \A j \in 1..Len(todo) : todo[j] = ts[m + j - 1]
      BY <2>2, <2>4, <3>1
    <3> HIDE DEF todo
    <3>4. todo # <<>> /\ Head(todo) = todo[1]
      BY <3>2, <3>3
    <3>5. ASSUME NEW i \in (m + 1)..Len(ts) PROVE ts[i] \in Range(Tail(todo))
      <4> DEFINE p == Tail(todo)
                 n == Len(todo)
                 j == i - m
      <4>1. n \in Nat /\ DOMAIN p = 1..(n - 1) /\ \A x \in 1..(n - 1) : p[x] = todo[x + 1]
        BY <3>2, <3>4
      <4>2. j \in 1..(n - 1) /\ j + 1 \in 1..n /\ m + (j + 1) - 1 = i
        BY <2>2, <2>4, <3>3
      <4>3. todo[j + 1] = ts[i]
        BY <3>3, <4>2
      <4> HIDE DEF p, n, j
      <4>4. j \in DOMAIN p /\ p[j] = ts[i]
        BY <4>1, <4>2, <4>3, Zenon
      <4> QED
        BY <4>4, Zenon DEF Range, p
    <3> QED
      BY <3>2, <3>3, <3>4, <3>5, Zenon DEF S
  <2>6. todo \in Seq(Range(todo))
    BY <2>5, OwnMembers, Zenon
  <2>7. Records(rest) /\ Range(rest) = LookupTool(index, ts[m])
    <3>1. LookupTool(index, ts[m]) \subseteq Range(index)
      BY Zenon DEF LookupTool
    <3> DEFINE L == LookupTool(index, ts[m])
    <3>2. Records(Kept(index, L)) /\ Range(Kept(index, L)) = Range(index) \cap L
      BY RecordLists, Zenon
    <3>3. Range(index) \cap L = L
      BY <3>1, Zenon
    <3> QED
      BY <3>2, <3>3, Zenon
  <2>8. rest # <<>>
    <3>1. Range(<<>>) = {}
      BY DEF Range
    <3> QED
      BY <2>4, <2>7, <3>1, Zenon
  <2> HIDE DEF todo, rest, f
  <2>9. f.pc = "pick" /\ f.todo = todo /\ f.rest = rest
    BY <2>1, Zenon
  <2>10. f = [g \in {"pc", "todo", "rest"} |-> f[g]]
    BY <2>1
  <2>11. \A r \in Range(rest) : r \in Range(index) /\ Head(todo) \in Tools(r)
    BY <2>5, <2>7, Zenon DEF LookupTool
  <2>12. ASSUME NEW r \in Range(index), NEW t \in Tools(r) \cap Range(ts) PROVE Ahead(f, r, t)
    <3>1. PICK i \in at : ts[i] = t
      BY <1>1, Zenon
    <3>2. i = m \/ i \in (m + 1)..Len(ts)
      BY <2>2, <2>4, <2>a
    <3>3. CASE i = m
      <4>1. r \in Range(rest) /\ t = Head(todo)
        BY <2>5, <2>7, <3>1, <3>3, Zenon DEF LookupTool
      <4> QED
        BY <2>9, <4>1, Zenon DEF Ahead
    <3>4. CASE i \in (m + 1)..Len(ts)
      BY <2>5, <2>9, <3>1, <3>4, Zenon DEF Ahead
    <3> QED
      BY <3>2, <3>3, <3>4, Zenon
  <2> QED
    BY <2>5, <2>6, <2>7, <2>8, <2>9, <2>10, <2>11, <2>12, Zenon DEF f
<1> QED
  BY <1>2, <1>3, Zenon

\* Which fields a step of an aggregation leaves it with.
LEMMA OverFacts ==
    ASSUME NEW new, NEW old, NEW F, DOMAIN new \cup DOMAIN old = F
    PROVE  /\ DOMAIN Over(new, old) = F /\ Over(new, old) = [f \in F |-> Over(new, old)[f]]
           /\ \A f \in F : Over(new, old)[f] = IF f \in DOMAIN new THEN new[f] ELSE old[f]
  BY Zenon DEF Over

LEMMA WithShape ==
    ASSUME NEW f, DOMAIN f \subseteq AggFields, NEW g, DOMAIN g = AggFields
    PROVE  /\ Over(f, g) = [x \in AggFields |-> Over(f, g)[x]]
           /\ \A x \in AggFields : Over(f, g)[x] = IF x \in DOMAIN f THEN f[x] ELSE g[x]
<1>1. DOMAIN f \cup DOMAIN g = AggFields
  BY Zenon
<1>2. Over(f, g) = [x \in AggFields |-> IF x \in DOMAIN f THEN f[x] ELSE g[x]]
  BY <1>1, Zenon DEF Over
<1> QED
  BY <1>2, Zenon

LEMMA AggFieldNames ==
    /\ "pc" \in AggFields /\ "todo" \in AggFields /\ "rest" \in AggFields /\ "name" \in AggFields
    /\ "defs" \in AggFields /\ "result" \in AggFields /\ "spent" \in AggFields
  BY Zenon DEF AggFields

\* A step of one aggregation leaves the other one alone.
LEMMA WithKeeps ==
    ASSUME Gatherings, NEW a \in Aggregators, NEW g, agg' = [agg EXCEPT ![a] = g]
    PROVE  /\ agg'[a] = g /\ \A b \in Aggregators \ {a} : agg'[b] = agg[b]
           /\ Gathering(g) => Gatherings'
<1>1. agg' = [b \in Aggregators |-> agg'[b]] /\ agg'[a] = g
      /\ \A b \in Aggregators \ {a} : agg'[b] = agg[b]
  BY Zenon DEF Gatherings
<1> QED
  BY <1>1, Zenon DEF Gatherings

\* No aggregation is under way.
LEMMA IdleGathers ==
    /\ Gathering(Idle)
    /\ Idle.pc = "idle" /\ Idle.result = {} /\ Idle.defs = {} /\ Idle.spent = 0 /\ Idle.name = <<>>
<1>1. Range(<<>>) = {}
  BY DEF Range
<1>2. Records(<<>>) /\ <<>> \in Seq(Range(<<>>))
  BY <1>1 DEF Records
<1>3. Idle = [f \in AggFields |-> Idle[f]]
  BY Zenon DEF Idle, AggFields
<1>4. /\ Idle.rest = <<>> /\ Idle.todo = <<>> /\ Idle.result = {} /\ Idle.pc = "idle"
      /\ Idle.defs = {} /\ Idle.spent = 0 /\ Idle.name = <<>>
  BY Zenon DEF Idle
<1>5. 0 \in 0..MaxFetch
  BY BoundsAssumption
<1>6. Asked(Idle) = {}
  BY <1>4, Zenon DEF Asked
<1> QED
  BY <1>2, <1>3, <1>4, <1>5, <1>6, Zenon DEF Gathering

\* An aggregation that begins.
Begun(h) ==
    /\ h = [x \in AggFields |-> h[x]]
    /\ h.name = <<>> /\ h.spent = 0 /\ h.defs = {} /\ h.result = {}
    /\ LET f == FromTool(ToolOrder) IN h.pc = f.pc /\ h.todo = f.todo /\ h.rest = f.rest

LEMMA BeginShape ==
    ASSUME Records(index)
    PROVE  Begun(Over(FromTool(ToolOrder), Idle))
<1> DEFINE f == FromTool(ToolOrder)
           h == Over(f, Idle)
<1>1. ToolOrder \in Seq(Range(ToolOrder))
  BY BoundsAssumption, Zenon
<1>2. f = [x \in {"pc", "todo", "rest"} |-> f[x]]
  BY <1>1, FromToolFacts, Zenon
<1> HIDE DEF f
<1>3. DOMAIN f = {"pc", "todo", "rest"}
  BY <1>2, Zenon
<1>4. DOMAIN f \subseteq AggFields
  BY <1>3, Zenon DEF AggFields
<1>5. DOMAIN Idle = AggFields
  BY Zenon DEF Idle, AggFields
<1>6. /\ h = [x \in AggFields |-> h[x]]
      /\ \A x \in AggFields : h[x] = IF x \in DOMAIN f THEN f[x] ELSE Idle[x]
  BY <1>4, <1>5, WithShape
<1> HIDE DEF h
<1>7. /\ "pc" \in DOMAIN f /\ "todo" \in DOMAIN f /\ "rest" \in DOMAIN f
      /\ "name" \notin DOMAIN f /\ "spent" \notin DOMAIN f /\ "defs" \notin DOMAIN f /\ "result" \notin DOMAIN f
  BY <1>3
<1>8. /\ h.pc = f.pc /\ h.todo = f.todo /\ h.rest = f.rest
      /\ h.name = Idle.name /\ h.spent = Idle.spent /\ h.defs = Idle.defs /\ h.result = Idle.result
  BY <1>6, <1>7, AggFieldNames, Zenon
<1>9. Begun(h)
  BY <1>6, <1>8, IdleGathers, Zenon DEF Begun, f
<1> QED
  BY <1>9, Zenon DEF h, f

\* A candidate is done with.
Moved(g, h, found) ==
    /\ h = [x \in AggFields |-> h[x]]
    /\ h.name = <<>> /\ h.spent = 0 /\ h.defs = g.defs /\ h.result = g.result \cup found
    /\ \/ Len(g.rest) > 1 /\ h.pc = "pick" /\ h.todo = g.todo /\ h.rest = Tail(g.rest)
       \/ /\ ~(Len(g.rest) > 1)
          /\ LET f == FromTool(Tail(g.todo)) IN h.pc = f.pc /\ h.todo = f.todo /\ h.rest = f.rest

LEMMA AdvanceShape ==
    ASSUME Records(index), Gatherings, NEW a \in Aggregators, agg[a].pc \in {"pick", "set"},
           NEW found, Advance(a, found)
    PROVE  \/ a = "catalog" /\ agg' = [agg EXCEPT ![a] = Idle]
           \/ \E h : Moved(agg[a], h, found) /\ agg' = [agg EXCEPT ![a] = h]
<1> DEFINE g == agg[a]
           more == [name |-> <<>>, spent |-> 0, result |-> g.result \cup found]
           to == IF Len(g.rest) > 1 THEN [pc |-> "pick", rest |-> Tail(g.rest)]
                 ELSE FromTool(Tail(g.todo))
           o == Over(to, more)
           h == Over(o, g)
<1>1. Gathering(g) /\ g.rest # <<>> /\ g.todo # <<>>
  BY Zenon DEF Gatherings, Gathering
<1>2. DOMAIN g = AggFields /\ g.todo \in Seq(Range(g.todo))
  BY <1>1, Zenon DEF Gathering
<1>3. (a = "catalog" /\ agg' = [agg EXCEPT ![a] = Idle]) \/ agg' = [agg EXCEPT ![a] = h]
  BY Zenon DEF Advance, With
<1>4. DOMAIN more = {"name", "spent", "result"} /\ more.result = g.result \cup found
      /\ more.name = <<>> /\ more.spent = 0
  BY Zenon
<1>5. CASE Len(g.rest) > 1
  <2>1. to = [pc |-> "pick", rest |-> Tail(g.rest)]
    BY <1>5, Zenon
  <2> HIDE DEF more, to, g
  <2>2. DOMAIN to = {"pc", "rest"} /\ to.pc = "pick" /\ to.rest = Tail(g.rest)
    BY <2>1
  <2>3. DOMAIN to \cup DOMAIN more = {"pc", "rest", "name", "spent", "result"}
    BY <1>4, <2>2
  <2>4. /\ DOMAIN o = {"pc", "rest", "name", "spent", "result"}
        /\ \A x \in {"pc", "rest", "name", "spent", "result"} :
              o[x] = IF x \in DOMAIN to THEN to[x] ELSE more[x]
    BY <2>3, OverFacts, Zenon
  <2>5. "pc" \in DOMAIN to /\ "rest" \in DOMAIN to
        /\ "name" \notin DOMAIN to /\ "spent" \notin DOMAIN to /\ "result" \notin DOMAIN to
    BY <2>2
  <2> HIDE DEF o
  <2>6. /\ o.pc = "pick" /\ o.rest = Tail(g.rest) /\ o.name = <<>> /\ o.spent = 0
        /\ o.result = g.result \cup found
    BY <1>4, <2>2, <2>4, <2>5, Zenon
  <2>7. DOMAIN o \subseteq AggFields
    BY <2>4, Zenon DEF AggFields
  <2>8. /\ h = [x \in AggFields |-> h[x]]
        /\ \A x \in AggFields : h[x] = IF x \in DOMAIN o THEN o[x] ELSE g[x]
    BY <1>2, <2>7, WithShape
  <2>9. /\ "pc" \in DOMAIN o /\ "rest" \in DOMAIN o /\ "name" \in DOMAIN o /\ "spent" \in DOMAIN o
        /\ "result" \in DOMAIN o /\ "todo" \notin DOMAIN o /\ "defs" \notin DOMAIN o
    BY <2>4
  <2> HIDE DEF h
  <2>10. /\ h.pc = "pick" /\ h.rest = Tail(g.rest) /\ h.name = <<>> /\ h.spent = 0
         /\ h.result = g.result \cup found /\ h.todo = g.todo /\ h.defs = g.defs
    BY <2>6, <2>8, <2>9, AggFieldNames, Zenon
  <2>11. Moved(g, h, found)
    BY <1>5, <2>8, <2>10, Zenon DEF Moved
  <2> QED
    BY <1>3, <2>11, Zenon DEF g
<1>6. CASE ~(Len(g.rest) > 1)
  <2> DEFINE f == FromTool(Tail(g.todo))
  <2>1. to = f
    BY <1>6, Zenon
  <2>2. Tail(g.todo) \in Seq(Range(Tail(g.todo)))
    BY <1>1, <1>2, HeadAndTail, Zenon
  <2> HIDE DEF more, to, g
  <2>3. f = [x \in {"pc", "todo", "rest"} |-> f[x]]
    BY <2>2, FromToolFacts, Zenon
  <2> HIDE DEF f
  <2>4. DOMAIN to = {"pc", "todo", "rest"}
    BY <2>1, <2>3, Zenon
  <2>5. DOMAIN to \cup DOMAIN more = AggFields \ {"defs"}
    BY <1>4, <2>4 DEF AggFields
  <2>6. /\ DOMAIN o = AggFields \ {"defs"}
        /\ \A x \in AggFields \ {"defs"} : o[x] = IF x \in DOMAIN to THEN to[x] ELSE more[x]
    BY <2>5, OverFacts, Zenon
  <2>7. /\ "pc" \in DOMAIN to /\ "todo" \in DOMAIN to /\ "rest" \in DOMAIN to
        /\ "name" \notin DOMAIN to /\ "spent" \notin DOMAIN to /\ "result" \notin DOMAIN to
    BY <2>4
  <2>8. /\ "pc" \in DOMAIN o /\ "rest" \in DOMAIN o /\ "name" \in DOMAIN o /\ "spent" \in DOMAIN o
        /\ "result" \in DOMAIN o /\ "todo" \in DOMAIN o /\ "defs" \notin DOMAIN o
    BY <2>6 DEF AggFields
  <2> HIDE DEF o
  <2>9. /\ o.pc = f.pc /\ o.todo = f.todo /\ o.rest = f.rest /\ o.name = <<>> /\ o.spent = 0
        /\ o.result = g.result \cup found
    BY <1>4, <2>1, <2>6, <2>7, <2>8, Zenon
  <2>10. DOMAIN o \subseteq AggFields
    BY <2>6, Zenon
  <2>11. /\ h = [x \in AggFields |-> h[x]]
         /\ \A x \in AggFields : h[x] = IF x \in DOMAIN o THEN o[x] ELSE g[x]
    BY <1>2, <2>10, WithShape
  <2> HIDE DEF h
  <2>12. /\ h.pc = f.pc /\ h.todo = f.todo /\ h.rest = f.rest /\ h.name = <<>> /\ h.spent = 0
         /\ h.result = g.result \cup found /\ h.defs = g.defs
    BY <2>8, <2>9, <2>11, AggFieldNames, Zenon
  <2>13. Moved(g, h, found)
    BY <1>6, <2>11, <2>12, Zenon DEF Moved, f
  <2> QED
    BY <1>3, <2>13, Zenon DEF g
<1> QED
  BY <1>5, <1>6, Zenon

\* The answer of a backend is awaited, or there already.
Waiting(g, h, n) ==
    /\ h = [x \in AggFields |-> h[x]]
    /\ h.pc = "set" /\ h.name = n /\ h.todo = g.todo /\ h.rest = g.rest /\ h.result = g.result

LEMMA KnownShape ==
    ASSUME NEW g, Gathering(g), NEW n
    PROVE  LET h == Over([pc |-> "set", name |-> n, spent |-> MaxFetch], g) IN
           Waiting(g, h, n) /\ h.defs = g.defs /\ h.spent = MaxFetch
<1> DEFINE f == [pc |-> "set", name |-> n, spent |-> MaxFetch]
           h == Over(f, g)
<1>1. DOMAIN g = AggFields
  BY Zenon DEF Gathering
<1>2. DOMAIN f = {"pc", "name", "spent"} /\ f.pc = "set" /\ f.name = n /\ f.spent = MaxFetch
  BY Zenon
<1> HIDE DEF f
<1>3. /\ DOMAIN f \subseteq AggFields /\ "pc" \in DOMAIN f /\ "name" \in DOMAIN f /\ "spent" \in DOMAIN f
      /\ "todo" \notin DOMAIN f /\ "rest" \notin DOMAIN f /\ "result" \notin DOMAIN f /\ "defs" \notin DOMAIN f
  BY <1>2 DEF AggFields
<1>4. /\ h = [x \in AggFields |-> h[x]]
      /\ \A x \in AggFields : h[x] = IF x \in DOMAIN f THEN f[x] ELSE g[x]
  BY <1>1, <1>3, WithShape
<1> HIDE DEF h
<1>5. Waiting(g, h, n) /\ h.defs = g.defs /\ h.spent = MaxFetch
  BY <1>2, <1>3, <1>4, AggFieldNames, Zenon DEF Waiting
<1> QED
  BY <1>5, Zenon DEF h, f

LEMMA AskShape ==
    ASSUME NEW g, Gathering(g), NEW n, NEW ds
    PROVE  LET h == Over([pc |-> "set", name |-> n, defs |-> ds], g) IN
           Waiting(g, h, n) /\ h.defs = ds /\ h.spent = g.spent
<1> DEFINE f == [pc |-> "set", name |-> n, defs |-> ds]
           h == Over(f, g)
<1>1. DOMAIN g = AggFields
  BY Zenon DEF Gathering
<1>2. DOMAIN f = {"pc", "name", "defs"} /\ f.pc = "set" /\ f.name = n /\ f.defs = ds
  BY Zenon
<1> HIDE DEF f
<1>3. /\ DOMAIN f \subseteq AggFields /\ "pc" \in DOMAIN f /\ "name" \in DOMAIN f /\ "defs" \in DOMAIN f
      /\ "todo" \notin DOMAIN f /\ "rest" \notin DOMAIN f /\ "result" \notin DOMAIN f /\ "spent" \notin DOMAIN f
  BY <1>2 DEF AggFields
<1>4. /\ h = [x \in AggFields |-> h[x]]
      /\ \A x \in AggFields : h[x] = IF x \in DOMAIN f THEN f[x] ELSE g[x]
  BY <1>1, <1>3, WithShape
<1> HIDE DEF h
<1>5. Waiting(g, h, n) /\ h.defs = ds /\ h.spent = g.spent
  BY <1>2, <1>3, <1>4, AggFieldNames, Zenon DEF Waiting
<1> QED
  BY <1>5, Zenon DEF h, f

LEMMA BegunGathers ==
    ASSUME Records(index), NEW h, Begun(h)
    PROVE  Gathering(h)
<1> DEFINE f == FromTool(ToolOrder)
<1>1. ToolOrder \in Seq(Range(ToolOrder))
  BY BoundsAssumption, Zenon
<1>2. /\ Records(f.rest) /\ f.todo \in Seq(Range(f.todo))
      /\ f.pc = "pick" => f.rest # <<>> /\ f.todo # <<>>
      /\ f.pc \in {"pick", "done"}
  BY <1>1, FromToolFacts, Zenon
<1>3. /\ h = [x \in AggFields |-> h[x]] /\ h.spent = 0 /\ h.defs = {} /\ h.result = {}
      /\ h.pc = f.pc /\ h.todo = f.todo /\ h.rest = f.rest
  BY Zenon DEF Begun
<1> HIDE DEF f
<1>4. 0 \in 0..MaxFetch
  BY BoundsAssumption
<1>5. Asked(h) = {} /\ h.pc \in {"pick", "done"}
  BY <1>2, <1>3, Zenon DEF Asked
<1>6. h.pc # "idle" /\ h.pc # "set" /\ h.pc \in {"idle", "pick", "set", "done"}
  BY <1>5
<1> QED
  BY <1>2, <1>3, <1>4, <1>5, <1>6, Zenon DEF Gathering

LEMMA MovedGathers ==
    ASSUME Records(index), NEW g, Gathering(g), g.pc \in {"pick", "set"},
           NEW found, \A x \in found : Listing(x), NEW h, Moved(g, h, found)
    PROVE  Gathering(h) /\ h.pc \in {"pick", "done"} /\ Asked(h) = Asked(g)
<1>1. /\ g.rest # <<>> /\ g.todo # <<>> /\ Records(g.rest) /\ g.todo \in Seq(Range(g.todo))
      /\ Asked(g) \subseteq Servers /\ \A x \in g.result : Listing(x)
  BY Zenon DEF Gathering
<1>2. /\ h = [x \in AggFields |-> h[x]] /\ h.spent = 0 /\ h.defs = g.defs
      /\ h.result = g.result \cup found
  BY Zenon DEF Moved
<1>3. Asked(h) = Asked(g) /\ \A x \in h.result : Listing(x)
  BY <1>1, <1>2, Zenon DEF Asked
<1>4. 0 \in 0..MaxFetch
  BY BoundsAssumption
<1>5. /\ Records(h.rest) /\ h.todo \in Seq(Range(h.todo)) /\ h.pc \in {"pick", "done"}
      /\ h.pc = "pick" => h.rest # <<>> /\ h.todo # <<>>
  <2>1. CASE Len(g.rest) > 1 /\ h.pc = "pick" /\ h.todo = g.todo /\ h.rest = Tail(g.rest)
    <3>1. Records(Tail(g.rest))
      BY <1>1, RecordLists, Zenon
    <3>2. Tail(g.rest) # <<>>
      <4>1. g.rest \in Seq(Range(g.rest))
        BY <1>1, Zenon DEF Records
      <4>2. Len(Tail(g.rest)) = Len(g.rest) - 1 /\ Len(g.rest) \in Nat
        BY <1>1, <4>1
      <4> DEFINE m == Len(g.rest)
                 n == Len(Tail(g.rest))
      <4>3. m \in Nat /\ m > 1 /\ n = m - 1
        BY <2>1, <4>2, Zenon
      <4> HIDE DEF m, n
      <4>4. n # 0 /\ Len(<<>>) = 0
        BY <4>3
      <4> QED
        BY <4>4, Zenon DEF n
    <3> QED
      BY <1>1, <2>1, <3>1, <3>2, Zenon
  <2> DEFINE f == FromTool(Tail(g.todo))
  <2>2. CASE h.pc = f.pc /\ h.todo = f.todo /\ h.rest = f.rest
    <3>1. Tail(g.todo) \in Seq(Range(Tail(g.todo)))
      BY <1>1, HeadAndTail, Zenon
    <3>2. /\ Records(f.rest) /\ f.todo \in Seq(Range(f.todo))
          /\ f.pc = "pick" => f.rest # <<>> /\ f.todo # <<>>
          /\ f.pc \in {"pick", "done"}
      BY <3>1, FromToolFacts, Zenon
    <3> HIDE DEF f
    <3> QED
      BY <2>2, <3>2, Zenon
  <2> QED
    BY <2>1, <2>2, Zenon DEF Moved
<1>6. h.pc # "idle" /\ h.pc # "set" /\ h.pc \in {"idle", "pick", "set", "done"}
  BY <1>5
<1> QED
  BY <1>1, <1>2, <1>3, <1>4, <1>5, <1>6, Zenon DEF Gathering

LEMMA WaitingGathers ==
    ASSUME NEW g, Gathering(g), g.pc \in {"pick", "set"}, NEW n, NEW h, Waiting(g, h, n),
           h.spent \in 0..MaxFetch, Asked(h) \subseteq Servers, Head(g.rest).id \in Asked(h)
    PROVE  Gathering(h)
<1>1. h.pc # "idle" /\ h.pc # "pick" /\ h.pc \in {"idle", "pick", "set", "done"}
  BY DEF Waiting
<1> QED
  BY <1>1, Zenon DEF Gathering, Waiting

\* Times are numbers.
Longest == MaxFetch * Cardinality(Servers)

LEMMA Spans ==
    /\ TTL \in Nat /\ TTL > 0 /\ MaxFetch \in Nat /\ Longest \in Nat
    /\ Settled = 2 * TTL + Longest /\ Settled \in Nat
<1>1. Cardinality(Servers) \in Nat
  BY NamesAssumption, FS_CardinalityType, Zenon
<1>2. TTL \in Nat /\ TTL > 0 /\ MaxFetch \in Nat
  BY BoundsAssumption
<1> DEFINE c == Cardinality(Servers)
<1> HIDE DEF c
<1>3. MaxFetch * c \in Nat
  BY <1>1, <1>2 DEF c
<1>4. Longest \in Nat
  BY <1>3, Zenon DEF Longest, c
<1>5. Settled = 2 * TTL + Longest
  BY Zenon DEF Settled, Longest
<1> QED
  BY <1>2, <1>4, <1>5

\* Rebuild lists the servers there are, and all of them.
LEMMA FirstIndex ==
    ASSUME PInit
    PROVE  /\ Records(index)
           /\ Range(index) = {Record(s, real[s]) : s \in {x \in Servers : real[x] # None}}
<1> DEFINE S == {s \in Servers : real[s] # None}
           c == Cardinality(S)
<1>1. PICK q \in Bijection(1..c, S) : index = [i \in DOMAIN q |-> Record(q[i], real[q[i]])]
  BY Zenon DEF PInit
<1>2. IsFiniteSet(S)
  BY NamesAssumption, FS_Subset, Zenon
<1>3. c \in Nat
  BY <1>2, FS_CardinalityType, Zenon
<1>4. q \in [1..c -> S] /\ \A i, j \in 1..c : i # j => q[i] # q[j]
  BY <1>1, Zenon DEF Bijection, Injection, IsInjective
<1> HIDE DEF c
<1>5. ASSUME NEW v \in S PROVE \E i \in 1..c : q[i] = v
  <2> SUFFICES ASSUME \A i \in 1..c : q[i] # v PROVE FALSE
    BY Zenon
  <2> DEFINE R == S \ {v}
  <2>1. IsFiniteSet(R) /\ Cardinality(R) = c - 1
    BY <1>2, FS_RemoveElement DEF c
  <2>2. q \in [1..c -> R]
    BY <1>4, Zenon
  <2>3. IsFiniteSet(1..c) /\ Cardinality(1..c) = c
    <3>1. 1 \in Int /\ c \in Int
      BY <1>3
    <3>2. IsFiniteSet(1..c) /\ Cardinality(1..c) = IF 1 > c THEN 0 ELSE c - 1 + 1
      BY <3>1, FS_Interval, Zenon
    <3> QED
      BY <1>3, <3>2
  <2>4. Cardinality(1..c) > Cardinality(R)
    BY <1>3, <2>1, <2>3
  <2> HIDE DEF R
  <2>5. \E i, j \in 1..c : i # j /\ q[i] = q[j]
    BY <2>1, <2>2, <2>3, <2>4, FS_PigeonHole, Zenon
  <2> QED
    BY <1>4, <2>5, Zenon
<1>6. DOMAIN q = 1..c
  BY <1>4, Zenon
<1> DEFINE T == {Record(s, real[s]) : s \in S}
<1>7. index \in [1..c -> T]
  BY <1>1, <1>4, <1>6, Zenon
<1>8. ASSUME NEW r \in T PROVE r.id \in Servers
  <2>1. PICK s \in Servers : r = Record(s, real[s])
    BY <1>8, Zenon
  <2>2. Record(s, real[s]).id = s
    BY Zenon DEF Record
  <2> QED
    BY <2>1, <2>2, Zenon
<1>9. Range(index) = T
  <2>1. DOMAIN index = 1..c
    BY <1>7, Zenon
  <2>2. ASSUME NEW r \in T PROVE r \in Range(index)
    <3>1. PICK s \in S : r = Record(s, real[s])
      BY <2>2, Zenon
    <3>2. PICK i \in 1..c : q[i] = s
      BY <1>5, Zenon
    <3>3. index[i] = r
      BY <1>1, <1>6, <3>1, <3>2, Zenon
    <3> QED
      BY <2>1, <3>3, Zenon DEF Range
  <2>3. Range(index) \subseteq T
    BY <1>7, <2>1, Zenon DEF Range
  <2> QED
    BY <2>2, <2>3, Zenon
<1> HIDE DEF T
<1>10. index \in Seq(T)
  BY <1>3, <1>7
<1>11. Records(index)
  BY <1>8, <1>10, OwnMembers, Zenon DEF Records
<1> QED
  BY <1>9, <1>11, Zenon DEF T

\* A refresh replaces the record of the server.
LEMMA RefreshKeeps ==
    ASSUME Records(index), NEW s \in Servers
    PROVE  /\ Records(Refreshed(index, s))
           /\ Range(Refreshed(index, s)) = {r \in Range(index) : r.id # s}
                \cup (IF real[s] = None THEN {} ELSE {Record(s, real[s])})
<1> DEFINE others == {r \in Range(index) : r.id # s}
           rem == Removed(index, s)
<1>1. Records(rem) /\ Range(rem) = others
  <2>1. Records(Kept(index, others)) /\ Range(Kept(index, others)) = Range(index) \cap others
    BY RecordLists, Zenon
  <2> QED
    BY <2>1, Zenon DEF Removed
<1>2. Record(s, real[s]).id = s
  BY Zenon DEF Record
<1> HIDE DEF rem
<1>3. /\ Records(Append(rem, Record(s, real[s])))
      /\ Range(Append(rem, Record(s, real[s]))) = Range(rem) \cup {Record(s, real[s])}
  <2> DEFINE r == Record(s, real[s])
  <2>1. r.id \in Servers
    BY <1>2, Zenon
  <2> HIDE DEF r
  <2>2. Records(Append(rem, r)) /\ Range(Append(rem, r)) = Range(rem) \cup {r}
    BY <1>1, <2>1, RecordLists, Zenon
  <2> QED
    BY <2>2, Zenon DEF r
<1>4. CASE real[s] = None
  <2>1. Refreshed(index, s) = rem
    BY <1>4, Zenon DEF Refreshed, rem
  <2> QED
    BY <1>1, <1>4, <2>1, Zenon
<1>5. CASE real[s] # None
  <2>1. Refreshed(index, s) = Append(rem, Record(s, real[s]))
    BY <1>5, Zenon DEF Refreshed, rem
  <2> QED
    BY <1>1, <1>3, <1>5, <2>1, Zenon
<1> QED
  BY <1>4, <1>5, Zenon

-----------------------------------------------------------------------------
(* The steps of an aggregation, by what they make of it.                   *)

Done(a, found) ==
    \/ a = "catalog" /\ agg' = [agg EXCEPT ![a] = Idle]
    \/ \E h : Moved(agg[a], h, found) /\ agg' = [agg EXCEPT ![a] = h]

NameAt(a) == FederatedName(mode, index, Backend(a), Tool(a))
Line(n, edition, s) == [name |-> n, edition |-> edition, server |-> s]

\* The candidate is listed already.
PickSeen(a) ==
    /\ \E x \in agg[a].result : x.name = NameAt(a)
    /\ Done(a, {}) /\ UNCHANGED <<clients, calm>>

\* Its definition is cached.
PickCached(a) ==
    /\ \E e \in cache : e.name = NameAt(a) /\ Done(a, {Line(e.name, e.edition, e.server)})
    /\ UNCHANGED <<clients, calm>>

\* The backend was asked with an earlier tool.
PickKnown(a) ==
    /\ \E h : /\ Waiting(agg[a], h, NameAt(a)) /\ h.defs = agg[a].defs /\ h.spent = MaxFetch
              /\ agg' = [agg EXCEPT ![a] = h]
    /\ Backend(a).id \in Asked(agg[a])
    /\ UNCHANGED <<clients, calm>>

\* The backend is asked.
PickAsks(a) ==
    LET s == Backend(a).id
    IN /\ s \notin Asked(agg[a])
       /\ getOrCreateClient(Backend(a))
       /\ \E e, h : /\ Waiting(agg[a], h, NameAt(a)) /\ h.spent = agg[a].spent
                    /\ h.defs = agg[a].defs \cup {[server |-> s, edition |-> e]}
                    /\ agg' = [agg EXCEPT ![a] = h]
                    /\ \/ e \in Answers(s, clients'[s]) /\ calm' = calm
                       \/ calm' = 0

LEMMA AskedLoaded ==
    ASSUME NEW a
    PROVE  Backend(a).id \in Asked(agg[a]) <=> Loaded(a) # {}
  BY Zenon DEF Asked, Loaded

LEMMA PickShape ==
    ASSUME Records(index), Gatherings, NEW a \in Aggregators, Pick(a)
    PROVE  /\ UNCHANGED <<config, registry, pod, cache, tools, debounce>> /\ agg[a].pc = "pick"
           /\ PickSeen(a) \/ PickCached(a) \/ PickKnown(a) \/ PickAsks(a)
<1> DEFINE n == NameAt(a)
           seen == \E x \in agg[a].result : x.name = n
<1>1. UNCHANGED <<config, registry, pod, cache, tools, debounce>> /\ agg[a].pc = "pick"
  BY Zenon DEF Pick
<1>2. \/ seen /\ Advance(a, {}) /\ UNCHANGED <<conns, calm>>
      \/ /\ UNCHANGED <<conns, calm>>
         /\ \E e \in Get(n) : Advance(a, {[name |-> n, edition |-> e.edition, server |-> e.server]})
      \/ /\ Loaded(a) # {} /\ UNCHANGED <<conns, calm>>
         /\ With(a, [pc |-> "set", name |-> n, spent |-> MaxFetch])
      \/ Loaded(a) = {} /\ Fetch(a, n)
  BY Zenon DEF Pick, NameAt
<1>3. Gathering(agg[a]) /\ agg[a].pc \in {"pick", "set"}
  BY <1>1, Zenon DEF Gatherings
<1>4. ASSUME NEW found, Advance(a, found) PROVE Done(a, found)
  BY <1>3, <1>4, AdvanceShape, Zenon DEF Done
<1> HIDE DEF n
<1>5. CASE seen /\ Advance(a, {}) /\ UNCHANGED <<conns, calm>>
  BY <1>1, <1>4, <1>5, Zenon DEF PickSeen, conns, n
<1>6. CASE /\ UNCHANGED <<conns, calm>>
           /\ \E e \in Get(n) : Advance(a, {[name |-> n, edition |-> e.edition, server |-> e.server]})
  <2>1. PICK e \in Get(n) : Advance(a, {Line(n, e.edition, e.server)})
    BY <1>6, Zenon DEF Line
  <2>2. e \in cache /\ e.name = n /\ Done(a, {Line(e.name, e.edition, e.server)})
    BY <1>4, <2>1, Zenon DEF Get
  <2>3. PickCached(a)
    BY <1>6, <2>2, Zenon DEF PickCached, conns, n
  <2> QED
    BY <1>1, <2>3, Zenon
<1>7. CASE /\ Loaded(a) # {} /\ UNCHANGED <<conns, calm>>
           /\ With(a, [pc |-> "set", name |-> n, spent |-> MaxFetch])
  <2> DEFINE h == Over([pc |-> "set", name |-> n, spent |-> MaxFetch], agg[a])
  <2>1. agg' = [agg EXCEPT ![a] = h]
    BY <1>7, Zenon DEF With
  <2>2. Waiting(agg[a], h, n) /\ h.defs = agg[a].defs /\ h.spent = MaxFetch
    BY <1>3, KnownShape, Zenon
  <2> HIDE DEF h
  <2>3. PickKnown(a)
    BY <1>7, <2>1, <2>2, AskedLoaded, Zenon DEF PickKnown, conns, n
  <2> QED
    BY <1>1, <2>3, Zenon
<1>8. CASE Loaded(a) = {} /\ Fetch(a, n)
  <2> DEFINE s == Backend(a).id
  <2>1. PICK e : /\ With(a, [pc |-> "set", name |-> n, defs |-> agg[a].defs \cup {[server |-> s, edition |-> e]}])
                 /\ (e \in Answers(s, clients'[s]) /\ calm' = calm) \/ calm' = 0
    BY <1>8, Zenon DEF Fetch
  <2>2. getOrCreateClient(Backend(a)) /\ s \notin Asked(agg[a])
    BY <1>8, AskedLoaded, Zenon DEF Fetch
  <2> DEFINE ds == agg[a].defs \cup {[server |-> s, edition |-> e]}
             h == Over([pc |-> "set", name |-> n, defs |-> ds], agg[a])
  <2>3. agg' = [agg EXCEPT ![a] = h]
    BY <2>1, Zenon DEF With
  <2> HIDE DEF ds
  <2>4. Waiting(agg[a], h, n) /\ h.defs = ds /\ h.spent = agg[a].spent
    BY <1>3, AskShape
  <2> HIDE DEF h
  <2>5. PickAsks(a)
    BY <2>1, <2>2, <2>3, <2>4, Zenon DEF PickAsks, n, ds
  <2> QED
    BY <1>1, <2>5, Zenon
<1> QED
  BY <1>2, <1>5, <1>6, <1>7, <1>8, Zenon

\* A definition is cached and listed, or there is none.
SetDone(a) ==
    \E d \in agg[a].defs :
        /\ d.server = Backend(a).id
        /\ \/ d.edition = 0 /\ Done(a, {}) /\ UNCHANGED cache
           \/ /\ cache' = Set(agg[a].name, d.edition, Backend(a).id)
              /\ Done(a, {Line(agg[a].name, d.edition, Backend(a).id)})

LEMMA SetShape ==
    ASSUME Records(index), Gatherings, NEW a \in Aggregators, SetTool(a)
    PROVE  /\ UNCHANGED <<config, registry, pod, conns, tools, debounce, calm>> /\ agg[a].pc = "set"
           /\ SetDone(a)
<1>1. UNCHANGED <<config, registry, pod, conns, tools, debounce, calm>> /\ agg[a].pc = "set"
  BY Zenon DEF SetTool, Stay
<1>2. PICK d \in Loaded(a) :
        \/ d.edition = 0 /\ Advance(a, {}) /\ UNCHANGED cache
        \/ /\ cache' = Set(agg[a].name, d.edition, Backend(a).id)
           /\ Advance(a, {Line(agg[a].name, d.edition, Backend(a).id)})
  BY Zenon DEF SetTool, Line
<1>3. agg[a].pc \in {"pick", "set"}
  BY <1>1, Zenon
<1>4. ASSUME NEW found, Advance(a, found) PROVE Done(a, found)
  BY <1>3, <1>4, AdvanceShape, Zenon DEF Done
<1>5. d \in agg[a].defs /\ d.server = Backend(a).id
  BY <1>2, Zenon DEF Loaded
<1> QED
  BY <1>1, <1>2, <1>4, <1>5, Zenon DEF SetDone

\* An aggregation begins only when none is under way.
LEMMA BeginsShape ==
    ASSUME Records(index), Gatherings, SyncBegin \/ CatalogBegin
    PROVE  \E a \in Aggregators : \E h :
             /\ agg[a] = Idle /\ Begun(h) /\ agg' = [agg EXCEPT ![a] = h]
             /\ UNCHANGED <<config, registry, pod, conns, cache, tools, calm>>
             /\ \/ a = "sync" /\ debounce' = TTL
                \/ a = "catalog" /\ debounce' = debounce
<1> DEFINE h == Over(FromTool(ToolOrder), Idle)
<1>1. Begun(h)
  BY BeginShape, Zenon
<1>2. "sync" \in Aggregators /\ "catalog" \in Aggregators
  BY Zenon DEF Aggregators
<1>3. \A a \in Aggregators : agg[a].pc = "idle" => agg[a] = Idle
  BY Zenon DEF Gatherings, Gathering
<1> HIDE DEF h
<1>4. CASE SyncBegin
  <2>1. agg["sync"] = Idle
    BY <1>2, <1>3, <1>4, Zenon DEF SyncBegin, SyncFree
  <2>2. agg' = [agg EXCEPT !["sync"] = h]
    BY <1>4, <2>1, Zenon DEF SyncBegin, With, h
  <2> QED
    BY <1>1, <1>2, <1>4, <2>1, <2>2, Zenon DEF SyncBegin, Stay
<1>5. CASE CatalogBegin
  <2>1. agg["catalog"] = Idle
    BY <1>2, <1>3, <1>5, Zenon DEF CatalogBegin
  <2>2. agg' = [agg EXCEPT !["catalog"] = h]
    BY <1>5, <2>1, Zenon DEF CatalogBegin, With, h
  <2> QED
    BY <1>1, <1>2, <1>5, <2>1, <2>2, Zenon DEF CatalogBegin, Stay
<1> QED
  BY <1>4, <1>5, Zenon

-----------------------------------------------------------------------------
(* Everything comes from a server, and nothing is older than its time.     *)

LEMMA LineListing ==
    ASSUME NEW n, NEW edition, NEW s \in Servers
    PROVE  /\ Listing(Line(n, edition, s))
           /\ Line(n, edition, s).name = n /\ Line(n, edition, s).edition = edition
           /\ Line(n, edition, s).server = s
<1> DEFINE x == Line(n, edition, s)
<1>1. x.name = n /\ x.edition = edition /\ x.server = s
  BY DEF Line
<1>2. x = [f \in {"name", "edition", "server"} |-> x[f]]
  BY Zenon DEF Line
<1> HIDE DEF x
<1>3. Listing(x)
  BY <1>1, <1>2, Zenon DEF Listing
<1> QED
  BY <1>1, <1>3, Zenon DEF x

LEMMA DoneKeeps ==
    ASSUME Records(index), Gatherings, NEW a \in Aggregators, agg[a].pc \in {"pick", "set"},
           NEW found, \A x \in found : Listing(x), Done(a, found)
    PROVE  Gatherings'
<1>1. CASE agg' = [agg EXCEPT ![a] = Idle]
  BY <1>1, IdleGathers, WithKeeps, Zenon
<1>2. ASSUME NEW h, Moved(agg[a], h, found), agg' = [agg EXCEPT ![a] = h] PROVE Gatherings'
  <2>1. Gathering(h)
    BY <1>2, MovedGathers, Zenon DEF Gatherings
  <2> QED
    BY <1>2, <2>1, WithKeeps, Zenon
<1> QED
  BY <1>1, <1>2, Zenon DEF Done

\* The record at hand is a server's.
LEMMA BackendIsServer ==
    ASSUME Gatherings, NEW a \in Aggregators, agg[a].pc \in {"pick", "set"}
    PROVE  Backend(a).id \in Servers
<1>1. Records(agg[a].rest) /\ agg[a].rest # <<>>
  BY Zenon DEF Gatherings, Gathering
<1> QED
  BY <1>1, RecordLists, Zenon DEF Backend

LEMMA PickKeeps ==
    ASSUME Sourced, NEW a \in Aggregators, Pick(a)
    PROVE  Gatherings'
<1>1. Records(index) /\ Gatherings
  BY Zenon DEF Sourced
<1>2. /\ agg[a].pc = "pick"
      /\ PickSeen(a) \/ PickCached(a) \/ PickKnown(a) \/ PickAsks(a)
  BY <1>1, PickShape, Zenon
<1>3. agg[a].pc \in {"pick", "set"} /\ Gathering(agg[a])
  BY <1>1, <1>2, Zenon DEF Gatherings
<1>4. Backend(a).id \in Servers /\ Asked(agg[a]) \subseteq Servers /\ Backend(a) = Head(agg[a].rest)
  BY <1>1, <1>3, BackendIsServer, Zenon DEF Gathering, Backend
<1>5. CASE PickSeen(a)
  BY <1>1, <1>3, <1>5, DoneKeeps, Zenon DEF PickSeen
<1>6. CASE PickCached(a)
  <2>1. PICK e \in cache : Done(a, {Line(e.name, e.edition, e.server)})
    BY <1>6, Zenon DEF PickCached
  <2>2. e.server \in Servers
    BY <2>1, Zenon DEF Sourced, Definition
  <2>3. \A x \in {Line(e.name, e.edition, e.server)} : Listing(x)
    BY <2>2, LineListing
  <2> QED
    BY <1>1, <1>3, <2>1, <2>3, DoneKeeps, Zenon
<1>7. CASE PickKnown(a)
  <2>1. PICK h : /\ Waiting(agg[a], h, NameAt(a)) /\ h.defs = agg[a].defs /\ h.spent = MaxFetch
                 /\ agg' = [agg EXCEPT ![a] = h]
    BY <1>7, Zenon DEF PickKnown
  <2>2. Asked(h) = Asked(agg[a]) /\ Backend(a).id \in Asked(h)
    BY <1>7, <2>1, Zenon DEF Asked, PickKnown
  <2>3. h.spent \in 0..MaxFetch
    BY <2>1, Spans
  <2>4. Gathering(h)
    BY <1>3, <1>4, <2>1, <2>2, <2>3, WaitingGathers, Zenon
  <2> QED
    BY <1>1, <2>1, <2>4, WithKeeps, Zenon
<1>8. CASE PickAsks(a)
  <2> DEFINE s == Backend(a).id
  <2>1. PICK e, h : /\ Waiting(agg[a], h, NameAt(a)) /\ h.spent = agg[a].spent
                    /\ h.defs = agg[a].defs \cup {[server |-> s, edition |-> e]}
                    /\ agg' = [agg EXCEPT ![a] = h]
    BY <1>8, Zenon DEF PickAsks
  <2>2. Asked(h) = Asked(agg[a]) \cup {s}
    <3> DEFINE d == [server |-> s, edition |-> e]
    <3>1. d.server = s /\ h.defs = agg[a].defs \cup {d}
      BY <2>1
    <3> HIDE DEF d
    <3> QED
      BY <3>1, Zenon DEF Asked
  <2>3. h.spent \in 0..MaxFetch
    BY <1>3, <2>1, Zenon DEF Gathering
  <2>4. Gathering(h)
    <3>1. Asked(h) \subseteq Servers /\ Head(agg[a].rest).id \in Asked(h)
      BY <1>4, <2>2, Zenon
    <3> QED
      BY <1>3, <2>1, <2>3, <3>1, WaitingGathers, Zenon
  <2> QED
    BY <1>1, <2>1, <2>4, WithKeeps, Zenon
<1> QED
  BY <1>2, <1>5, <1>6, <1>7, <1>8, Zenon

LEMMA SetKeeps ==
    ASSUME Sourced, NEW a \in Aggregators, SetTool(a)
    PROVE  Gatherings' /\ \A e \in cache' : Definition(e)
<1>1. Records(index) /\ Gatherings
  BY Zenon DEF Sourced
<1>2. agg[a].pc = "set" /\ SetDone(a)
  BY <1>1, SetShape, Zenon
<1>3. agg[a].pc \in {"pick", "set"} /\ Backend(a).id \in Servers
  BY <1>1, <1>2, BackendIsServer, Zenon
<1>4. PICK d \in agg[a].defs :
        \/ Done(a, {}) /\ cache' = cache
        \/ /\ cache' = Set(agg[a].name, d.edition, Backend(a).id)
           /\ Done(a, {Line(agg[a].name, d.edition, Backend(a).id)})
  BY <1>2, Zenon DEF SetDone
<1>5. Gatherings'
  <2>1. \A x \in {Line(agg[a].name, d.edition, Backend(a).id)} : Listing(x)
    BY <1>3, LineListing
  <2> QED
    BY <1>1, <1>3, <1>4, <2>1, DoneKeeps, Zenon
<1>6. \A e \in cache' : Definition(e)
  <2> DEFINE new == [name |-> agg[a].name, edition |-> d.edition, server |-> Backend(a).id, age |-> 0]
  <2>1. new = [f \in {"name", "edition", "server", "age"} |-> new[f]] /\ new.server = Backend(a).id /\ new.age = 0
    BY Zenon
  <2>2. cache' \subseteq cache \cup {new}
    BY <1>4, Zenon DEF Set
  <2>3. 0 \in 0..TTL
    BY Spans
  <2> HIDE DEF new
  <2> QED
    BY <1>3, <2>1, <2>2, <2>3, Zenon DEF Sourced, Definition
<1> QED
  BY <1>5, <1>6, Zenon

\* What a tick does to an aggregation that waits.
LEMMA TickShape ==
    ASSUME Gatherings, Tick, NEW a \in Aggregators
    PROVE  \/ agg[a] = Idle /\ agg'[a] = Idle
           \/ /\ agg[a].pc = "set" /\ agg[a].spent < MaxFetch
              /\ Waiting(agg[a], agg'[a], agg[a].name)
              /\ agg'[a].defs = agg[a].defs /\ agg'[a].spent = agg[a].spent + 1
<1>1. /\ agg[a].pc = "idle" \/ (agg[a].pc = "set" /\ agg[a].spent < MaxFetch)
      /\ agg'[a] = IF agg[a].pc = "set" THEN [agg[a] EXCEPT !.spent = @ + 1] ELSE agg[a]
  BY Zenon DEF Tick
<1>2. CASE agg[a].pc = "idle"
  <2>1. agg[a] = Idle /\ agg[a].pc # "set"
    BY <1>2 DEF Gatherings, Gathering
  <2> QED
    BY <1>1, <2>1, Zenon
<1>3. CASE agg[a].pc = "set" /\ agg[a].spent < MaxFetch
  <2> DEFINE g == agg[a]
             h == [g EXCEPT !.spent = @ + 1]
  <2>1. agg'[a] = h
    BY <1>1, <1>3, Zenon
  <2>2. g = [f \in AggFields |-> g[f]]
    BY Zenon DEF Gatherings, Gathering
  <2>3. g.pc = "set"
    BY <1>3, Zenon
  <2> HIDE DEF g
  <2>4. /\ h = [f \in AggFields |-> h[f]] /\ h.pc = g.pc /\ h.todo = g.todo /\ h.rest = g.rest
        /\ h.result = g.result /\ h.defs = g.defs /\ h.name = g.name /\ h.spent = g.spent + 1
    BY <2>2, Zenon DEF AggFields
  <2> HIDE DEF h
  <2>5. Waiting(g, h, g.name)
    BY <2>3, <2>4, Zenon DEF Waiting
  <2> QED
    BY <1>3, <2>1, <2>4, <2>5, Zenon DEF g
<1> QED
  BY <1>1, <1>2, <1>3, Zenon

LEMMA TickKeeps ==
    ASSUME Sourced, Tick
    PROVE  /\ Gatherings' /\ \A e \in cache' : Definition(e)
           /\ debounce' \in 0..TTL /\ calm' \in 0..Settled
           /\ (debounce = 0 /\ debounce' = 0) \/ debounce' = debounce - 1
           /\ calm' <= calm + 1
<1>1. ASSUME NEW a \in Aggregators PROVE Gathering(agg'[a])
  <2>1. Gathering(agg[a])
    BY Zenon DEF Sourced, Gatherings
  <2>2. CASE agg'[a] = Idle
    BY <2>2, IdleGathers, Zenon
  <2>3. CASE /\ agg[a].pc = "set" /\ agg[a].spent < MaxFetch
             /\ Waiting(agg[a], agg'[a], agg[a].name)
             /\ agg'[a].defs = agg[a].defs /\ agg'[a].spent = agg[a].spent + 1
    <3>1. agg[a].spent \in 0..MaxFetch /\ Asked(agg[a]) \subseteq Servers
          /\ Head(agg[a].rest).id \in Asked(agg[a])
      BY <2>1, <2>3, Zenon DEF Gathering
    <3>2. agg'[a].spent \in 0..MaxFetch
      <4> DEFINE x == agg[a].spent
                 y == agg'[a].spent
      <4>1. x \in 0..MaxFetch /\ x < MaxFetch /\ y = x + 1
        BY <2>3, <3>1, Zenon
      <4> HIDE DEF x, y
      <4>2. y \in 0..MaxFetch
        BY <4>1, Spans
      <4> QED
        BY <4>2, Zenon DEF y
    <3>3. Asked(agg'[a]) = Asked(agg[a]) /\ agg[a].pc \in {"pick", "set"}
      BY <2>3, Zenon DEF Asked
    <3> QED
      BY <2>1, <2>3, <3>1, <3>2, <3>3, WaitingGathers, Zenon
  <2> QED
    BY <2>2, <2>3, TickShape, Zenon DEF Sourced
<1>2. Gatherings'
  <2>1. agg' = [a \in Aggregators |-> agg'[a]]
    BY Zenon DEF Tick
  <2> QED
    BY <1>1, <2>1, Zenon DEF Gatherings
<1>3. ASSUME NEW e \in cache' PROVE Definition(e)
  <2>1. PICK x \in cache : x.age < TTL /\ e = [x EXCEPT !.age = @ + 1]
    BY Zenon DEF Tick, Aged
  <2>2. Definition(x)
    BY Zenon DEF Sourced
  <2>3. /\ e = [f \in {"name", "edition", "server", "age"} |-> e[f]] /\ e.server = x.server
        /\ e.age = x.age + 1
    BY <2>1, <2>2, Zenon DEF Definition
  <2>4. x.age + 1 \in 0..TTL
    BY <2>1, <2>2, Spans DEF Definition
  <2> QED
    BY <2>2, <2>3, <2>4, Zenon DEF Definition
<1>4. debounce' \in 0..TTL /\ ((debounce = 0 /\ debounce' = 0) \/ debounce' = debounce - 1)
  <2>1. debounce \in 0..TTL /\ debounce' = Max({0, debounce - 1})
    BY Zenon DEF Sourced, Tick
  <2> DEFINE m == Max({0, debounce - 1})
  <2>2. m = IF debounce = 0 THEN 0 ELSE debounce - 1
    <3>1. \E x \in {0, debounce - 1} : \A y \in {0, debounce - 1} : x >= y
      BY <2>1, Spans
    <3>2. m \in {0, debounce - 1} /\ \A y \in {0, debounce - 1} : m >= y
      BY <3>1, Zenon DEF Max
    <3> QED
      BY <2>1, <3>2, Spans
  <2>3. debounce' = m
    BY <2>1, Zenon
  <2> HIDE DEF m
  <2> QED
    BY <2>1, <2>2, <2>3, Spans
<1>5. calm' \in 0..Settled /\ calm' <= calm + 1
  <2>1. calm \in 0..Settled /\ calm' = Min({calm + 1, Settled})
    BY Zenon DEF Sourced, Tick
  <2>2. calm' \in {calm + 1, Settled} /\ \A y \in {calm + 1, Settled} : calm' <= y
    <3>1. {calm + 1, Settled} \subseteq Nat /\ {calm + 1, Settled} # {}
      BY <2>1, Spans
    <3> QED
      BY <2>1, <3>1, MinIsLeast, Zenon
  <2> QED
    BY <2>1, <2>2, Spans
<1> QED
  BY <1>2, <1>3, <1>4, <1>5, Zenon

\* Every step keeps to the servers.
LEMMA SourcedInductive ==
    /\ PInit => Sourced
    /\ Sourced /\ [PNext]_pvars => Sourced'
<1>0. 0 \in 0..TTL /\ 0 \in 0..Settled /\ TTL \in 0..TTL
  BY Spans
<1>1. ASSUME PInit PROVE Sourced
  <2>1. fleet \subseteq Servers
    <3>1. mode \in Modes /\ fleet \in Fleets[mode]
      BY <1>1, Zenon DEF PInit
    <3>2. Fleets[mode] \in SUBSET SUBSET Servers
      BY <3>1, BoundsAssumption, Zenon
    <3> QED
      BY <3>1, <3>2, Zenon
  <2>2. Gatherings
    BY <1>1, IdleGathers, Zenon DEF PInit, Gatherings
  <2> QED
    BY <1>0, <1>1, <2>1, <2>2, FirstIndex, Zenon DEF PInit, Sourced
<1>2. ASSUME Sourced, [PNext]_pvars PROVE Sourced'
  <2> USE <1>2
  <2>1. /\ fleet \subseteq Servers /\ Records(index) /\ Gatherings /\ (\A e \in cache : Definition(e))
        /\ (\A x \in tools : Listing(x)) /\ debounce \in 0..TTL /\ calm \in 0..Settled
    BY Zenon DEF Sourced
  <2>2. ASSUME NEW s \in fleet, RefreshServer(s) PROVE Sourced'
    <3>1. Records(index')
      BY <2>1, <2>2, RefreshKeeps, Zenon DEF RefreshServer
    <3> QED
      BY <1>0, <2>1, <2>2, <3>1, Zenon DEF RefreshServer, Sourced, Gatherings, config, listing
  <2>3. ASSUME NEW e \in events, Invalidate(e) PROVE Sourced'
    <3>1. cache' \subseteq cache
      BY <2>3, Zenon DEF Invalidate, InvalidateServer
    <3> QED
      BY <2>1, <2>3, <3>1, Zenon DEF Invalidate, Sourced, Gatherings, config
  <2>4. CASE SyncBegin \/ CatalogBegin
    <3>1. PICK a \in Aggregators : \E h :
             /\ agg[a] = Idle /\ Begun(h) /\ agg' = [agg EXCEPT ![a] = h]
             /\ UNCHANGED <<config, registry, pod, conns, cache, tools, calm>>
             /\ \/ a = "sync" /\ debounce' = TTL
                \/ a = "catalog" /\ debounce' = debounce
      BY <2>1, <2>4, BeginsShape, Zenon
    <3>2. PICK h : Begun(h) /\ agg' = [agg EXCEPT ![a] = h]
      BY <3>1, Zenon
    <3>3. Gatherings'
      BY <2>1, <3>2, BegunGathers, WithKeeps, Zenon
    <3> QED
      BY <1>0, <2>1, <3>1, <3>3, Zenon DEF Sourced, config, pod
  <2>5. ASSUME NEW a \in Aggregators, Pick(a) PROVE Sourced'
    <3>1. UNCHANGED <<config, registry, pod, cache, tools, debounce>> /\ (calm' = calm \/ calm' = 0)
      BY <2>1, <2>5, PickShape, Zenon DEF PickSeen, PickCached, PickKnown, PickAsks
    <3>2. Gatherings'
      BY <2>5, PickKeeps, Zenon
    <3> QED
      BY <1>0, <2>1, <3>1, <3>2, Zenon DEF Sourced, config, pod
  <2>6. ASSUME NEW a \in Aggregators, SetTool(a) PROVE Sourced'
    <3>1. UNCHANGED <<config, registry, pod, conns, tools, debounce, calm>>
      BY <2>1, <2>6, SetShape, Zenon
    <3>2. Gatherings' /\ \A e \in cache' : Definition(e)
      BY <2>6, SetKeeps, Zenon
    <3> QED
      BY <2>1, <3>1, <3>2, Zenon DEF Sourced, config, pod
  <2>7. CASE SyncEnd
    <3>1. UNCHANGED <<fleet, index, cache, debounce, calm>> /\ tools' = agg["sync"].result
          /\ "sync" \in Aggregators /\ agg' = [agg EXCEPT !["sync"] = Idle]
      BY <2>7, Zenon DEF SyncEnd, Stay, config, pod, Aggregators
    <3>2. Gatherings'
      BY <2>1, <3>1, IdleGathers, WithKeeps, Zenon
    <3>3. \A x \in tools' : Listing(x)
      BY <2>1, <3>1, Zenon DEF Gatherings, Gathering
    <3> QED
      BY <2>1, <3>1, <3>2, <3>3, Zenon DEF Sourced
  <2>8. CASE Tick
    <3>1. UNCHANGED <<fleet, index, tools>>
      BY <2>8, Zenon DEF Tick, config, pod
    <3> QED
      BY <2>1, <2>8, <3>1, TickKeeps, Zenon DEF Sourced
  <2>9. CASE \/ \E s \in fleet : Deregister(s)
             \/ \E s \in fleet : \E a \in Addrs[s] : Register(s, a)
             \/ resetSyncDebounce
             \/ \E n : Route(n)
             \/ \E uri : ReadResource(uri)
             \/ UNCHANGED pvars
    <3>1. UNCHANGED <<fleet, index, agg, cache, tools>> /\ (debounce' = debounce \/ debounce' = 0)
          /\ (calm' = calm \/ calm' = 0)
      BY <2>9, Zenon DEF Deregister, Register, Announce, resetSyncDebounce, Route, ReadResource, Stay,
                  config, pod, listing, pvars
    <3> QED
      BY <1>0, <2>1, <3>1, Zenon DEF Sourced, Gatherings
  <2> QED
    BY <2>2, <2>3, <2>4, <2>5, <2>6, <2>7, <2>8, <2>9, Zenon DEF PNext, CallFrom
<1> QED
  BY <1>1, <1>2, Zenon

\* A call by a prefixed name goes to the server the name was listed for or
\* to none, whatever the index has become since the listing (Router.Route).
THEOREM PrefixedNamesAreBound == PSpec => []PrefixedNamesStayPut
<1>1. ASSUME Sourced PROVE PrefixedNamesStayPut
  <2> SUFFICES ASSUME NEW x \in tools, NEW t \in Profile[x.server].tools,
                      x.name = Profile[x.server].display \o t,
                      NEW r \in Candidates(index, x.name)
               PROVE  r.id = x.server
    BY Zenon DEF PrefixedNamesStayPut
  <2>1. x.server \in Servers /\ \A q \in Range(index) : q.id \in Servers
    BY <1>1, Zenon DEF Sourced, Records, Listing
  <2>2. r \in Candidates(index, Profile[x.server].display \o t)
    BY Zenon
  <2> QED
    BY <2>1, <2>2, NamesResolve, Zenon
<1>2. PInit => Sourced
  BY SourcedInductive, Zenon
<1>3. Sourced /\ [PNext]_pvars => Sourced'
  BY SourcedInductive, Zenon
<1> QED
  BY <1>1, <1>2, <1>3, PTL DEF PSpec

-----------------------------------------------------------------------------
(* The index, once the refreshes that are due have been made.              *)

Known(s) == IF real[s] = None THEN {} ELSE {Record(s, real[s])}

Heard ==
    /\ mode \in Modes
    /\ editions \in Nat /\ editions # 0
    /\ real = [s \in Servers |-> real[s]]
    /\ \A s \in Servers : real[s] # None => real[s].edition # 0
    /\ \A s \in Servers \ stale : {r \in Range(index) : r.id = s} = Known(s)

LEMMA HeardInductive ==
    /\ PInit => Heard
    /\ Sourced /\ Heard /\ [PNext]_pvars => Heard'
<1>1. ASSUME PInit PROVE Heard
  <2>1. PICK there \in SUBSET fleet : \E at \in [Servers -> UNION {Addrs[s] : s \in Servers}] :
          real = [s \in Servers |-> IF s \in there THEN [edition |-> 1, addr |-> at[s]] ELSE None]
    BY <1>1, Zenon DEF PInit
  <2>2. PICK at \in [Servers -> UNION {Addrs[s] : s \in Servers}] :
          real = [s \in Servers |-> IF s \in there THEN [edition |-> 1, addr |-> at[s]] ELSE None]
    BY <2>1, Zenon
  <2>3. real = [s \in Servers |-> real[s]]
    BY <2>2, Zenon
  <2>4. ASSUME NEW s \in Servers, real[s] # None PROVE real[s].edition # 0
    <3>1. real[s] = [edition |-> 1, addr |-> at[s]]
      BY <2>2, <2>4, Zenon
    <3>2. real[s].edition = 1
      BY <3>1
    <3> QED
      BY <3>2
  <2>5. ASSUME NEW s \in Servers PROVE {r \in Range(index) : r.id = s} = Known(s)
    <3>1. Range(index) = {Record(x, real[x]) : x \in {y \in Servers : real[y] # None}}
      BY <1>1, FirstIndex, Zenon
    <3>2. \A x : Record(x, real[x]).id = x
      BY Zenon DEF Record
    <3>3. ASSUME NEW r, r \in Range(index), r.id = s PROVE r = Record(s, real[s]) /\ real[s] # None
      <4>1. PICK x \in {y \in Servers : real[y] # None} : r = Record(x, real[x])
        BY <3>1, <3>3, Zenon
      <4> QED
        BY <3>2, <3>3, <4>1, Zenon
    <3>4. ASSUME real[s] # None PROVE Record(s, real[s]) \in {r \in Range(index) : r.id = s}
      BY <3>1, <3>2, <3>4, Zenon
    <3> QED
      BY <3>3, <3>4, Zenon DEF Known
  <2>6. editions \in Nat /\ editions # 0
    BY <1>1 DEF PInit
  <2> QED
    BY <1>1, <2>3, <2>4, <2>5, <2>6, Zenon DEF Heard, PInit
<1>2. ASSUME Sourced, Heard, [PNext]_pvars PROVE Heard'
  <2> USE <1>2
  <2>0. mode \in Modes /\ mode' = mode
    <3>1. UNCHANGED config
      BY Zenon DEF PNext, Deregister, RefreshServer, Register, Invalidate, resetSyncDebounce, SyncBegin, SyncEnd,
              CatalogBegin, Tick, Pick, SetTool, Route, CallFrom, ReadResource, Stay, pvars
    <3> QED
      BY <3>1, Zenon DEF Heard, config
  <2>1. /\ editions \in Nat /\ editions # 0 /\ real = [s \in Servers |-> real[s]]
        /\ \A s \in Servers : real[s] # None => real[s].edition # 0
        /\ \A s \in Servers \ stale : {r \in Range(index) : r.id = s} = Known(s)
    BY Zenon DEF Heard
  <2>2. ASSUME NEW s \in Servers, NEW reg, reg # None => reg.edition # 0,
               real' = [real EXCEPT ![s] = reg], stale' = stale \cup {s}, index' = index,
               editions' = editions + 1
        PROVE  Heard'
    <3>1. /\ real' = [x \in Servers |-> real'[x]] /\ real'[s] = reg
          /\ \A x \in Servers \ {s} : real'[x] = real[x]
      BY <2>1, <2>2, Zenon
    <3>2. editions' \in Nat /\ editions' # 0
      BY <2>1, <2>2
    <3>3. ASSUME NEW x \in Servers \ stale'
          PROVE  {r \in Range(index') : r.id = x} = IF real'[x] = None THEN {} ELSE {Record(x, real'[x])}
      <4>1. x \in Servers \ stale /\ real'[x] = real[x]
        BY <2>2, <3>1, Zenon
      <4> QED
        BY <2>1, <2>2, <4>1, Zenon DEF Known
    <3>4. \A x \in Servers : real'[x] # None => real'[x].edition # 0
      BY <2>1, <2>2, <3>1, Zenon
    <3> QED
      BY <2>0, <3>1, <3>2, <3>3, <3>4, Zenon DEF Heard, Known
  <2>3. ASSUME NEW s \in fleet, Deregister(s) PROVE Heard'
    <3>1. real' = [real EXCEPT ![s] = None] /\ stale' = stale \cup {s} /\ index' = index
          /\ editions' = editions + 1 /\ s \in Servers
      BY <2>3, Zenon DEF Deregister, Announce, Sourced
    <3> QED
      BY <2>2, <3>1, Zenon
  <2>4. ASSUME NEW s \in fleet, NEW a \in Addrs[s], Register(s, a) PROVE Heard'
    <3> DEFINE reg == [edition |-> editions', addr |-> a]
    <3>1. real' = [real EXCEPT ![s] = reg] /\ stale' = stale \cup {s} /\ index' = index
          /\ editions' = editions + 1 /\ s \in Servers
      BY <2>4, Zenon DEF Register, Announce, Sourced
    <3>2. reg.edition # 0
      <4>1. reg.edition = editions'
        BY Zenon
      <4> HIDE DEF reg
      <4>2. reg.edition = editions + 1
        BY <3>1, <4>1, Zenon
      <4> QED
        BY <2>1, <4>2
    <3> HIDE DEF reg
    <3> QED
      BY <2>2, <3>1, <3>2, Zenon
  <2>5. ASSUME NEW s \in fleet, RefreshServer(s) PROVE Heard'
    <3>1. /\ UNCHANGED <<real, editions>> /\ stale' = stale \ {s} /\ index' = Refreshed(index, s)
          /\ s \in Servers
      BY <2>5, Zenon DEF RefreshServer, registry, Sourced
    <3>2. Range(index') = {r \in Range(index) : r.id # s} \cup Known(s)
      BY <3>1, RefreshKeeps, Zenon DEF Known, Sourced
    <3>3. ASSUME NEW x \in Servers \ stale' PROVE {r \in Range(index') : r.id = x} = Known(x)
      <4>1. \A r \in Known(s) : r.id = s
        <5>1. Record(s, real[s]).id = s
          BY Zenon DEF Record
        <5> QED
          BY <5>1, Zenon DEF Known
      <4>2. CASE x = s
        BY <3>2, <4>1, <4>2, Zenon
      <4>3. CASE x # s
        <5>1. x \in Servers \ stale
          BY <3>1, <4>3, Zenon
        <5>2. {r \in Range(index') : r.id = x} = {r \in Range(index) : r.id = x}
          BY <3>2, <4>1, <4>3, Zenon
        <5> QED
          BY <2>1, <5>1, <5>2, Zenon
      <4> QED
        BY <4>2, <4>3, Zenon
    <3> QED
      BY <2>0, <2>1, <3>1, <3>3, Zenon DEF Heard, Known
  <2>6. ASSUME UNCHANGED <<real, editions, stale, index>> PROVE Heard'
    BY <2>0, <2>1, <2>6, Zenon DEF Heard, Known
  <2>7. CASE \/ \E e \in events : Invalidate(e)
             \/ resetSyncDebounce \/ SyncBegin \/ SyncEnd \/ CatalogBegin \/ Tick
             \/ \E a \in Aggregators : Pick(a) \/ SetTool(a)
             \/ \E n : Route(n)
             \/ \E uri : ReadResource(uri)
             \/ UNCHANGED pvars
    <3>1. UNCHANGED <<real, editions, stale, index>>
      BY <2>7, Zenon DEF Invalidate, resetSyncDebounce, SyncBegin, SyncEnd, CatalogBegin, Tick, Pick, SetTool,
                  Route, ReadResource, Stay, registry, pod, pvars
    <3> QED
      BY <2>6, <3>1, Zenon
  <2> QED
    BY <2>3, <2>4, <2>5, <2>7, Zenon DEF PNext, CallFrom
<1> QED
  BY <1>1, <1>2, Zenon

-----------------------------------------------------------------------------
(* Whose a listed name is.                                                 *)

\* A name with the display name before it begins with it.
LEMMA Prefixed ==
    ASSUME NEW s \in Servers, NEW t \in Profile[s].tools
    PROVE  LET d == Head(Profile[s].display) IN
           /\ Profile[s].display = <<d>>
           /\ (Profile[s].display \o t)[1] = d
           /\ HasPrefix(t, Profile[s].display) => t[1] = d
<1> DEFINE d == Head(Profile[s].display)
           W == {d} \cup Range(t)
<1>1. Profile[s].display = <<d>> /\ t \in Seq(Range(t)) /\ t # <<>>
  BY NamesAssumption, Zenon
<1>2. d \in W /\ t \in Seq(W) /\ t # <<>>
  BY <1>1
<1> HIDE DEF d, W
<1>3. (<<d>> \o t)[1] = d
  BY <1>2
<1>4. ASSUME HasPrefix(t, <<d>>) PROVE t[1] = d
  <2>1. SubSeq(t, 1, Len(<<d>>)) = <<d>>
    BY <1>4, Zenon DEF HasPrefix
  <2>2. Len(<<d>>) = 1
    OBVIOUS
  <2>3. SubSeq(t, 1, 1) = <<d>>
    BY <2>1, <2>2, Zenon
  <2>4. <<d>>[1] = d
    BY <1>2
  <2>5. SubSeq(t, 1, 1)[1] = t[1]
    BY <1>2
  <2> QED
    BY <2>3, <2>4, <2>5, Zenon
<1>5. Profile[s].display = <<d>> /\ (Profile[s].display \o t)[1] = d
      /\ (HasPrefix(t, Profile[s].display) => t[1] = d)
  BY <1>1, <1>3, <1>4, Zenon
<1> QED
  BY <1>5, Zenon DEF d

LEMMA ListIsFinite ==
    ASSUME NEW S, NEW q \in Seq(S)
    PROVE  IsFiniteSet(Range(q))
<1> DEFINE I == 1..Len(q)
           Op(i) == q[i]
<1>1. Len(q) \in Nat /\ DOMAIN q = I
  OBVIOUS
<1>2. 1 \in Int /\ Len(q) \in Int
  BY <1>1
<1>3. IsFiniteSet(I)
  BY <1>2, FS_Interval, Zenon
<1>4. q \in Surjection(I, Range(q))
  <2>1. q \in [I -> Range(q)]
    <3>1. q = [i \in I |-> q[i]]
      BY <1>1
    <3>2. \A i \in I : q[i] \in Range(q)
      BY <1>1, Zenon DEF Range
    <3> QED
      BY <3>1, <3>2, Zenon
  <2>2. \A v \in Range(q) : \E i \in I : q[i] = v
    BY <1>1, Zenon DEF Range
  <2> QED
    BY <2>1, <2>2, Zenon DEF Surjection
<1> HIDE DEF I
<1> QED
  BY <1>3, <1>4, FS_Surjection, Zenon

\* Two records of a set that has one at most are the same.
LEMMA AtMostOne ==
    ASSUME NEW S, IsFiniteSet(S), ~(Cardinality(S) > 1), NEW x \in S, NEW y \in S
    PROVE  x = y
<1> SUFFICES ASSUME x # y PROVE FALSE
  BY Zenon
<1> DEFINE R == S \ {x}
           Q == R \ {y}
<1>1. IsFiniteSet(R) /\ Cardinality(R) = Cardinality(S) - 1
  BY FS_RemoveElement
<1>2. y \in R
  BY Zenon
<1> HIDE DEF R
<1>3. IsFiniteSet(Q) /\ Cardinality(Q) = Cardinality(R) - 1
  BY <1>1, <1>2, FS_RemoveElement
<1> HIDE DEF Q
<1>4. Cardinality(Q) \in Nat /\ Cardinality(R) \in Nat /\ Cardinality(S) \in Nat
  BY <1>1, <1>3, FS_CardinalityType, Zenon
<1> QED
  BY <1>1, <1>3, <1>4

\* Under whichever name a tool is listed, no other server's is listed under
\* it.
LEMMA NameOwner ==
    ASSUME NEW md \in Modes, NEW ix, Records(ix),
           NEW r \in Range(ix), NEW t \in Tools(r), NEW q \in Range(ix), NEW u \in Tools(q),
           FederatedName(md, ix, r, t) = FederatedName(md, ix, q, u)
    PROVE  r.id = q.id
<1> DEFINE dr == Head(Profile[r.id].display)
           dq == Head(Profile[q.id].display)
<1>1. r.id \in Servers /\ q.id \in Servers /\ t \in Profile[r.id].tools /\ u \in Profile[q.id].tools
  BY Zenon DEF Records, Tools
<1>2. /\ Display(r) = <<dr>> /\ (Display(r) \o t)[1] = dr
      /\ HasPrefix(t, Display(r)) => t[1] = dr
  BY <1>1, Prefixed, Zenon DEF Display
<1>3. /\ Display(q) = <<dq>> /\ (Display(q) \o u)[1] = dq
      /\ HasPrefix(u, Display(q)) => u[1] = dq
  BY <1>1, Prefixed, Zenon DEF Display
<1> HIDE DEF dr, dq
<1>4. ASSUME dr = dq PROVE r.id = q.id
  <2>1. Profile[q.id].display = Profile[r.id].display
    BY <1>2, <1>3, <1>4, Zenon DEF Display
  <2>2. Profile[q.id].display \in {Profile[r.id].full, Profile[r.id].display, <<r.id>>}
    BY <2>1, Zenon
  <2> QED
    BY <1>1, <2>2, NamesAssumption, Zenon
<1>5. CASE md = Reject
  <2>1. FederatedName(md, ix, r, t)[1] = dr /\ FederatedName(md, ix, q, u)[1] = dq
    BY <1>2, <1>3, <1>5, Zenon DEF FederatedName, federatedToolName
  <2> QED
    BY <1>4, <2>1, Zenon
<1>6. ASSUME md # Reject PROVE r.id = q.id
  <2> DEFINE pr == md = Always \/ (md = OnConflict /\ IsConflict(ix, t))
             pq == md = Always \/ (md = OnConflict /\ IsConflict(ix, u))
  <2>1. /\ FederatedName(md, ix, r, t) = IF pr THEN Display(r) \o t ELSE t
        /\ FederatedName(md, ix, q, u) = IF pq THEN Display(q) \o u ELSE u
    BY <1>6, Zenon DEF FederatedName, ApplyNamespace
  <2>2. CASE pr /\ pq
    BY <1>2, <1>3, <1>4, <2>1, <2>2, Zenon
  <2>3. CASE pr /\ ~pq
    <3>1. u = Profile[r.id].display \o t
      BY <2>1, <2>3, Zenon DEF Display
    <3> QED
      BY <1>1, <3>1, NamesAssumption, Zenon
  <2>4. CASE ~pr /\ pq
    <3>1. t = Profile[q.id].display \o u
      BY <2>1, <2>4, Zenon DEF Display
    <3> QED
      BY <1>1, <3>1, NamesAssumption, Zenon
  <2>5. CASE ~pr /\ ~pq
    <3>1. t = u
      BY <2>1, <2>5, Zenon
    <3>2. md = OnConflict /\ md # Always
      BY <1>6, <2>5, Zenon DEF Modes
    <3>3. ~(Cardinality(LookupTool(ix, t)) > 1)
      BY <2>5, <3>2, Zenon DEF IsConflict
    <3>4. r \in LookupTool(ix, t) /\ q \in LookupTool(ix, t) /\ LookupTool(ix, t) \subseteq Range(ix)
      BY <3>1, Zenon DEF LookupTool
    <3>5. IsFiniteSet(LookupTool(ix, t))
      BY <3>4, ListIsFinite, FS_Subset, Zenon DEF Records
    <3>6. r = q
      BY <3>3, <3>4, <3>5, AtMostOne, Zenon
    <3> QED
      BY <3>6, Zenon
  <2> QED
    BY <2>2, <2>3, <2>4, <2>5, Zenon
<1> QED
  BY <1>5, <1>6, Zenon

-----------------------------------------------------------------------------
(* How long an aggregation can have been under way: it waits for each      *)
(* backend once, for MaxFetch at most.                                     *)

Lim(k) == MaxFetch * k
Worst(g) == IF g.pc = "set" THEN Lim(Cardinality(Asked(g)) - 1) + g.spent ELSE Lim(Cardinality(Asked(g)))

LEMMA LimGrows ==
    /\ \A k \in Nat : Lim(k) \in Nat /\ Lim(k + 1) = Lim(k) + MaxFetch
    /\ \A j, k \in Nat : j <= k => Lim(j) <= Lim(k)
<1>1. MaxFetch \in Nat
  BY Spans, Zenon
<1>2. ASSUME NEW k \in Nat PROVE Lim(k) \in Nat /\ Lim(k + 1) = Lim(k) + MaxFetch
  BY <1>1 DEF Lim
<1>3. ASSUME NEW j \in Nat, NEW k \in Nat, j <= k PROVE Lim(j) <= Lim(k)
  <2>1. PICK i \in Nat : k = j + i
    <3>1. k - j \in Nat /\ k = j + (k - j)
      BY <1>3
    <3> QED
      BY <3>1, Zenon
  <2>2. Lim(k) = Lim(j) + Lim(i)
    BY <1>1, <2>1 DEF Lim
  <2>3. Lim(i) \in Nat /\ Lim(j) \in Nat
    BY <1>2, Zenon
  <2> QED
    BY <2>2, <2>3
<1> QED
  BY <1>2, <1>3, Zenon

LEMMA AskedIsFinite ==
    ASSUME NEW g, Gathering(g)
    PROVE  /\ IsFiniteSet(Asked(g)) /\ Cardinality(Asked(g)) \in Nat
           /\ Cardinality(Asked(g)) <= Cardinality(Servers) /\ Cardinality(Servers) \in Nat
           /\ g.pc = "set" => Cardinality(Asked(g)) # 0
<1>1. Asked(g) \in SUBSET Servers /\ IsFiniteSet(Servers)
  BY NamesAssumption, Zenon DEF Gathering
<1>2. IsFiniteSet(Asked(g)) /\ Cardinality(Asked(g)) <= Cardinality(Servers)
  BY <1>1, FS_Subset, Zenon
<1>3. g.pc = "set" => Asked(g) # {}
  BY Zenon DEF Gathering
<1> QED
  BY <1>1, <1>2, <1>3, FS_CardinalityType, FS_EmptySet, Zenon

LEMMA WorstIsBounded ==
    ASSUME NEW g, Gathering(g)
    PROVE  Worst(g) \in Nat /\ Worst(g) <= Longest /\ Worst(g) <= Lim(Cardinality(Asked(g)))
<1> DEFINE k == Cardinality(Asked(g))
           j == k - 1
           N == Cardinality(Servers)
           s == g.spent
<1>1. k \in Nat /\ N \in Nat /\ k <= N /\ (g.pc = "set" => k # 0)
  BY AskedIsFinite, Zenon
<1>2. s \in 0..MaxFetch /\ MaxFetch \in Nat
  BY Spans, Zenon DEF Gathering
<1>3. Longest = Lim(N)
  BY Zenon DEF Longest, Lim
<1>4. Lim(k) \in Nat /\ Lim(N) \in Nat /\ Lim(k) <= Lim(N)
  BY <1>1, LimGrows, Zenon
<1>5. Worst(g) = IF g.pc = "set" THEN Lim(j) + s ELSE Lim(k)
  BY Zenon DEF Worst
<1> HIDE DEF k, N, s
<1>6. CASE g.pc = "set"
  <2>1. j \in Nat /\ j + 1 = k
    BY <1>1, <1>6
  <2> HIDE DEF j
  <2>2. Lim(j) \in Nat /\ Lim(k) = Lim(j) + MaxFetch
    BY <2>1, LimGrows, Zenon
  <2>3. Worst(g) = Lim(j) + s
    BY <1>5, <1>6, Zenon
  <2>4. Worst(g) \in Nat /\ Worst(g) <= Lim(N) /\ Worst(g) <= Lim(k)
    BY <1>2, <1>4, <2>2, <2>3
  <2> QED
    BY <1>3, <2>4, Zenon DEF k
<1>7. CASE g.pc # "set"
  <2>1. Worst(g) = Lim(k)
    BY <1>5, <1>7, Zenon
  <2>2. Worst(g) \in Nat /\ Worst(g) <= Lim(N) /\ Worst(g) <= Lim(k)
    BY <1>4, <2>1
  <2> QED
    BY <1>3, <2>2, Zenon DEF k
<1> QED
  BY <1>6, <1>7, Zenon

\* Only waiting takes time: to go on to the next candidate takes none, and
\* neither does to begin to wait.
LEMMA WorstGrows ==
    ASSUME NEW g, Gathering(g), NEW h, Gathering(h)
    PROVE  /\ h.pc # "set" /\ Asked(h) = Asked(g) => Worst(g) <= Worst(h)
           /\ g.pc = "pick" /\ h.pc = "set" /\ Asked(h) = Asked(g) /\ h.spent = MaxFetch => Worst(g) <= Worst(h)
           /\ \A s : g.pc = "pick" /\ h.pc = "set" /\ s \notin Asked(g) /\ Asked(h) = Asked(g) \cup {s}
                     /\ h.spent = 0 => Worst(g) <= Worst(h)
           /\ g.pc = "set" /\ h.pc = "set" /\ Asked(h) = Asked(g) /\ h.spent = g.spent + 1
                     => Worst(h) = Worst(g) + 1
<1> DEFINE k == Cardinality(Asked(g))
           m == Cardinality(Asked(h))
<1>1. /\ k \in Nat /\ (g.pc = "set" => k # 0) /\ IsFiniteSet(Asked(g))
      /\ m \in Nat /\ (h.pc = "set" => m # 0)
  BY AskedIsFinite, Zenon
<1>2. Worst(g) \in Nat /\ Worst(h) \in Nat /\ Worst(g) <= Lim(k)
  BY WorstIsBounded, Zenon
<1>3. g.spent \in 0..MaxFetch /\ h.spent \in 0..MaxFetch /\ MaxFetch \in Nat
  BY Spans, Zenon DEF Gathering
<1>4. /\ h.pc = "set" => Worst(h) = Lim(m - 1) + h.spent
      /\ h.pc # "set" => Worst(h) = Lim(m)
      /\ g.pc = "set" => Worst(g) = Lim(k - 1) + g.spent
  BY Zenon DEF Worst
<1>5. Asked(h) = Asked(g) => m = k
  BY Zenon
<1>6. ASSUME NEW s, s \notin Asked(g), Asked(h) = Asked(g) \cup {s} PROVE m = k + 1
  BY <1>1, <1>6, FS_AddElement, Zenon
<1> HIDE DEF k, m
<1>7. ASSUME h.pc # "set", Asked(h) = Asked(g) PROVE Worst(g) <= Worst(h)
  BY <1>2, <1>4, <1>5, <1>7, Zenon
<1>8. ASSUME h.pc = "set", Asked(h) = Asked(g), h.spent = MaxFetch PROVE Worst(g) <= Worst(h)
  <2> DEFINE j == k - 1
  <2>1. j \in Nat /\ j + 1 = k
    BY <1>1, <1>5, <1>8
  <2>2. Worst(h) = Lim(j) + MaxFetch
    BY <1>4, <1>5, <1>8, Zenon
  <2> HIDE DEF j
  <2>3. Lim(k) = Lim(j) + MaxFetch
    BY <2>1, LimGrows, Zenon
  <2> QED
    BY <1>2, <2>2, <2>3, Zenon
<1>9. ASSUME NEW s, h.pc = "set", s \notin Asked(g), Asked(h) = Asked(g) \cup {s}, h.spent = 0
      PROVE  Worst(g) <= Worst(h)
  <2>1. m - 1 = k
    BY <1>1, <1>6, <1>9
  <2>2. Worst(h) = Lim(k) + 0 /\ Lim(k) \in Nat
    BY <1>1, <1>4, <1>9, <2>1, LimGrows, Zenon
  <2> QED
    BY <1>2, <2>2
<1>10. ASSUME g.pc = "set", h.pc = "set", Asked(h) = Asked(g), h.spent = g.spent + 1
       PROVE  Worst(h) = Worst(g) + 1
  <2> DEFINE j == k - 1
             L == Lim(j)
  <2>1. j \in Nat
    BY <1>1, <1>10
  <2>2. Worst(h) = L + (g.spent + 1) /\ Worst(g) = L + g.spent
    BY <1>4, <1>5, <1>10, Zenon
  <2> HIDE DEF j
  <2>3. L \in Nat
    BY <2>1, LimGrows, Zenon
  <2> HIDE DEF L
  <2> QED
    BY <1>3, <2>2, <2>3
<1> QED
  BY <1>7, <1>8, <1>9, <1>10, Zenon

-----------------------------------------------------------------------------
(* What is current.  A namespace mode md, an index ix and a registry rl    *)
(* decide which listings are due; G are the servers whose client is not    *)
(* bound to a former address.                                              *)

Good(rl, cl) == {s \in Servers : cl[s] \in {NoAddr, rl[s].addr}}

Owned(md, ix, n, s) == \E r \in Range(ix) : r.id = s /\ \E t \in Tools(r) : n = FederatedName(md, ix, r, t)

\* A listing or a cached definition under a name of its server, and current.
Right(md, ix, rl, G, x) ==
    /\ Owned(md, ix, x.name, x.server)
    /\ x.server \in G => x.edition = rl[x.server].edition

Entry(md, ix, rl, r, t) == Line(FederatedName(md, ix, r, t), rl[r.id].edition, r.id)

Complete(md, ix, rl, G, S) ==
    /\ \A x \in S : Right(md, ix, rl, G, x)
    /\ \A r \in Range(ix) : \A t \in Tools(r) : r.id \in G => Entry(md, ix, rl, r, t) \in S

\* An aggregation works with the index and the definitions there are now.
Abreast(md, ix, rl, G, g) ==
    /\ \A d \in g.defs : d.server \in G => d.edition = rl[d.server].edition
    /\ g.pc \in {"pick", "set"} => \A r \in Range(g.rest) : r \in Range(ix) /\ Head(g.todo) \in Tools(r)
    /\ g.pc = "set" => g.name = FederatedName(md, ix, Head(g.rest), Head(g.todo))

\* It will have listed everything when it ends.
Underway(md, ix, rl, G, g) ==
    /\ \A x \in g.result : Right(md, ix, rl, G, x)
    /\ \A r \in Range(ix) : \A t \in Tools(r) :
        r.id \in G => Entry(md, ix, rl, r, t) \in g.result \/ Ahead(g, r, t)

Shown(md, ix, rl, G, g, ts) ==
    IF g.pc = "idle" THEN Complete(md, ix, rl, G, ts) ELSE Underway(md, ix, rl, G, g)

\* The last sync began when nothing of a disturbance was in the cache.
Late(d, k) == d > 0 /\ k + d > Longest + 2 * TTL

\* A disturbance is felt in an aggregation that began before it, then in what
\* that one cached, then in what a sync listed from the cache; each for its
\* time only.
Caught(md, ix, rl, G, gs, c, ts, d, k) ==
    /\ \A a \in Aggregators : Abreast(md, ix, rl, G, gs[a]) \/ k <= Worst(gs[a])
    /\ \A e \in c : Right(md, ix, rl, G, e) \/ k <= e.age + Longest
    /\ Late(d, k) => Shown(md, ix, rl, G, gs["sync"], ts)

Converging == stale = {} => Caught(mode, index, real, Good(real, clients), agg, cache, tools, debounce, calm)

\* Fewer servers to answer for is less to show.
LEMMA FewerAreCaught ==
    ASSUME NEW md, NEW ix, NEW rl, NEW gs, NEW c, NEW ts, NEW d, NEW k,
           NEW G, NEW H, H \subseteq G, Caught(md, ix, rl, G, gs, c, ts, d, k)
    PROVE  Caught(md, ix, rl, H, gs, c, ts, d, k)
<1>1. ASSUME NEW x, Right(md, ix, rl, G, x) PROVE Right(md, ix, rl, H, x)
  BY <1>1, Zenon DEF Right
<1>2. ASSUME NEW g, Abreast(md, ix, rl, G, g) PROVE Abreast(md, ix, rl, H, g)
  BY <1>2, Zenon DEF Abreast
<1>3. ASSUME NEW g, Shown(md, ix, rl, G, g, ts) PROVE Shown(md, ix, rl, H, g, ts)
  BY <1>1, <1>3, Zenon DEF Shown, Complete, Underway
<1> QED
  BY <1>1, <1>2, <1>3, Zenon DEF Caught

\* Right after a disturbance nothing is owed.
LEMMA NothingOwed ==
    ASSUME Sourced', calm' = 0
    PROVE  Converging'
<1>1. ASSUME NEW a \in Aggregators PROVE calm' <= Worst(agg'[a])
  <2>1. Gathering(agg'[a])
    BY Zenon DEF Sourced, Gatherings
  <2>2. Worst(agg'[a]) \in Nat
    BY <2>1, WorstIsBounded, Zenon
  <2> QED
    BY <2>2
<1>2. ASSUME NEW e \in cache' PROVE calm' <= e.age + Longest
  <2> DEFINE y == e.age
  <2>1. y \in 0..TTL
    BY Zenon DEF Sourced, Definition
  <2> HIDE DEF y
  <2>2. 0 <= y + Longest
    BY <2>1, Spans
  <2> QED
    BY <2>2, Zenon DEF y
<1>3. ~Late(debounce', calm')
  <2> DEFINE d == debounce'
  <2>1. d \in 0..TTL
    BY Zenon DEF Sourced
  <2> HIDE DEF d
  <2>2. ~(0 + d > Longest + 2 * TTL)
    BY <2>1, Spans
  <2> QED
    BY <2>2, Zenon DEF d, Late
<1> QED
  BY <1>1, <1>2, <1>3, Zenon DEF Converging, Caught

\* Clients that exist are never replaced, so a server is not answered for
\* again once its client is bound to a former address.
LEMMA GoodShrinks ==
    ASSUME Conns, [PNext]_pvars, UNCHANGED real
    PROVE  Good(real, clients') \subseteq Good(real, clients)
<1>1. ASSUME NEW s \in Servers PROVE clients'[s] = clients[s] \/ clients[s] = NoAddr
  <2>1. CASE UNCHANGED clients
    BY <2>1, Zenon
  <2>2. ASSUME NEW r, getOrCreateClient(r) PROVE clients'[s] = clients[s] \/ clients[s] = NoAddr
    BY <2>2, Zenon DEF getOrCreateClient, Conns
  <2>3. CASE handleListResources
    <3> DEFINE Made(q) == {r.addr : r \in {x \in {p \in Range(index) : Resources(p) # {}} : x.id = q}}
    <3>1. clients' = [q \in Servers |-> IF clients[q] = NoAddr /\ Made(q) # {}
                                        THEN CHOOSE x \in Made(q) : TRUE ELSE clients[q]]
      BY <2>3, Zenon DEF handleListResources
    <3> HIDE DEF Made
    <3> QED
      BY <3>1, Zenon
  <2>4. UNCHANGED conns => UNCHANGED clients
    BY Zenon DEF conns
  <2> QED
    BY <2>1, <2>2, <2>3, <2>4, ConnSteps, Zenon
<1> QED
  BY <1>1, Zenon DEF Good

-----------------------------------------------------------------------------
(* What the steps of an aggregation keep.                                  *)

LEMMA IdleIsAbreast ==
    ASSUME NEW md, NEW ix, NEW rl, NEW G
    PROVE  Abreast(md, ix, rl, G, Idle)
<1>1. Idle.pc = "idle" /\ Idle.defs = {}
  BY IdleGathers, Zenon
<1>2. Idle.pc # "set" /\ Idle.pc \notin {"pick", "set"}
  BY <1>1
<1> QED
  BY <1>1, <1>2, Zenon DEF Abreast

\* A walk that begins has everything before it.
LEMMA BegunIsUnderway ==
    ASSUME Records(index), NEW md, NEW rl, NEW G, NEW h, Begun(h)
    PROVE  Abreast(md, index, rl, G, h) /\ Underway(md, index, rl, G, h) /\ h.pc # "idle" /\ h.pc # "set"
<1> DEFINE f == FromTool(ToolOrder)
<1>1. h.defs = {} /\ h.result = {} /\ h.pc = f.pc /\ h.todo = f.todo /\ h.rest = f.rest
  BY Zenon DEF Begun
<1>2. ToolOrder \in Seq(Range(ToolOrder)) /\ \A s \in Servers : Profile[s].tools \subseteq Range(ToolOrder)
  BY BoundsAssumption, Zenon
<1>3. /\ f.pc \in {"pick", "done"}
      /\ f.pc = "pick" => \A r \in Range(f.rest) : r \in Range(index) /\ Head(f.todo) \in Tools(r)
      /\ \A r \in Range(index) : \A t \in Tools(r) \cap Range(ToolOrder) : Ahead(f, r, t)
  BY <1>2, FromToolFacts, Zenon
<1> HIDE DEF f
<1>4. h.pc # "idle" /\ h.pc # "set" /\ (h.pc \in {"pick", "set"} => f.pc = "pick")
  BY <1>1, <1>3
<1>5. Abreast(md, index, rl, G, h)
  BY <1>1, <1>3, <1>4, Zenon DEF Abreast
<1>6. ASSUME NEW r \in Range(index), NEW t \in Tools(r) PROVE Ahead(h, r, t)
  <2>1. t \in Range(ToolOrder)
    BY <1>2, Zenon DEF Tools, Records
  <2>2. Ahead(f, r, t)
    BY <1>3, <2>1, Zenon
  <2> QED
    BY <1>1, <2>2, Zenon DEF Ahead
<1> QED
  BY <1>1, <1>4, <1>5, <1>6, Zenon DEF Underway

\* The candidate that is done with is the only one left behind.
LEMMA MovedAhead ==
    ASSUME Records(index), NEW g, Gathering(g), g.pc \in {"pick", "set"}, NEW found, NEW h, Moved(g, h, found),
           NEW r \in Range(index), NEW t \in Tools(r), Ahead(g, r, t)
    PROVE  Ahead(h, r, t) \/ (r = Head(g.rest) /\ t = Head(g.todo))
<1>1. /\ g.rest # <<>> /\ g.todo # <<>> /\ g.rest \in Seq(Range(g.rest)) /\ g.todo \in Seq(Range(g.todo))
  BY Zenon DEF Gathering, Records
<1>2. Tail(g.todo) \in Seq(Range(Tail(g.todo))) /\ Range(g.rest) = {Head(g.rest)} \cup Range(Tail(g.rest))
  BY <1>1, HeadAndTail, Zenon
<1>3. t \in Range(Tail(g.todo)) \/ (t = Head(g.todo) /\ r \in Range(g.rest))
  BY Zenon DEF Ahead
<1>4. CASE h.pc = "pick" /\ h.todo = g.todo /\ h.rest = Tail(g.rest)
  BY <1>2, <1>3, <1>4, Zenon DEF Ahead
<1> DEFINE f == FromTool(Tail(g.todo))
<1>5. ASSUME ~(Len(g.rest) > 1), h.pc = f.pc, h.todo = f.todo, h.rest = f.rest
      PROVE  Ahead(h, r, t) \/ (r = Head(g.rest) /\ t = Head(g.todo))
  <2>1. CASE t \in Range(Tail(g.todo))
    <3>1. t \in Tools(r) \cap Range(Tail(g.todo))
      BY <2>1, Zenon
    <3>2. Ahead(f, r, t)
      BY <1>2, <3>1, FromToolFacts, Zenon
    <3> HIDE DEF f
    <3> QED
      BY <1>5, <3>2, Zenon DEF Ahead
  <2>2. CASE t = Head(g.todo) /\ r \in Range(g.rest)
    <3>1. Range(Tail(g.rest)) = {}
      <4> DEFINE S == Range(g.rest)
                 q == g.rest
      <4>1. q \in Seq(S) /\ q # <<>> /\ ~(Len(q) > 1)
        BY <1>1, <1>5, Zenon
      <4> HIDE DEF S, q
      <4>2. DOMAIN Tail(q) = {}
        BY <4>1
      <4> QED
        BY <4>2, Zenon DEF Range, q
    <3> QED
      BY <1>2, <2>2, <3>1, Zenon
  <2> QED
    BY <1>3, <2>1, <2>2, Zenon
<1> QED
  BY <1>4, <1>5, Zenon DEF Moved

LEMMA MovedIsAbreast ==
    ASSUME Records(index), NEW md, NEW rl, NEW G, NEW g, Gathering(g), g.pc \in {"pick", "set"},
           NEW found, NEW h, Moved(g, h, found), Abreast(md, index, rl, G, g)
    PROVE  Abreast(md, index, rl, G, h)
<1>1. /\ g.rest # <<>> /\ g.todo # <<>> /\ g.rest \in Seq(Range(g.rest)) /\ g.todo \in Seq(Range(g.todo))
  BY Zenon DEF Gathering, Records
<1>2. Tail(g.todo) \in Seq(Range(Tail(g.todo))) /\ Range(g.rest) = {Head(g.rest)} \cup Range(Tail(g.rest))
  BY <1>1, HeadAndTail, Zenon
<1>3. /\ \A d \in h.defs : d.server \in G => d.edition = rl[d.server].edition
      /\ \A r \in Range(g.rest) : r \in Range(index) /\ Head(g.todo) \in Tools(r)
  BY Zenon DEF Abreast, Moved
<1> DEFINE f == FromTool(Tail(g.todo))
<1>4. /\ f.pc \in {"pick", "done"}
      /\ f.pc = "pick" => \A r \in Range(f.rest) : r \in Range(index) /\ Head(f.todo) \in Tools(r)
  BY <1>2, FromToolFacts, Zenon
<1>5. \/ h.pc = "pick" /\ h.todo = g.todo /\ h.rest = Tail(g.rest)
      \/ h.pc = f.pc /\ h.todo = f.todo /\ h.rest = f.rest
  BY Zenon DEF Moved
<1> HIDE DEF f
<1>6. h.pc # "set" /\ (h.pc \in {"pick", "set"} => h.pc = "pick")
  BY <1>4, <1>5
<1>7. h.pc = "pick" => \A r \in Range(h.rest) : r \in Range(index) /\ Head(h.todo) \in Tools(r)
  BY <1>2, <1>3, <1>4, <1>5, Zenon
<1> QED
  BY <1>3, <1>6, <1>7, Zenon DEF Abreast

LEMMA WaitingIsAbreast ==
    ASSUME NEW md, NEW ix, NEW rl, NEW G, NEW g, g.pc \in {"pick", "set"}, Abreast(md, ix, rl, G, g),
           NEW n, n = FederatedName(md, ix, Head(g.rest), Head(g.todo)), NEW h, Waiting(g, h, n),
           \A d \in h.defs : d \in g.defs \/ (d.server \in G => d.edition = rl[d.server].edition)
    PROVE  Abreast(md, ix, rl, G, h)
  BY Zenon DEF Abreast, Waiting

\* Whether the answer is awaited makes no difference to what is ahead.
LEMMA WaitingIsUnderway ==
    ASSUME NEW md, NEW ix, NEW rl, NEW G, NEW g, g.pc \in {"pick", "set"}, Underway(md, ix, rl, G, g),
           NEW n, NEW h, Waiting(g, h, n)
    PROVE  Underway(md, ix, rl, G, h) /\ h.pc # "idle"
<1>1. h.pc = "set" /\ h.todo = g.todo /\ h.rest = g.rest /\ h.result = g.result
  BY Zenon DEF Waiting
<1>2. h.pc # "idle" /\ h.pc \in {"pick", "set"}
  BY <1>1
<1> QED
  BY <1>1, <1>2, Zenon DEF Underway, Ahead

\* A walk leaves nothing behind unlisted.
LEMMA MovedIsUnderway ==
    ASSUME Records(index), NEW md, NEW rl, NEW G, NEW g, Gathering(g), g.pc \in {"pick", "set"},
           Underway(md, index, rl, G, g), NEW found, NEW h, Moved(g, h, found),
           \A x \in found : Right(md, index, rl, G, x),
           Head(g.rest).id \in G => Entry(md, index, rl, Head(g.rest), Head(g.todo)) \in g.result \cup found
    PROVE  Underway(md, index, rl, G, h)
<1>1. h.result = g.result \cup found
  BY Zenon DEF Moved
<1>2. \A x \in h.result : Right(md, index, rl, G, x)
  BY <1>1, Zenon DEF Underway
<1>3. ASSUME NEW r \in Range(index), NEW t \in Tools(r), r.id \in G
      PROVE  Entry(md, index, rl, r, t) \in h.result \/ Ahead(h, r, t)
  <2>1. Entry(md, index, rl, r, t) \in g.result \/ Ahead(g, r, t)
    BY <1>3, Zenon DEF Underway
  <2>2. Ahead(g, r, t) => Ahead(h, r, t) \/ (r = Head(g.rest) /\ t = Head(g.todo))
    BY MovedAhead, Zenon
  <2> QED
    BY <1>1, <1>3, <2>1, <2>2, Zenon
<1> QED
  BY <1>2, <1>3, Zenon DEF Underway

\* What is listed under the name of a tool is the listing of that tool.
LEMMA RightIsEntry ==
    ASSUME NEW md \in Modes, NEW ix, Records(ix), NEW rl, NEW G,
           NEW r \in Range(ix), NEW t \in Tools(r), r.id \in G,
           NEW x, Listing(x), Right(md, ix, rl, G, x), x.name = FederatedName(md, ix, r, t)
    PROVE  x = Entry(md, ix, rl, r, t)
<1>1. PICK q \in Range(ix) : q.id = x.server /\ \E u \in Tools(q) : x.name = FederatedName(md, ix, q, u)
  BY Zenon DEF Right, Owned
<1>2. PICK u \in Tools(q) : x.name = FederatedName(md, ix, q, u)
  BY <1>1, Zenon
<1>3. FederatedName(md, ix, r, t) = FederatedName(md, ix, q, u)
  BY <1>2, Zenon
<1>4. r.id = q.id
  BY <1>3, NameOwner, Zenon
<1>5. x.server = r.id /\ x.edition = rl[r.id].edition
  BY <1>1, <1>4, Zenon DEF Right
<1>6. x = [f \in {"name", "edition", "server"} |-> x[f]]
  BY Zenon DEF Listing
<1>7. x = Line(x.name, x.edition, x.server)
  BY <1>6 DEF Line
<1> QED
  BY <1>5, <1>7, Zenon DEF Entry

\* Once every refresh has been made, the records of the index are the
\* registry's.
LEMMA IndexIsFresh ==
    ASSUME Sourced, Heard, stale = {}, NEW r \in Range(index)
    PROVE  r.id \in Servers /\ r.addr = real[r.id].addr /\ real[r.id].edition # 0
<1>1. r.id \in Servers
  BY Zenon DEF Sourced, Records
<1>2. r \in Known(r.id)
  BY <1>1, Zenon DEF Heard
<1>3. real[r.id] # None /\ r = Record(r.id, real[r.id])
  BY <1>2, Zenon DEF Known
<1>4. real[r.id].edition # 0
  BY <1>1, <1>3, Zenon DEF Heard
<1>5. Record(r.id, real[r.id]).addr = real[r.id].addr
  BY DEF Record
<1> QED
  BY <1>1, <1>3, <1>4, <1>5, Zenon

\* The record at hand is one of the index, and has the tool.
LEMMA AtHand ==
    ASSUME NEW md, NEW ix, NEW rl, NEW G, NEW g, Gathering(g), g.pc \in {"pick", "set"},
           Abreast(md, ix, rl, G, g)
    PROVE  Head(g.rest) \in Range(ix) /\ Head(g.todo) \in Tools(Head(g.rest))
<1>1. g.rest # <<>> /\ g.rest \in Seq(Range(g.rest))
  BY Zenon DEF Gathering, Records
<1>2. Head(g.rest) \in Range(g.rest)
  BY <1>1, HeadAndTail, Zenon
<1> QED
  BY <1>2, Zenon DEF Abreast

-----------------------------------------------------------------------------
(* The steps.                                                              *)

\* What there is to show after a step that leaves the mode, the index and the
\* registry alone.
Catches(gs, c, ts, d, k) == Caught(mode, index, real, Good(real, clients), gs, c, ts, d, k)
Fit(g, k) == Abreast(mode, index, real, Good(real, clients), g) \/ k <= Worst(g)
Ready(g, ts) == Shown(mode, index, real, Good(real, clients), g, ts)
Sound(x) == Right(mode, index, real, Good(real, clients), x)

Quiet ==
    /\ Sourced /\ Heard /\ Conns /\ stale = {}
    /\ Catches(agg, cache, tools, debounce, calm)

\* A sync that began late finds nothing old.
LEMMA LateIsCurrent ==
    ASSUME Quiet, Late(debounce, calm)
    PROVE  /\ \A a \in Aggregators : Abreast(mode, index, real, Good(real, clients), agg[a])
           /\ \A e \in cache : Sound(e)
           /\ Ready(agg["sync"], tools)
<1>1. /\ \A a \in Aggregators : Fit(agg[a], calm)
      /\ \A e \in cache : Sound(e) \/ calm <= e.age + Longest
      /\ Ready(agg["sync"], tools)
  BY Zenon DEF Quiet, Catches, Caught, Fit, Sound, Ready
<1> DEFINE d == debounce
           k == calm
<1>2. d \in 0..TTL /\ k \in 0..Settled /\ d > 0 /\ k + d > Longest + 2 * TTL
  BY Zenon DEF Quiet, Sourced, Late
<1> HIDE DEF d, k
<1>3. k \in Nat /\ k > Longest + TTL /\ TTL \in Nat /\ Longest \in Nat
  BY <1>2, Spans
<1>4. ASSUME NEW a \in Aggregators PROVE ~(calm <= Worst(agg[a]))
  <2> DEFINE w == Worst(agg[a])
  <2>1. Gathering(agg[a])
    BY Zenon DEF Quiet, Sourced, Gatherings
  <2>2. w \in Nat /\ w <= Longest
    BY <2>1, WorstIsBounded, Zenon
  <2> HIDE DEF w
  <2>3. ~(k <= w)
    BY <1>3, <2>2
  <2> QED
    BY <2>3, Zenon DEF k, w
<1>5. ASSUME NEW e \in cache PROVE ~(calm <= e.age + Longest)
  <2> DEFINE y == e.age
  <2>1. y \in 0..TTL
    BY Zenon DEF Quiet, Sourced, Definition
  <2> HIDE DEF y
  <2>2. ~(k <= y + Longest)
    BY <1>3, <2>1
  <2> QED
    BY <2>2, Zenon DEF k, y
<1> QED
  BY <1>1, <1>4, <1>5, Zenon DEF Fit

\* One aggregation takes a step.
LEMMA OneMoves ==
    ASSUME Quiet, NEW a \in Aggregators, NEW h, agg' = [agg EXCEPT ![a] = h],
           Fit(h, calm), a = "sync" /\ Late(debounce, calm) => Ready(h, tools)
    PROVE  /\ \A b \in Aggregators : Fit(agg'[b], calm)
           /\ Late(debounce, calm) => Ready(agg'["sync"], tools)
<1>1. agg'[a] = h /\ \A b \in Aggregators \ {a} : agg'[b] = agg[b]
  BY WithKeeps, Zenon DEF Quiet, Sourced
<1>2. \A b \in Aggregators : Fit(agg[b], calm)
  BY Zenon DEF Quiet, Catches, Caught, Fit
<1>3. "sync" \in Aggregators
  BY Zenon DEF Aggregators
<1> QED
  BY <1>1, <1>2, <1>3, LateIsCurrent, Zenon

\* An aggregation that is not idle has shown only part of its listing.
LEMMA ReadyIsUnderway ==
    ASSUME NEW g, g.pc # "idle", NEW ts
    PROVE  Ready(g, ts) <=> Underway(mode, index, real, Good(real, clients), g)
  BY Zenon DEF Ready, Shown

LEMMA FitTrans ==
    ASSUME NEW g, Gathering(g), NEW h, Gathering(h), Worst(g) <= Worst(h), calm \in 0..Settled, calm <= Worst(g)
    PROVE  calm <= Worst(h)
<1> DEFINE v == Worst(g)
           w == Worst(h)
<1>1. v \in Nat /\ w \in Nat /\ v <= w
  BY WorstIsBounded, Zenon
<1> HIDE DEF v, w
<1>2. calm \in 0..Settled /\ Settled \in Nat /\ calm <= v
  BY Spans, Zenon DEF v
<1>3. calm <= w
  BY <1>1, <1>2
<1> QED
  BY <1>3, Zenon DEF w

\* A candidate is done with.
LEMMA DoneIsCaught ==
    ASSUME Quiet, NEW a \in Aggregators, agg[a].pc \in {"pick", "set"},
           NEW found, \A x \in found : Listing(x), Done(a, found),
           a = "sync" /\ Late(debounce, calm) =>
              /\ \A x \in found : Sound(x)
              /\ Backend(a).id \in Good(real, clients)
                    => Entry(mode, index, real, Backend(a), Tool(a)) \in agg[a].result \cup found
    PROVE  /\ \A b \in Aggregators : Fit(agg'[b], calm)
           /\ Late(debounce, calm) => Ready(agg'["sync"], tools)
<1> DEFINE G == Good(real, clients)
<1>1. Records(index) /\ Gathering(agg[a]) /\ calm \in 0..Settled /\ Fit(agg[a], calm)
  BY Zenon DEF Quiet, Sourced, Gatherings, Catches, Caught, Fit
<1>2. CASE a = "catalog" /\ agg' = [agg EXCEPT ![a] = Idle]
  <2>1. Fit(Idle, calm)
    BY IdleIsAbreast, Zenon DEF Fit
  <2>2. a # "sync"
    BY <1>2
  <2> QED
    BY <1>2, <2>1, <2>2, OneMoves, Zenon
<1>3. ASSUME NEW h, Moved(agg[a], h, found), agg' = [agg EXCEPT ![a] = h]
      PROVE  /\ \A b \in Aggregators : Fit(agg'[b], calm)
             /\ Late(debounce, calm) => Ready(agg'["sync"], tools)
  <2>1. Gathering(h) /\ h.pc \in {"pick", "done"} /\ Asked(h) = Asked(agg[a])
    BY <1>1, <1>3, MovedGathers, Zenon
  <2>2. h.pc # "idle" /\ h.pc # "set" /\ agg[a].pc # "idle"
    BY <2>1
  <2>3. Worst(agg[a]) <= Worst(h)
    BY <1>1, <2>1, <2>2, WorstGrows, Zenon
  <2>4. Fit(h, calm)
    <3>1. CASE Abreast(mode, index, real, G, agg[a])
      BY <1>1, <1>3, <3>1, MovedIsAbreast, Zenon DEF Fit
    <3>2. CASE calm <= Worst(agg[a])
      BY <1>1, <2>1, <2>3, <3>2, FitTrans, Zenon DEF Fit
    <3> QED
      BY <1>1, <3>1, <3>2, Zenon DEF Fit
  <2>5. ASSUME a = "sync", Late(debounce, calm) PROVE Ready(h, tools)
    <3>1. Underway(mode, index, real, G, agg[a])
      BY <2>2, <2>5, LateIsCurrent, ReadyIsUnderway, Zenon
    <3>2. /\ \A x \in found : Right(mode, index, real, G, x)
          /\ Head(agg[a].rest).id \in G
                => Entry(mode, index, real, Head(agg[a].rest), Head(agg[a].todo)) \in agg[a].result \cup found
      BY <2>5, Zenon DEF Sound, Backend, Tool
    <3> HIDE DEF G
    <3>3. Underway(mode, index, real, G, h)
      BY <1>1, <1>3, <3>1, <3>2, MovedIsUnderway, Zenon
    <3> QED
      BY <2>2, <3>3, ReadyIsUnderway, Zenon DEF G
  <2> QED
    BY <1>3, <2>4, <2>5, OneMoves, Zenon
<1> QED
  BY <1>2, <1>3, Zenon DEF Done

\* A candidate that is listed already, or cached.
LEMMA SeenIsCaught ==
    ASSUME Quiet, NEW a \in Aggregators, agg[a].pc = "pick", PickSeen(a)
    PROVE  /\ \A b \in Aggregators : Fit(agg'[b], calm)
           /\ Late(debounce, calm) => Ready(agg'["sync"], tools)
<1> DEFINE G == Good(real, clients)
           r == Backend(a)
           t == Tool(a)
<1>1. Gathering(agg[a]) /\ agg[a].pc \in {"pick", "set"} /\ agg[a].pc # "idle"
      /\ Records(index) /\ mode \in Modes
  BY Zenon DEF Quiet, Sourced, Gatherings, Heard
<1>2. PICK x \in agg[a].result : x.name = NameAt(a)
  BY Zenon DEF PickSeen
<1>3. ASSUME a = "sync", Late(debounce, calm), r.id \in G
      PROVE  Entry(mode, index, real, r, t) \in agg[a].result
  <2>1. Abreast(mode, index, real, G, agg[a]) /\ Underway(mode, index, real, G, agg[a])
    BY <1>1, <1>3, LateIsCurrent, ReadyIsUnderway, Zenon
  <2>2. r \in Range(index) /\ t \in Tools(r)
    BY <1>1, <2>1, AtHand, Zenon DEF Backend, Tool
  <2>3. Listing(x) /\ Right(mode, index, real, G, x) /\ x.name = FederatedName(mode, index, r, t)
    BY <1>1, <1>2, <2>1, Zenon DEF Gathering, Underway, NameAt
  <2> HIDE DEF G, r, t
  <2>4. x = Entry(mode, index, real, r, t)
    BY <1>1, <1>3, <2>2, <2>3, RightIsEntry, Zenon
  <2> QED
    BY <2>4, Zenon
<1>4. Done(a, {})
  BY Zenon DEF PickSeen
<1> QED
  BY <1>1, <1>3, <1>4, DoneIsCaught, Zenon

LEMMA CachedIsCaught ==
    ASSUME Quiet, NEW a \in Aggregators, agg[a].pc = "pick", PickCached(a)
    PROVE  /\ \A b \in Aggregators : Fit(agg'[b], calm)
           /\ Late(debounce, calm) => Ready(agg'["sync"], tools)
<1> DEFINE G == Good(real, clients)
           r == Backend(a)
           t == Tool(a)
<1>1. Gathering(agg[a]) /\ agg[a].pc \in {"pick", "set"} /\ Records(index) /\ mode \in Modes
  BY Zenon DEF Quiet, Sourced, Gatherings, Heard
<1>2. PICK e \in cache : e.name = NameAt(a) /\ Done(a, {Line(e.name, e.edition, e.server)})
  BY Zenon DEF PickCached
<1> DEFINE x == Line(e.name, e.edition, e.server)
<1>3. e.server \in Servers
  BY Zenon DEF Quiet, Sourced, Definition
<1>4. Listing(x) /\ x.name = e.name /\ x.edition = e.edition /\ x.server = e.server
  BY <1>3, LineListing
<1>5. Done(a, {x})
  BY <1>2, Zenon
<1> HIDE DEF x
<1>6. ASSUME Late(debounce, calm)
      PROVE  Sound(x) /\ (r.id \in G => Entry(mode, index, real, r, t) \in agg[a].result \cup {x})
  <2>1. Abreast(mode, index, real, G, agg[a]) /\ Right(mode, index, real, G, e)
    BY <1>6, LateIsCurrent, Zenon DEF Sound
  <2>2. r \in Range(index) /\ t \in Tools(r)
    BY <1>1, <2>1, AtHand, Zenon DEF Backend, Tool
  <2>3. Right(mode, index, real, G, x)
    BY <1>4, <2>1, Zenon DEF Right
  <2>4. x.name = FederatedName(mode, index, r, t)
    BY <1>2, <1>4, Zenon DEF NameAt
  <2>5. Sound(x)
    BY <2>3, Zenon DEF Sound
  <2> HIDE DEF G, r, t
  <2>6. r.id \in G => x = Entry(mode, index, real, r, t)
    BY <1>1, <1>4, <2>2, <2>3, <2>4, RightIsEntry, Zenon
  <2> QED
    BY <2>5, <2>6, Zenon
<1>7. \A y \in {x} : Listing(y)
  BY <1>4, Zenon
<1>8. a = "sync" /\ Late(debounce, calm) =>
         /\ \A y \in {x} : Sound(y)
         /\ Backend(a).id \in Good(real, clients)
               => Entry(mode, index, real, Backend(a), Tool(a)) \in agg[a].result \cup {x}
  BY <1>6, Zenon
<1> DEFINE found == {x}
<1>9. Done(a, found) /\ \A y \in found : Listing(y)
  BY <1>5, <1>7, Zenon
<1>10. a = "sync" /\ Late(debounce, calm) =>
         /\ \A y \in found : Sound(y)
         /\ Backend(a).id \in Good(real, clients)
               => Entry(mode, index, real, Backend(a), Tool(a)) \in agg[a].result \cup found
  BY <1>8, Zenon
<1> HIDE DEF found, r, t, G
<1> QED
  BY <1>1, <1>9, <1>10, DoneIsCaught, Zenon

\* The answer of a backend is awaited, or known.
LEMMA WaitingIsCaught ==
    ASSUME Quiet, NEW a \in Aggregators, agg[a].pc = "pick",
           NEW h, Waiting(agg[a], h, NameAt(a)), agg' = [agg EXCEPT ![a] = h],
           Gathering(h), Worst(agg[a]) <= Worst(h),
           \A d \in h.defs : d \in agg[a].defs
              \/ (Abreast(mode, index, real, Good(real, clients), agg[a])
                    => (d.server \in Good(real, clients) => d.edition = real[d.server].edition))
    PROVE  /\ \A b \in Aggregators : Fit(agg'[b], calm)
           /\ Late(debounce, calm) => Ready(agg'["sync"], tools)
<1> DEFINE G == Good(real, clients)
<1>1. Gathering(agg[a]) /\ agg[a].pc \in {"pick", "set"} /\ calm \in 0..Settled /\ Fit(agg[a], calm)
      /\ agg[a].pc # "idle"
  BY Zenon DEF Quiet, Sourced, Gatherings, Catches, Caught, Fit
<1>2. NameAt(a) = FederatedName(mode, index, Head(agg[a].rest), Head(agg[a].todo))
  BY Zenon DEF NameAt, Backend, Tool
<1>3. Fit(h, calm)
  <2>1. CASE Abreast(mode, index, real, G, agg[a])
    <3> DEFINE g == agg[a]
               n == NameAt(a)
    <3>1. \A d \in h.defs : d \in g.defs \/ (d.server \in G => d.edition = real[d.server].edition)
      BY <2>1, Zenon
    <3>2. /\ g.pc \in {"pick", "set"} /\ Abreast(mode, index, real, G, g) /\ Waiting(g, h, n)
          /\ n = FederatedName(mode, index, Head(g.rest), Head(g.todo))
      BY <1>1, <1>2, <2>1, Zenon
    <3> HIDE DEF G, g, n
    <3>3. Abreast(mode, index, real, G, h)
      BY <3>1, <3>2, WaitingIsAbreast
    <3> QED
      BY <3>3, Zenon DEF Fit, G
  <2>2. CASE calm <= Worst(agg[a])
    BY <1>1, <2>2, FitTrans, Zenon DEF Fit
  <2> QED
    BY <1>1, <2>1, <2>2, Zenon DEF Fit
<1>4. ASSUME a = "sync", Late(debounce, calm) PROVE Ready(h, tools)
  <2>1. Underway(mode, index, real, G, agg[a])
    BY <1>1, <1>4, LateIsCurrent, ReadyIsUnderway, Zenon
  <2> DEFINE g == agg[a]
             n == NameAt(a)
  <2>2. g.pc \in {"pick", "set"} /\ Underway(mode, index, real, G, g) /\ Waiting(g, h, n)
    BY <1>1, <2>1, Zenon
  <2> HIDE DEF G, g, n
  <2>3. Underway(mode, index, real, G, h) /\ h.pc # "idle"
    BY <2>2, WaitingIsUnderway
  <2> QED
    BY <2>3, ReadyIsUnderway, Zenon DEF G
<1> QED
  BY <1>3, <1>4, OneMoves, Zenon

\* The answer of a client that is not bound to a former address is the
\* current one.
LEMMA FreshAnswer ==
    ASSUME Quiet, NEW r \in Range(index), getOrCreateClient(r), r.id \in Good(real, clients),
           NEW e \in Answers(r.id, clients'[r.id])
    PROVE  e = real[r.id].edition
<1>1. r.id \in Servers /\ r.addr = real[r.id].addr
  BY IndexIsFresh, Zenon DEF Quiet
<1>2. clients'[r.id] = IF clients[r.id] = NoAddr THEN r.addr ELSE clients[r.id]
  BY <1>1, Zenon DEF getOrCreateClient, Quiet, Conns
<1>3. clients'[r.id] = real[r.id].addr
  BY <1>1, <1>2, Zenon DEF Good
<1> QED
  BY <1>3, Zenon DEF Answers

LEMMA PickIsCaught ==
    ASSUME Quiet, NEW a \in Aggregators, Pick(a)
    PROVE  calm' = 0 \/ Catches(agg', cache', tools', debounce', calm')
<1> DEFINE g == agg[a]
           r == Backend(a)
<1>1. /\ Records(index) /\ Gatherings /\ Gathering(g) /\ Sourced
      /\ \A e \in cache : Sound(e) \/ calm <= e.age + Longest
  BY Zenon DEF Quiet, Sourced, Gatherings, Catches, Caught, Sound
<1>2. /\ UNCHANGED <<cache, tools, debounce>> /\ g.pc = "pick"
      /\ PickSeen(a) \/ PickCached(a) \/ PickKnown(a) \/ PickAsks(a)
  BY <1>1, PickShape, Zenon
<1>3. g.pc \in {"pick", "set"} /\ g.spent = 0 /\ r.id \in Servers /\ Asked(g) \subseteq Servers
      /\ r = Head(g.rest)
  BY <1>1, <1>2, BackendIsServer, Zenon DEF Gathering, Backend
<1>4. 0 \in 0..MaxFetch /\ MaxFetch \in 0..MaxFetch
  BY Spans
<1>5. \/ calm' = 0
      \/ /\ calm' = calm
         /\ \A b \in Aggregators : Fit(agg'[b], calm)
         /\ Late(debounce, calm) => Ready(agg'["sync"], tools)
  <2>1. CASE PickSeen(a)
    BY <1>2, <2>1, SeenIsCaught, Zenon DEF PickSeen
  <2>2. CASE PickCached(a)
    BY <1>2, <2>2, CachedIsCaught, Zenon DEF PickCached
  <2>3. CASE PickKnown(a)
    <3>1. PICK h : /\ Waiting(g, h, NameAt(a)) /\ h.defs = g.defs /\ h.spent = MaxFetch
                   /\ agg' = [agg EXCEPT ![a] = h]
      BY <2>3, Zenon DEF PickKnown
    <3>2. r.id \in Asked(g) /\ calm' = calm
      BY <2>3, Zenon DEF PickKnown
    <3>3. Asked(h) = Asked(g) /\ h.pc = "set"
      BY <3>1, Zenon DEF Asked, Waiting
    <3> DEFINE n == NameAt(a)
    <3>4. Waiting(g, h, n) /\ h.spent \in 0..MaxFetch /\ Asked(h) \subseteq Servers /\ Head(g.rest).id \in Asked(h)
      BY <1>3, <1>4, <3>1, <3>2, <3>3, Zenon
    <3> HIDE DEF n, g, r
    <3>5. Gathering(h)
      BY <1>1, <1>3, <3>4, WaitingGathers
    <3>6. Worst(g) <= Worst(h)
      BY <1>1, <1>2, <3>1, <3>3, <3>5, WorstGrows, Zenon
    <3> QED
      BY <1>2, <3>1, <3>2, <3>5, <3>6, WaitingIsCaught, Zenon DEF g
  <2>4. CASE PickAsks(a) /\ calm' # 0
    <3>1. r.id \notin Asked(g) /\ getOrCreateClient(r)
      BY <2>4, Zenon DEF PickAsks
    <3>2. PICK e, h : /\ Waiting(g, h, NameAt(a)) /\ h.spent = g.spent
                      /\ h.defs = g.defs \cup {[server |-> r.id, edition |-> e]}
                      /\ agg' = [agg EXCEPT ![a] = h]
                      /\ e \in Answers(r.id, clients'[r.id]) /\ calm' = calm
      BY <2>4, Zenon DEF PickAsks
    <3> DEFINE n == NameAt(a)
               d0 == [server |-> r.id, edition |-> e]
    <3>3. d0.server = r.id /\ d0.edition = e
      OBVIOUS
    <3>4. Waiting(g, h, n) /\ h.spent = 0 /\ h.defs = g.defs \cup {d0} /\ h.pc = "set"
      BY <1>3, <3>2, Zenon DEF Waiting
    <3> HIDE DEF n, d0
    <3>5. Asked(h) = Asked(g) \cup {r.id}
      BY <3>3, <3>4, Zenon DEF Asked
    <3>6. h.spent \in 0..MaxFetch /\ Asked(h) \subseteq Servers /\ Head(g.rest).id \in Asked(h)
      BY <1>3, <1>4, <3>4, <3>5, Zenon
    <3>7. Gathering(h)
      <4> HIDE DEF g, r
      <4> QED
        BY <1>1, <1>3, <3>4, <3>6, WaitingGathers
    <3>8. Worst(g) <= Worst(h)
      BY <1>1, <1>2, <3>1, <3>4, <3>5, <3>7, WorstGrows, Zenon
    <3>9. ASSUME NEW d \in h.defs, Abreast(mode, index, real, Good(real, clients), g),
                 d.server \in Good(real, clients)
          PROVE  d \in g.defs \/ d.edition = real[d.server].edition
      <4>1. CASE d \in g.defs
        BY <4>1, Zenon
      <4>2. CASE d = d0
        <5>1. r \in Range(index)
          BY <1>1, <1>3, <3>9, AtHand, Zenon
        <5>2. r.id \in Good(real, clients)
          BY <3>3, <3>9, <4>2, Zenon
        <5>3. e = real[r.id].edition
          BY <3>1, <3>2, <5>1, <5>2, FreshAnswer, Zenon
        <5> QED
          BY <3>3, <4>2, <5>3, Zenon
      <4> QED
        BY <3>4, <4>1, <4>2, Zenon
    <3> HIDE DEF r
    <3>10. \A d \in h.defs : d \in agg[a].defs
              \/ (Abreast(mode, index, real, Good(real, clients), agg[a])
                    => (d.server \in Good(real, clients) => d.edition = real[d.server].edition))
      BY <3>9, Zenon
    <3> QED
      BY <1>2, <3>2, <3>7, <3>8, <3>10, WaitingIsCaught, Zenon
  <2> QED
    BY <1>2, <2>1, <2>2, <2>3, <2>4, Zenon
<1> QED
  BY <1>1, <1>2, <1>5, Zenon DEF Catches, Caught, Fit, Ready, Sound

\* A definition is listed, and cached, as current as the aggregation is.
LEMMA SetIsCaught ==
    ASSUME Quiet, NEW a \in Aggregators, SetTool(a)
    PROVE  Catches(agg', cache', tools', debounce', calm')
<1> DEFINE G == Good(real, clients)
           g == agg[a]
           r == Backend(a)
           t == Tool(a)
<1>1. /\ Records(index) /\ Gatherings /\ Gathering(g) /\ Fit(g, calm) /\ calm \in 0..Settled
      /\ \A e \in cache : Sound(e) \/ calm <= e.age + Longest
  BY Zenon DEF Quiet, Sourced, Gatherings, Catches, Caught, Sound, Fit
<1>2. UNCHANGED <<tools, debounce, calm>> /\ g.pc = "set" /\ SetDone(a)
  BY <1>1, SetShape, Zenon
<1>3. g.pc \in {"pick", "set"} /\ r.id \in Servers /\ r = Head(g.rest) /\ t = Head(g.todo)
  BY <1>1, <1>2, BackendIsServer, Zenon DEF Backend, Tool
<1>4. PICK d \in g.defs : /\ d.server = r.id
                          /\ \/ d.edition = 0 /\ Done(a, {}) /\ UNCHANGED cache
                             \/ /\ cache' = Set(g.name, d.edition, r.id)
                                /\ Done(a, {Line(g.name, d.edition, r.id)})
  BY <1>2, Zenon DEF SetDone
<1>5. ASSUME Abreast(mode, index, real, G, g)
      PROVE  /\ r \in Range(index) /\ t \in Tools(r) /\ g.name = FederatedName(mode, index, r, t)
             /\ r.id \in G => d.edition = real[r.id].edition /\ d.edition # 0
  <2>1. r \in Range(index) /\ t \in Tools(r)
    BY <1>1, <1>3, <1>5, AtHand, Zenon
  <2>2. g.name = FederatedName(mode, index, r, t) /\ (r.id \in G => d.edition = real[r.id].edition)
    BY <1>2, <1>3, <1>4, <1>5, Zenon DEF Abreast
  <2>3. real[r.id].edition # 0
    BY <2>1, IndexIsFresh, Zenon DEF Quiet
  <2> QED
    BY <2>1, <2>2, <2>3, Zenon
<1>6. CASE d.edition = 0 /\ Done(a, {}) /\ UNCHANGED cache
  <2>1. ASSUME a = "sync", Late(debounce, calm) PROVE r.id \notin G
    BY <1>5, <1>6, <2>1, LateIsCurrent, Zenon
  <2>2. /\ \A b \in Aggregators : Fit(agg'[b], calm)
        /\ Late(debounce, calm) => Ready(agg'["sync"], tools)
    BY <1>3, <1>6, <2>1, DoneIsCaught, Zenon
  <2> QED
    BY <1>1, <1>2, <1>6, <2>2, Zenon DEF Catches, Caught, Fit, Ready, Sound
<1>7. ASSUME cache' = Set(g.name, d.edition, r.id), Done(a, {Line(g.name, d.edition, r.id)})
      PROVE  Catches(agg', cache', tools', debounce', calm')
  <2> DEFINE x == Line(g.name, d.edition, r.id)
             c0 == [name |-> g.name, edition |-> d.edition, server |-> r.id, age |-> 0]
             found == {x}
  <2>1. Listing(x) /\ x.name = g.name /\ x.edition = d.edition /\ x.server = r.id
    BY <1>3, LineListing
  <2>2. c0.name = g.name /\ c0.edition = d.edition /\ c0.server = r.id /\ c0.age = 0
    OBVIOUS
  <2>3. cache' \subseteq cache \cup {c0} /\ Done(a, found)
    BY <1>7, Zenon DEF Set
  <2> HIDE DEF x, c0
  <2>4. ASSUME Abreast(mode, index, real, G, g)
        PROVE  Sound(x) /\ Sound(c0) /\ (r.id \in G => Entry(mode, index, real, r, t) = x)
    <3>1. Owned(mode, index, g.name, r.id)
      BY <1>5, <2>4, Zenon DEF Owned
    <3>2. Sound(x) /\ Sound(c0)
      BY <1>5, <2>1, <2>2, <2>4, <3>1, Zenon DEF Sound, Right
    <3>3. r.id \in G => Entry(mode, index, real, r, t) = x
      BY <1>5, <2>4, Zenon DEF Entry, x
    <3> QED
      BY <3>2, <3>3, Zenon
  <2>5. Sound(c0) \/ calm <= c0.age + Longest
    <3>1. CASE Abreast(mode, index, real, G, g)
      BY <2>4, <3>1, Zenon
    <3>2. CASE calm <= Worst(g)
      <4> DEFINE w == Worst(g)
      <4>1. w \in Nat /\ w <= Longest /\ calm <= w
        BY <1>1, <3>2, WorstIsBounded, Zenon
      <4> HIDE DEF w
      <4>2. calm <= 0 + Longest
        BY <1>1, <4>1, Spans
      <4> QED
        BY <2>2, <4>2, Zenon
    <3> QED
      BY <1>1, <3>1, <3>2, Zenon DEF Fit
  <2>6. \A y \in found : Listing(y)
    BY <2>1, Zenon
  <2>7. a = "sync" /\ Late(debounce, calm) =>
          /\ \A y \in found : Sound(y)
          /\ Backend(a).id \in Good(real, clients)
               => Entry(mode, index, real, Backend(a), Tool(a)) \in agg[a].result \cup found
    BY <2>4, LateIsCurrent, Zenon
  <2>8. agg[a].pc \in {"pick", "set"}
    BY <1>3, Zenon
  <2> HIDE DEF found, r, t, G, g
  <2>9. /\ \A b \in Aggregators : Fit(agg'[b], calm)
        /\ Late(debounce, calm) => Ready(agg'["sync"], tools)
    BY <2>3, <2>6, <2>7, <2>8, DoneIsCaught, Zenon
  <2>10. \A e \in cache' : Sound(e) \/ calm <= e.age + Longest
    BY <1>1, <2>3, <2>5, Zenon
  <2> QED
    BY <1>2, <2>9, <2>10, Zenon DEF Catches, Caught, Fit, Ready, Sound
<1> QED
  BY <1>4, <1>6, <1>7, Zenon

\* An aggregation that begins looks at the index as it is, and a sync at all
\* of it.
LEMMA BeginIsCaught ==
    ASSUME Quiet, SyncBegin \/ CatalogBegin
    PROVE  Catches(agg', cache', tools', debounce', calm')
<1> DEFINE G == Good(real, clients)
<1>1. /\ Records(index) /\ Gatherings /\ "sync" \in Aggregators
      /\ \A b \in Aggregators : Fit(agg[b], calm)
      /\ \A e \in cache : Sound(e) \/ calm <= e.age + Longest
  BY Zenon DEF Quiet, Sourced, Catches, Caught, Sound, Fit, Aggregators
<1>2. PICK a \in Aggregators : \E h :
             /\ agg[a] = Idle /\ Begun(h) /\ agg' = [agg EXCEPT ![a] = h]
             /\ UNCHANGED <<cache, tools, calm>>
             /\ \/ a = "sync" /\ debounce' = TTL
                \/ a = "catalog" /\ debounce' = debounce
  BY <1>1, BeginsShape, Zenon
<1>3. PICK h : /\ Begun(h) /\ agg' = [agg EXCEPT ![a] = h]
               /\ UNCHANGED <<cache, tools, calm>>
               /\ \/ a = "sync" /\ debounce' = TTL
                  \/ a = "catalog" /\ debounce' = debounce
  BY <1>2, Zenon
<1>4. /\ Abreast(mode, index, real, G, h) /\ Underway(mode, index, real, G, h) /\ h.pc # "idle"
  BY <1>1, <1>3, BegunIsUnderway, Zenon
<1>5. Fit(h, calm) /\ Ready(h, tools)
  BY <1>4, ReadyIsUnderway, Zenon DEF Fit
<1>6. agg'[a] = h /\ \A b \in Aggregators \ {a} : agg'[b] = agg[b]
  BY <1>1, <1>3, WithKeeps, Zenon
<1>7. \A b \in Aggregators : Fit(agg'[b], calm)
  BY <1>1, <1>5, <1>6, Zenon
<1>8. ASSUME Late(debounce', calm) PROVE Ready(agg'["sync"], tools)
  <2>1. CASE a = "sync"
    BY <1>5, <1>6, <2>1, Zenon
  <2>2. CASE a = "catalog" /\ debounce' = debounce
    <3>1. "sync" # a
      BY <2>2
    <3>2. Ready(agg["sync"], tools)
      BY <1>8, <2>2, LateIsCurrent, Zenon
    <3> QED
      BY <1>1, <1>6, <3>1, <3>2, Zenon
  <2> QED
    BY <1>3, <2>1, <2>2, Zenon
<1> QED
  BY <1>1, <1>3, <1>7, <1>8, Zenon DEF Catches, Caught, Fit, Ready, Sound

\* What a sync ends with is complete: nothing is ahead of it any more.
LEMMA EndIsCaught ==
    ASSUME Quiet, SyncEnd
    PROVE  Catches(agg', cache', tools', debounce', calm')
<1> DEFINE G == Good(real, clients)
           g == agg["sync"]
<1>1. /\ Gatherings /\ "sync" \in Aggregators
      /\ \A b \in Aggregators : Fit(agg[b], calm)
      /\ \A e \in cache : Sound(e) \/ calm <= e.age + Longest
  BY Zenon DEF Quiet, Sourced, Catches, Caught, Sound, Fit, Aggregators
<1>2. /\ g.pc = "done" /\ tools' = g.result /\ agg' = [agg EXCEPT !["sync"] = Idle]
      /\ UNCHANGED <<cache, debounce, calm>>
  BY Zenon DEF SyncEnd
<1>3. agg'["sync"] = Idle /\ \A b \in Aggregators \ {"sync"} : agg'[b] = agg[b]
  BY <1>1, <1>2, WithKeeps, Zenon
<1>4. \A b \in Aggregators : Fit(agg'[b], calm)
  BY <1>1, <1>3, IdleIsAbreast, Zenon DEF Fit
<1>5. g.pc # "idle" /\ g.pc \notin {"pick", "set"}
  BY <1>2
<1>6. ASSUME Late(debounce, calm) PROVE Ready(agg'["sync"], tools')
  <2>1. Underway(mode, index, real, G, g)
    BY <1>5, <1>6, LateIsCurrent, ReadyIsUnderway, Zenon
  <2>2. Complete(mode, index, real, G, g.result)
    BY <1>5, <2>1, Zenon DEF Underway, Complete, Ahead
  <2> QED
    BY <1>2, <1>3, <2>2, IdleGathers, Zenon DEF Ready, Shown
<1> QED
  BY <1>1, <1>2, <1>4, <1>6, Zenon DEF Catches, Caught, Fit, Ready, Sound

\* Time that passes is spent waiting, and everything ages with it.
LEMMA TickIsCaught ==
    ASSUME Quiet, Tick
    PROVE  Catches(agg', cache', tools', debounce', calm')
<1> DEFINE G == Good(real, clients)
           k == calm
           m == calm'
<1>1. /\ Gatherings /\ "sync" \in Aggregators /\ calm \in 0..Settled /\ debounce \in 0..TTL /\ Sourced
      /\ \A b \in Aggregators : Gathering(agg[b]) /\ Fit(agg[b], calm)
      /\ \A e \in cache : Definition(e) /\ (Sound(e) \/ calm <= e.age + Longest)
  BY Zenon DEF Quiet, Sourced, Gatherings, Catches, Caught, Sound, Fit, Aggregators
<1>2. tools' = tools /\ cache' = Aged(cache)
  BY Zenon DEF Tick
<1>3. /\ Gatherings' /\ debounce' \in 0..TTL /\ calm' \in 0..Settled
      /\ (debounce = 0 /\ debounce' = 0) \/ debounce' = debounce - 1
      /\ calm' <= calm + 1
  BY <1>1, TickKeeps, Zenon
<1>4. k \in Nat /\ m \in Nat /\ m <= k + 1 /\ Settled \in Nat /\ TTL \in Nat /\ Longest \in Nat
  BY <1>1, <1>3, Spans
<1> HIDE DEF k, m
<1>5. ASSUME NEW b \in Aggregators PROVE Fit(agg'[b], calm')
  <2>1. CASE agg'[b] = Idle
    BY <2>1, IdleIsAbreast, Zenon DEF Fit
  <2> DEFINE g == agg[b]
             h == agg'[b]
             n == agg[b].name
  <2>2. ASSUME g.pc = "set", Waiting(g, h, n), h.defs = g.defs, h.spent = g.spent + 1
        PROVE  Fit(h, calm')
    <3>1. Gathering(g) /\ Gathering(h) /\ g.pc \in {"pick", "set"} /\ Fit(g, calm)
      BY <1>1, <1>3, <2>2, Zenon DEF Gatherings
    <3>2. h.pc = "set" /\ Asked(h) = Asked(g)
      BY <2>2, Zenon DEF Waiting, Asked
    <3> HIDE DEF g, h
    <3>3. Worst(h) = Worst(g) + 1 /\ Worst(g) \in Nat
      BY <2>2, <3>1, <3>2, WorstGrows, WorstIsBounded, Zenon
    <3>4. CASE Abreast(mode, index, real, G, g)
      <4>1. n = FederatedName(mode, index, Head(g.rest), Head(g.todo))
        BY <2>2, <3>4, Zenon DEF Abreast, g
      <4>2. \A d \in h.defs : d \in g.defs
        BY <2>2, Zenon
      <4> HIDE DEF n, G
      <4>3. Abreast(mode, index, real, G, h)
        BY <2>2, <3>1, <3>4, <4>1, <4>2, WaitingIsAbreast
      <4> QED
        BY <4>3, Zenon DEF Fit, G
    <3>5. CASE calm <= Worst(g)
      <4> DEFINE v == Worst(g)
      <4>1. k <= v /\ v \in Nat
        BY <3>3, <3>5, Zenon DEF k
      <4> HIDE DEF v
      <4>2. m <= v + 1
        BY <1>4, <4>1
      <4> QED
        BY <3>3, <4>2, Zenon DEF Fit, m, v
    <3> QED
      BY <3>1, <3>4, <3>5, Zenon DEF Fit
  <2> QED
    BY <1>1, <2>1, <2>2, TickShape, Zenon
<1>6. ASSUME NEW x \in cache' PROVE Sound(x) \/ calm' <= x.age + Longest
  <2>1. PICK e \in cache : x = [e EXCEPT !.age = @ + 1]
    BY <1>2, Zenon DEF Aged
  <2>2. e = [f \in {"name", "edition", "server", "age"} |-> e[f]] /\ e.age \in 0..TTL
    BY <1>1, Zenon DEF Definition
  <2>3. x.name = e.name /\ x.edition = e.edition /\ x.server = e.server /\ x.age = e.age + 1
    BY <2>1, <2>2
  <2>4. CASE Sound(e)
    BY <2>3, <2>4, Zenon DEF Sound, Right
  <2>5. CASE calm <= e.age + Longest
    <3> DEFINE y == e.age
    <3>1. y \in 0..TTL /\ k <= y + Longest
      BY <2>2, <2>5, Zenon DEF k
    <3> HIDE DEF y
    <3>2. m <= (y + 1) + Longest
      BY <1>4, <3>1
    <3> QED
      BY <2>3, <3>2, Zenon DEF m, y
  <2> QED
    BY <1>1, <2>4, <2>5, Zenon
<1>7. ASSUME Late(debounce', calm') PROVE Ready(agg'["sync"], tools)
  <2>1. Late(debounce, calm)
    <3> DEFINE d == debounce
               c == debounce'
    <3>1. d \in 0..TTL /\ c \in 0..TTL /\ ((d = 0 /\ c = 0) \/ c = d - 1) /\ c > 0 /\ m + c > Longest + 2 * TTL
      BY <1>1, <1>3, <1>7, Zenon DEF Late, m
    <3> HIDE DEF d, c
    <3>2. d > 0 /\ k + d > Longest + 2 * TTL
      BY <1>4, <3>1
    <3> QED
      BY <3>2, Zenon DEF Late, d, k
  <2> DEFINE g == agg["sync"]
             h == agg'["sync"]
             n == agg["sync"].name
  <2>2. Ready(g, tools)
    BY <2>1, LateIsCurrent, Zenon
  <2>3. \/ g = Idle /\ h = Idle
        \/ g.pc = "set" /\ Waiting(g, h, n)
    BY <1>1, TickShape, Zenon
  <2> HIDE DEF g, h, n
  <2>4. CASE g.pc = "set" /\ Waiting(g, h, n)
    <3>1. g.pc # "idle" /\ g.pc \in {"pick", "set"}
      BY <2>4
    <3>2. Underway(mode, index, real, G, g)
      BY <2>2, <3>1, ReadyIsUnderway, Zenon
    <3> HIDE DEF G
    <3>3. Underway(mode, index, real, G, h) /\ h.pc # "idle"
      BY <2>4, <3>1, <3>2, WaitingIsUnderway
    <3> QED
      BY <3>3, ReadyIsUnderway, Zenon DEF h, G
  <2> QED
    BY <2>2, <2>3, <2>4, Zenon DEF h
<1> QED
  BY <1>2, <1>5, <1>6, <1>7, Zenon DEF Catches, Caught, Fit, Ready, Sound

\* A step that leaves the aggregations alone.
LEMMA OtherIsCaught ==
    ASSUME Quiet, [PNext]_pvars,
           \/ \E e \in events : Invalidate(e)
           \/ resetSyncDebounce
           \/ \E n : Route(n)
           \/ \E uri : ReadResource(uri)
           \/ UNCHANGED pvars
    PROVE  Catches(agg', cache', tools', debounce', calm')
<1>1. /\ \A b \in Aggregators : Fit(agg[b], calm)
      /\ \A e \in cache : Sound(e) \/ calm <= e.age + Longest
      /\ Late(debounce, calm) => Ready(agg["sync"], tools)
  BY Zenon DEF Quiet, Catches, Caught, Sound, Fit, Ready
<1>2. CASE \E e \in events : Invalidate(e)
  <2>1. cache' \subseteq cache /\ UNCHANGED <<tools, debounce, agg, calm>>
    BY <1>2, Zenon DEF Invalidate, InvalidateServer
  <2> QED
    BY <1>1, <2>1, Zenon DEF Catches, Caught, Fit, Ready, Sound
<1>3. CASE resetSyncDebounce
  <2>1. debounce' = 0 /\ UNCHANGED <<cache, tools, agg, calm>>
    BY <1>3, Zenon DEF resetSyncDebounce
  <2>2. ~(debounce' > 0)
    BY <2>1
  <2> QED
    BY <1>1, <2>1, <2>2, Zenon DEF Catches, Caught, Fit, Ready, Sound, Late
<1>4. CASE (\E n : Route(n)) \/ (\E uri : ReadResource(uri)) \/ UNCHANGED pvars
  <2>1. UNCHANGED <<cache, tools, debounce, agg, calm>>
    BY <1>4, Zenon DEF Route, ReadResource, pvars, listing
  <2> QED
    BY <2>1, Zenon DEF Quiet, Catches
<1> QED
  BY <1>2, <1>3, <1>4, Zenon

\* Convergence is inductive beside the index, the clients and the ranges.
LEMMA ConvergingInductive ==
    /\ PInit => Converging
    /\ Sourced /\ Heard /\ Conns /\ Converging /\ [PNext]_pvars /\ Sourced' => Converging'
<1>1. ASSUME PInit PROVE Converging
  <2>1. debounce = 0 /\ cache = {} /\ \A a \in Aggregators : agg[a] = Idle
    BY <1>1, Zenon DEF PInit
  <2>2. ~(debounce > 0)
    BY <2>1
  <2> QED
    BY <2>1, <2>2, IdleIsAbreast, Zenon DEF Converging, Caught, Late
<1>2. ASSUME Sourced, Heard, Conns, Converging, [PNext]_pvars, Sourced', calm' # 0, stale' = {}
      PROVE  Converging'
  <2>1. CASE \/ \E s \in fleet : Deregister(s) \/ RefreshServer(s)
             \/ \E s \in fleet : \E a \in Addrs[s] : Register(s, a)
    BY <1>2, <2>1, Zenon DEF Deregister, RefreshServer, Register, Announce
  <2> DEFINE Rest == \/ \E e \in events : Invalidate(e)
                     \/ resetSyncDebounce
                     \/ \E n : Route(n)
                     \/ \E uri : ReadResource(uri)
                     \/ UNCHANGED pvars
             Steps == \/ SyncBegin \/ CatalogBegin \/ SyncEnd \/ Tick
                      \/ \E a \in Aggregators : Pick(a) \/ SetTool(a)
  <2>2. CASE Rest \/ Steps
    <3>1. UNCHANGED <<mode, index, real, stale>>
      BY <2>2, Zenon DEF Invalidate, resetSyncDebounce, SyncBegin, SyncEnd, CatalogBegin, Tick, Pick, SetTool,
                         Route, ReadResource, Stay, pvars, config, registry, pod
    <3>2. Quiet
      BY <1>2, <3>1, Zenon DEF Quiet, Converging, Catches
    <3>3. Catches(agg', cache', tools', debounce', calm')
      <4>1. CASE Rest
        BY <1>2, <3>2, <4>1, OtherIsCaught, Zenon
      <4>2. CASE Steps
        BY <1>2, <3>2, <4>2, BeginIsCaught, EndIsCaught, TickIsCaught, PickIsCaught, SetIsCaught, Zenon
      <4> QED
        BY <2>2, <4>1, <4>2, Zenon
    <3>4. Good(real, clients') \subseteq Good(real, clients)
      BY <1>2, <3>1, GoodShrinks, Zenon
    <3> DEFINE G == Good(real, clients)
               H == Good(real, clients')
    <3>5. H \subseteq G /\ Caught(mode, index, real, G, agg', cache', tools', debounce', calm')
      BY <3>3, <3>4, Zenon DEF Catches
    <3> HIDE DEF G, H
    <3>6. Caught(mode, index, real, H, agg', cache', tools', debounce', calm')
      BY <3>5, FewerAreCaught, Zenon
    <3>7. Caught(mode', index', real', Good(real', clients'), agg', cache', tools', debounce', calm')
      BY <3>1, <3>6, Zenon DEF H
    <3> QED
      BY <3>7, Zenon DEF Converging
  <2>3. (\E s \in fleet : Deregister(s) \/ RefreshServer(s))
        \/ (\E s \in fleet : \E a \in Addrs[s] : Register(s, a)) \/ Rest \/ Steps
    BY <1>2, Zenon DEF PNext, CallFrom
  <2> QED
    BY <2>1, <2>2, <2>3, Zenon
<1>3. ASSUME Sourced, Heard, Conns, Converging, [PNext]_pvars, Sourced' PROVE Converging'
  BY <1>2, <1>3, NothingOwed, Zenon DEF Converging
<1> QED
  BY <1>1, <1>3, Zenon

\* What is shown late is what is due.
LEMMA LateIsDue ==
    ASSUME Sourced, Converging
    PROVE  ListingConverges
<1> SUFFICES ASSUME calm >= Settled, SyncFree, debounce > 0, stale = {},
                    NEW s \in Servers, clients[s] \in {NoAddr, real[s].addr}
             PROVE  Listed(s) = Due(s)
  BY Zenon DEF ListingConverges
<1> DEFINE G == Good(real, clients)
<1>1. Late(debounce, calm)
  <2>1. debounce \in 0..TTL /\ calm \in 0..Settled
    BY Zenon DEF Sourced
  <2> DEFINE d == debounce
             k == calm
  <2>2. d \in 0..TTL /\ k \in 0..Settled /\ k >= Settled /\ d > 0
    BY <2>1, Zenon
  <2> HIDE DEF d, k
  <2>3. d > 0 /\ k + d > Longest + 2 * TTL
    BY <2>2, Spans
  <2> QED
    BY <2>3, Zenon DEF Late, d, k
<1>2. Complete(mode, index, real, G, tools) /\ s \in G
  BY <1>1, Zenon DEF Converging, Caught, Shown, SyncFree, Good
<1>3. \A r, t : Line(FederatedName(mode, index, r, t), real[s].edition, s)
                  = [name |-> FederatedName(mode, index, r, t), edition |-> real[s].edition, server |-> s]
  BY Zenon DEF Line
<1>4. ASSUME NEW x \in Listed(s) PROVE x \in Due(s)
  <2>1. x \in tools /\ x.server = s /\ Listing(x) /\ Right(mode, index, real, G, x)
    BY <1>2, Zenon DEF Listed, Complete, Sourced
  <2>2. PICK r \in Range(index) : r.id = s /\ \E t \in Tools(r) : x.name = FederatedName(mode, index, r, t)
    BY <2>1, Zenon DEF Right, Owned
  <2>3. PICK t \in Tools(r) : x.name = FederatedName(mode, index, r, t)
    BY <2>2, Zenon
  <2>4. x.edition = real[s].edition
    BY <1>2, <2>1, Zenon DEF Right
  <2>5. x = [f \in {"name", "edition", "server"} |-> x[f]]
    BY <2>1, Zenon DEF Listing
  <2>6. x = Line(x.name, x.edition, x.server)
    BY <2>5 DEF Line
  <2>7. x = [name |-> FederatedName(mode, index, r, t), edition |-> real[s].edition, server |-> s]
    BY <1>3, <2>1, <2>3, <2>4, <2>6, Zenon
  <2>8. r \in {q \in Range(index) : q.id = s} /\ t \in Profile[s].tools
    BY <2>2, Zenon DEF Tools
  <2> QED
    BY <2>7, <2>8 DEF Due
<1>5. ASSUME NEW x \in Due(s) PROVE x \in Listed(s)
  <2>1. PICK r \in {q \in Range(index) : q.id = s}, t \in Profile[s].tools :
            x = [name |-> FederatedName(mode, index, r, t), edition |-> real[s].edition, server |-> s]
    BY DEF Due
  <2>2. r \in Range(index) /\ r.id = s /\ t \in Tools(r)
    BY Zenon DEF Tools
  <2>3. x = Entry(mode, index, real, r, t)
    BY <1>3, <2>1, <2>2, Zenon DEF Entry
  <2>4. x \in tools
    BY <1>2, <2>2, <2>3, Zenon DEF Complete
  <2>5. x.server = s
    BY <2>1
  <2> QED
    BY <2>4, <2>5, Zenon DEF Listed
<1> QED
  BY <1>4, <1>5, Zenon

\* Two lifetimes of a cached definition and the longest aggregation after the
\* last disturbance, a request that passes the sync hook without a sync finds
\* exactly the current definitions of every server whose client is not bound
\* to a former address, whatever invalidations were lost
\* (syncMCPRegistry, aggregateTool, loadBackendDefinitions, resetSyncDebounce).
THEOREM ListingsCatchUp == PSpec => []ListingConverges
<1>1. PInit => Sourced /\ Heard /\ Conns /\ Converging
  BY SourcedInductive, HeardInductive, ConnsInductive, ConvergingInductive, Zenon
<1>2. Sourced /\ Heard /\ Conns /\ Converging /\ [PNext]_pvars => (Sourced /\ Heard /\ Conns /\ Converging)'
  BY SourcedInductive, HeardInductive, ConnsInductive, ConvergingInductive, Zenon
<1>3. Sourced /\ Heard /\ Conns /\ Converging => ListingConverges
  BY LateIsDue, Zenon
<1> QED
  BY <1>1, <1>2, <1>3, PTL DEF PSpec
=============================================================================
