---------------------------- MODULE ToolNames -------------------------------
(***************************************************************************)
(* The names of tools at the unified endpoint and the lookups in the       *)
(* capability index behind them: internal/proxy tools.go, namespace.go,    *)
(* router.go and catalog.go, internal/registration index.go.               *)
(*                                                                         *)
(* A name is the sequence of its parts between dots.  An index is the      *)
(* sequence of its server records in the order in which a lookup returns   *)
(* them (where the order plays no part, a lookup is the set of its         *)
(* records); a record has the id of its server, whose profile has the full *)
(* name, the display name (full without "mcp-"), the tools and the         *)
(* resource prefixes that it registers.                                    *)
(* The namespace separator is the default, a dot.                          *)
(***************************************************************************)
EXTENDS Integers, Sequences, FiniteSets, Functions

CONSTANT Profile

Full(r) == Profile[r.id].full
Display(r) == Profile[r.id].display
Tools(r) == Profile[r.id].tools
Resources(r) == Profile[r.id].resources

\* NamespaceMode.
Reject == "reject"
Always == "namespace_always"
OnConflict == "namespace_on_conflict"
Modes == {Reject, Always, OnConflict}

\* The hint of a name that names no server.
NoHint == <<>>

\* removeServer, and the lookups: what is in keep, in its order.
Kept(s, keep) ==
    LET kept[i \in 0 .. Len(s)] ==
            IF i = 0 THEN <<>>
            ELSE IF s[i] \in keep THEN Append(kept[i - 1], s[i]) ELSE kept[i - 1]
    IN kept[Len(s)]

\* strings.HasPrefix.
HasPrefix(n, p) == Len(p) <= Len(n) /\ SubSeq(n, 1, Len(p)) = p

LookupTool(ix, t) == {r \in Range(ix) : t \in Tools(r)}

\* LookupResource: the servers of the longest registered prefix of a URI.
LookupResource(ix, uri) ==
    LET matching == {p \in UNION {Resources(r) : r \in Range(ix)} : HasPrefix(uri, p)}
        longest == {p \in matching : \A q \in matching : Len(q) <= Len(p)}
    IN Kept(ix, {r \in Range(ix) : Resources(r) \cap longest # {}})

\* federatedToolName: a raw name that starts with the display name is kept.
federatedToolName(r, t) ==
    IF HasPrefix(t, Display(r)) /\ t # Display(r) THEN t ELSE Display(r) \o t

IsConflict(ix, t) == Cardinality(LookupTool(ix, t)) > 1

ApplyNamespace(mode, ix, r, t) ==
    IF mode = Always \/ (mode = OnConflict /\ IsConflict(ix, t)) THEN Display(r) \o t ELSE t

\* toolAggregator.resolveFederatedName: the name a tool is listed under.
FederatedName(mode, ix, r, t) ==
    IF mode # Reject THEN ApplyNamespace(mode, ix, r, t) ELSE federatedToolName(r, t)

\* ResolveNamespace splits at the first dot.
ResolveNamespace(n) ==
    IF Len(n) > 1 THEN [tool |-> Tail(n), hint |-> <<Head(n)>>]
    ELSE [tool |-> n, hint |-> NoHint]

\* Router.resolveFederatedName: a raw name of the index first, then a name
\* behind a server's name, then the legacy form mcp.<server>.<tool>.
resolveFederatedName(ix, n) ==
    IF LookupTool(ix, n) # {} THEN [tool |-> n, hint |-> NoHint]
    ELSE IF LookupTool(ix, ResolveNamespace(n).tool) # {} THEN ResolveNamespace(n)
    ELSE IF Len(n) > 2 /\ n[1] = "mcp" THEN [tool |-> SubSeq(n, 3, Len(n)), hint |-> <<n[2]>>]
    ELSE [tool |-> n, hint |-> NoHint]

\* Mutation: a hint is matched against nothing.
matchesAnyHint(r, hint) == TRUE

matchesServerHint(r, hint) == hint \in {Full(r), Display(r), <<r.id>>}

filterCandidatesByServer(rs, hint) == {r \in rs : matchesServerHint(r, hint)}

\* Router.Route, up to the choice among the candidates.
Candidates(ix, n) ==
    LET found == resolveFederatedName(ix, n)
        rs == LookupTool(ix, found.tool)
    IN IF found.hint = NoHint THEN rs ELSE filterCandidatesByServer(rs, found.hint)

\* rewriteLegacyToolCallName with the header X-MCP-Server naming server r.
rewriteLegacyToolCallName(r, n) ==
    IF \E p \in {Display(r), <<"mcp">>} : HasPrefix(n, p) /\ n # p THEN n ELSE Display(r) \o n
=============================================================================
