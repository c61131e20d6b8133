----------------------------- MODULE PolicyRules -----------------------------
(***************************************************************************)
(* The pure part of the policy engine (internal/policy): how a tool name   *)
(* is classified, and which violations a tools/call has under a profile.   *)
(* A tool name is the set of its tokens; an argument value is its JSON     *)
(* kind, the strings found anywhere inside it, and, for an enum, itself.   *)
(***************************************************************************)
EXTENDS Naturals, FiniteSets

RiskLevels == {"read_only", "write", "destructive", "unknown"}
Modes == {"enforce", "audit", "unset"}

-----------------------------------------------------------------------------
(* Classification by name.                                                 *)

destructiveKeywords ==
  {"delete", "remove", "destroy", "drop", "purge", "erase", "wipe", "truncate",
   "kill", "terminate", "revoke", "force"}

writeKeywords ==
  {"create", "update", "set", "put", "post", "write", "add", "insert",
   "modify", "patch", "upload", "push", "send", "publish", "assign",
   "enable", "disable", "configure", "deploy", "start", "stop", "restart"}

readOnlyKeywords ==
  {"get", "list", "read", "describe", "show", "fetch", "query", "search",
   "find", "view", "inspect", "check", "status", "info", "count", "exists",
   "download", "export", "head", "ping", "health", "version"}

(* Every caller passes an empty description, so only the name decides.     *)
classifyByName(tokens, keywords) == tokens \cap keywords # {}

(* The rules in their order: destructive before read-only before write.    *)
AutoClassify(tokens) ==
  IF classifyByName(tokens, destructiveKeywords) THEN "destructive"
  ELSE IF classifyByName(tokens, readOnlyKeywords) THEN "read_only"
  ELSE IF classifyByName(tokens, writeKeywords) THEN "write"
  ELSE "unknown"

-----------------------------------------------------------------------------
(* Arguments.  A value is [kind, strings, elems]: "strings" the kinds of   *)
(* string it holds at its own level, "elems" the values nested in it.      *)

(* The nesting of the values in use is two levels deep.                    *)
collectStrings(v) ==
  v.strings \cup UNION {e.strings : e \in v.elems}

CheckDangerous(args) ==
  IF \E n \in DOMAIN args : "dangerous" \in collectStrings(args[n])
  THEN {"dangerous_pattern"} ELSE {}

matchesJSONType(v, expected) ==
  CASE expected = "string"  -> v.kind = "string"
    [] expected = "boolean" -> v.kind = "boolean"
    [] expected = "number"  -> v.kind \in {"integer", "fraction"}
    [] expected = "integer" -> v.kind = "integer"
    [] expected = "object"  -> v.kind = "object"
    [] expected = "array"   -> v.kind = "array"
    [] OTHER -> TRUE

valueInEnum(v, enum) == v \in enum

validateRequired(args, required) == required \subseteq DOMAIN args

(* Only arguments that the schema describes are looked at; a property may  *)
(* lack a type ("any") and an empty enum restricts nothing.                *)
validateProperties(args, properties) ==
  \A n \in DOMAIN args \cap DOMAIN properties :
    /\ matchesJSONType(args[n], properties[n].type)
    /\ \/ properties[n].enum = {}
       \/ valueInEnum(args[n], properties[n].enum)

ValidateArguments(args, schema) ==
  IF \/ schema.state = "absent"
     \/ /\ schema.state = "valid"
        /\ validateRequired(args, schema.required)
        /\ validateProperties(args, schema.properties)
  THEN {} ELSE {"schema_violation"}

-----------------------------------------------------------------------------
(* Profiles and decisions.                                                 *)

BuiltInProfile == [allow |-> {}, deny |-> {}, mode |-> "enforce"]

(* NewEngine and ReplaceProfiles add a default profile where there is none.*)
WithDefault(profiles) ==
  [n \in DOMAIN profiles \cup {"default"} |->
     IF n \in DOMAIN profiles THEN profiles[n] ELSE BuiltInProfile]

resolveProfile(profiles, name) ==
  IF name \in DOMAIN profiles THEN profiles[name] ELSE profiles["default"]

collectViolations(profile, call) ==
  (IF profile.allow # {} /\ call.tool \notin profile.allow
   THEN {"allowlist"} ELSE {})
  \cup (IF call.tool \in profile.deny THEN {"denylist"} ELSE {})
  \cup CheckDangerous(call.args)
  \cup ValidateArguments(call.args, call.schema)

(* As a mutant: audit mode is what an unset mode falls back to.            *)
ModeInForceAudits(profile) == IF profile.mode = "unset" THEN "audit" ELSE profile.mode
ModeInForce(profile) == IF profile.mode = "unset" THEN "enforce" ELSE profile.mode

buildDecision(violations, mode) == violations = {} \/ mode = "audit"
=============================================================================
