---------------------------- MODULE StdioProxy -----------------------------
(***************************************************************************)
(* `mcpgw mcp-proxy', the command-line client, beside a gateway that comes *)
(* and goes (Uptime): it reads JSON-RPC lines from its input, posts each   *)
(* to /mcp with the cached token, and answers on its output                *)
(* (cmd/mcpgw/proxy.go).  Tokens come from the device flow through the     *)
(* gateway (cmd/mcpgw/auth.go, internal/auth/device_flow.go) and live in a *)
(* file that every such process of the user shares                         *)
(* (internal/auth/token_cache.go).                                         *)
(*                                                                         *)
(* A token pair (access and refresh token) is the number of its issue.     *)
(* The identity provider is external: it accepts a refresh token once.     *)
(***************************************************************************)
EXTENDS Naturals, Uptime

CONSTANTS
  MaxTokens,  \* bound: token pairs the identity provider issues
  MaxLines,   \* bound: input lines per process
  MaxUps,     \* bound: how often the gateway comes up
  MaxErrors   \* bound: how often the disk fails

ASSUME StdioAssumption ==
  MaxTokens \in Nat /\ MaxLines \in Nat /\ MaxUps \in Nat /\ MaxErrors \in Nat

NoFile == 0
Torn == MaxTokens + 1   \* a file opened for writing and not yet written

(* The processes are the callers of the gateway.                           *)
Clients == Callers

VARIABLES
  device,    \* the gateway has the device flow mounted
  ups, errs, \* how often it came up, and the disk failed
  at,        \* where a process is
  op,        \* the call it makes: refresh, code, poll or mcp
  tok,       \* the token pair in its hands
  attempt,   \* attempts made for the current line (sendMCPRequest's loop)
  lines,     \* input lines read
  reply,     \* what the handler of its call has written
  deadline,  \* the device code of its login has expired
  handle,    \* the file its open handle writes: tmp, file, or an unlinked one
  ran,       \* how often the gateway executed the current line
  lost,      \* attempts for it whose answer never came
  file, tmp, \* token.json and token.json.tmp
  issued,    \* token pairs issued
  spent,     \* refresh tokens used
  due,       \* access tokens 1..due are inside the refresh window
  expired    \* access tokens 1..expired are no longer accepted

idp == <<issued, spent>>
clock == <<due, expired>>
disk == <<file, tmp, handle>>
work == <<attempt, lines, ran, lost>>
cvars == <<at, op, tok, attempt, lines, reply, deadline, handle, ran, lost,
           file, tmp, issued, spent, due, expired>>
world == <<device, ups, errs>>
pvars == <<uvars, world, cvars>>

(* No call made yet and nobody logged in.                                  *)
IdleClients ==
  /\ op = [c \in Clients |-> "mcp"]
  /\ tok = [c \in Clients |-> 0]
  /\ attempt = [c \in Clients |-> 0]
  /\ lines = [c \in Clients |-> 0]
  /\ reply = [c \in Clients |-> "none"]
  /\ deadline = [c \in Clients |-> FALSE]
  /\ handle = [c \in Clients |-> "tmp"]
  /\ ran = [c \in Clients |-> 0]
  /\ lost = [c \in Clients |-> 0]
  /\ file = NoFile /\ tmp = NoFile
  /\ issued = 0 /\ spent = {} /\ due = 0 /\ expired = 0

PInit ==
  /\ UInit
  /\ device \in BOOLEAN
  /\ ups = 0 /\ errs = 0
  /\ at = [c \in Clients |-> "idle"]
  /\ IdleClients

-----------------------------------------------------------------------------
(* Moves of one process.                                                   *)

Go(c, place) == at' = [at EXCEPT ![c] = place]

Call(c, what) == /\ Go(c, "call")
                 /\ op' = [op EXCEPT ![c] = what]

(* runProxy reads the next line and asks for a valid token.                *)
ReadLine(c) ==
  /\ at[c] = "idle"
  /\ lines[c] < MaxLines
  /\ lines' = [lines EXCEPT ![c] = @ + 1]
  /\ attempt' = [attempt EXCEPT ![c] = 0]
  /\ ran' = [ran EXCEPT ![c] = 0]
  /\ lost' = [lost EXCEPT ![c] = 0]
  /\ Go(c, "load")
  /\ UNCHANGED <<uvars, world, op, tok, reply, deadline, disk, idp, clock>>

(* sendMCPRequest's loop: three attempts, then the error is logged and the *)
(* line has no answer.                                                     *)
SendOrGiveUp(c, n) == IF n < 3 THEN Call(c, "mcp") ELSE Go(c, "idle") /\ UNCHANGED op

IsReadable(f) == f \in 1..MaxTokens

NeedsRefresh(t) == t <= due

(* loadAndRefreshToken, up to the refresh: no readable file means a login. *)
LoadTokens(c) ==
  /\ at[c] = "load"
  /\ IF ~IsReadable(file) THEN Call(c, "code") /\ UNCHANGED tok
     ELSE /\ tok' = [tok EXCEPT ![c] = file]
          /\ IF NeedsRefresh(file) THEN Call(c, "refresh")
             ELSE SendOrGiveUp(c, attempt[c])
  /\ UNCHANGED <<uvars, world, work, reply, deadline, disk, idp, clock>>

(* A failed login ends the proxy when it stood before the first attempt,   *)
(* and only the line when a 401 caused it.                                 *)
LoginFailed(c) == Go(c, IF attempt[c] = 0 THEN "done" ELSE "idle")

(* The login's own LoadTokens: another process may have removed the file.  *)
ReloadTokens(c) ==
  /\ at[c] = "reload"
  /\ IF IsReadable(file)
     THEN tok' = [tok EXCEPT ![c] = file] /\ SendOrGiveUp(c, attempt[c])
     ELSE LoginFailed(c) /\ UNCHANGED <<op, tok>>
  /\ UNCHANGED <<uvars, world, work, reply, deadline, disk, idp, clock>>

-----------------------------------------------------------------------------
(* SaveTokens: the temporary file has one name for all processes.          *)

SaveFailed(c) == IF op[c] = "refresh" THEN Call(c, "code")
                 ELSE LoginFailed(c) /\ UNCHANGED op

(* os.WriteFile truncates it ...                                           *)
OpenTemp(c) ==
  /\ at[c] = "save"
  /\ \/ /\ tmp' = Torn
        /\ handle' = [handle EXCEPT ![c] = "tmp"]
        /\ Go(c, "write")
        /\ UNCHANGED <<op, errs>>
     \/ /\ errs < MaxErrors
        /\ errs' = errs + 1
        /\ SaveFailed(c)
        /\ UNCHANGED <<tmp, handle>>
  /\ UNCHANGED <<uvars, device, ups, tok, work, reply, deadline, file, idp, clock>>

(* ... and fills it, under whichever name it has by then.                  *)
WriteTemp(c) ==
  /\ at[c] = "write"
  /\ tmp' = IF handle[c] = "tmp" THEN tok[c] ELSE tmp
  /\ file' = IF handle[c] = "file" THEN tok[c] ELSE file
  /\ Go(c, "rename")
  /\ UNCHANGED <<uvars, world, op, tok, work, reply, deadline, handle, idp, clock>>

(* Where an open handle writes once the temporary file replaces the other. *)
Moved(h) == IF h = "tmp" THEN "file" ELSE "gone"

(* os.Rename takes the other writers' open file along.                     *)
RenameTemp(c) ==
  /\ at[c] = "rename"
  /\ IF tmp = NoFile THEN SaveFailed(c) /\ UNCHANGED <<file, handle>>
     ELSE /\ file' = tmp
          /\ handle' = [d \in Clients |-> Moved(handle[d])]
          /\ IF op[c] = "refresh" THEN SendOrGiveUp(c, attempt[c])
             ELSE Go(c, "reload") /\ UNCHANGED op
  /\ tmp' = NoFile
  /\ UNCHANGED <<uvars, world, tok, work, reply, deadline, idp, clock>>

(* `mcpgw auth logout'.                                                    *)
Logout ==
  /\ file # NoFile
  /\ file' = NoFile
  /\ handle' = [d \in Clients |-> IF handle[d] = "file" THEN "gone" ELSE handle[d]]
  /\ UNCHANGED <<uvars, world, at, op, tok, work, reply, deadline, tmp, idp, clock>>
-----------------------------------------------------------------------------
(* Calls to the gateway.                                                   *)

(* A call that got no answer.  A poll counts as pending, a refresh leads   *)
(* to a login, a request to the next attempt.                              *)
CallFailed(c, n) ==
  CASE op[c] = "refresh" -> Call(c, "code")
    [] op[c] = "code" -> LoginFailed(c) /\ UNCHANGED op
    [] op[c] = "poll" -> Go(c, "sleep") /\ UNCHANGED op
    [] OTHER -> SendOrGiveUp(c, n)

Attempts(c) == IF op[c] = "mcp" THEN attempt[c] + 1 ELSE attempt[c]

Connect(c) ==
  /\ at[c] = "call"
  /\ Enter(c)
  /\ Go(c, "wait")
  /\ attempt' = [attempt EXCEPT ![c] = Attempts(c)]
  /\ reply' = [reply EXCEPT ![c] = "none"]
  /\ UNCHANGED <<world, op, tok, lines, ran, lost, deadline, disk, idp, clock>>

(* The gateway is not listening.                                           *)
ConnectFails(c) ==
  /\ at[c] = "call"
  /\ ~up
  /\ CallFailed(c, Attempts(c))
  /\ attempt' = [attempt EXCEPT ![c] = Attempts(c)]
  /\ UNCHANGED <<uvars, world, tok, lines, reply, ran, lost, deadline, disk, idp, clock>>

Write(c, what) == reply' = [reply EXCEPT ![c] = what]

Grant(c) == /\ issued < MaxTokens
            /\ issued' = issued + 1
            /\ tok' = [tok EXCEPT ![c] = issued + 1]
            /\ Write(c, "granted")

(* The /mcp handler: authentication, rate limit, then whatever serves the  *)
(* request.  Any other status may come before or after the execution.      *)
HandleMCP(c) ==
  /\ op[c] = "mcp"
  /\ IF tok[c] <= expired THEN Write(c, "401") /\ UNCHANGED ran
     ELSE \/ Write(c, "429") /\ UNCHANGED ran
          \/ Write(c, "error") /\ UNCHANGED ran
          \/ /\ ran' = [ran EXCEPT ![c] = @ + 1]
             /\ \E status \in {"200", "error"} : Write(c, status)
  /\ UNCHANGED <<tok, idp>>

(* handleDeviceCode relays the provider's answer.                          *)
handleDeviceCode(c) ==
  /\ op[c] = "code"
  /\ \/ device /\ Write(c, "code")
     \/ Write(c, "error")
  /\ UNCHANGED <<tok, ran, idp>>

(* handleDeviceToken relays both grants: an authorisation that is pending  *)
(* becomes 425, anything else the provider refuses is an error; a refresh  *)
(* token is good for one use.                                              *)
handleDeviceToken(c) ==
  /\ op[c] \in {"poll", "refresh"}
  /\ \/ /\ device
        /\ op[c] = "poll"
        /\ Grant(c)
        /\ UNCHANGED spent
     \/ /\ device
        /\ op[c] = "refresh"
        /\ tok[c] \notin spent
        /\ Grant(c)
        /\ spent' = spent \cup {tok[c]}
     \/ /\ device
        /\ op[c] = "poll"
        /\ Write(c, "pending")
        /\ UNCHANGED <<tok, idp>>
     \/ Write(c, "error") /\ UNCHANGED <<tok, idp>>
  /\ UNCHANGED ran

Handle(c) ==
  /\ c \in pending
  /\ reply[c] = "none"
  /\ HandleMCP(c) \/ handleDeviceCode(c) \/ handleDeviceToken(c)
  /\ UNCHANGED <<uvars, world, at, op, attempt, lines, lost, deadline, disk, clock>>

(* Mutation: any status but success is tried again.                        *)
RetryAnyStatus(c) ==
  CASE reply[c] = "200" -> Go(c, "idle") /\ UNCHANGED op
    [] reply[c] = "401" -> Go(c, "load") /\ UNCHANGED op
    [] OTHER -> SendOrGiveUp(c, attempt[c])

(* handleMCPResponse: 401 asks for a token again, 429 waits and retries,   *)
(* another status gives the line up.                                       *)
handleMCPResponse(c) ==
  CASE reply[c] = "200" -> Go(c, "idle") /\ UNCHANGED op
    [] reply[c] = "401" -> Go(c, "load") /\ UNCHANGED op
    [] reply[c] = "429" -> SendOrGiveUp(c, attempt[c])
    [] OTHER -> Go(c, "idle") /\ UNCHANGED op

(* RefreshAccessToken: any status but 200 leads to a login.                *)
RefreshAnswered(c) ==
  IF reply[c] = "granted" THEN Go(c, "save") /\ UNCHANGED op ELSE Call(c, "code")

requestDeviceCode(c) ==
  IF reply[c] = "code" THEN Go(c, "sleep") /\ op' = [op EXCEPT ![c] = "poll"]
  ELSE LoginFailed(c) /\ UNCHANGED op

pollTokenOnce(c) ==
  /\ CASE reply[c] = "granted" -> Go(c, "save")
       [] reply[c] = "pending" -> Go(c, "sleep")
       [] OTHER -> LoginFailed(c)
  /\ UNCHANGED op

Answered(c) ==
  /\ at[c] = "wait"
  /\ reply[c] # "none"
  /\ Leave(c)
  /\ CASE op[c] = "mcp" -> handleMCPResponse(c)
       [] op[c] = "refresh" -> RefreshAnswered(c)
       [] op[c] = "code" -> requestDeviceCode(c)
       [] OTHER -> pollTokenOnce(c)
  /\ deadline' = [deadline EXCEPT ![c] = @ /\ op[c] # "code"]
  /\ UNCHANGED <<world, tok, work, reply, disk, idp, clock>>

(* The gateway exited, or the client's own timeout passed: 120 s for /mcp, *)
(* 30 s for the login, none for a refresh.                                 *)
Broken(c) ==
  /\ at[c] = "wait"
  /\ \/ c \notin pending /\ UNCHANGED uvars
     \/ op[c] # "refresh" /\ Leave(c)
  /\ CallFailed(c, attempt[c])
  /\ lost' = [lost EXCEPT ![c] = IF op[c] = "mcp" THEN @ + 1 ELSE @]
  /\ UNCHANGED <<world, tok, attempt, lines, ran, reply, deadline, disk, idp, clock>>

(* Mutation: the loop does not look at the deadline.                       *)
PollForever(c) ==
  /\ at[c] = "sleep"
  /\ Call(c, "poll")
  /\ UNCHANGED <<uvars, world, tok, work, reply, deadline, disk, idp, clock>>

(* pollForToken's loop: until the code has expired.                        *)
PollAgain(c) ==
  /\ at[c] = "sleep"
  /\ IF deadline[c] THEN LoginFailed(c) /\ UNCHANGED op ELSE Call(c, "poll")
  /\ UNCHANGED <<uvars, world, tok, work, reply, deadline, disk, idp, clock>>

CodeExpires(c) ==
  /\ op[c] = "poll"
  /\ at[c] \in {"sleep", "call", "wait"}
  /\ ~deadline[c]
  /\ deadline' = [deadline EXCEPT ![c] = TRUE]
  /\ UNCHANGED <<uvars, world, at, op, tok, work, reply, disk, idp, clock>>

(* Time passes over the access tokens, oldest first.                       *)
TokensAge ==
  /\ \/ due < issued /\ due' = due + 1 /\ UNCHANGED expired
     \/ expired < due /\ expired' = expired + 1 /\ UNCHANGED due
  /\ UNCHANGED <<uvars, world, at, op, tok, work, reply, deadline, disk, idp>>

Proceeds(c) ==
  \/ LoadTokens(c) \/ ReloadTokens(c)
  \/ OpenTemp(c) \/ WriteTemp(c) \/ RenameTemp(c)
  \/ Connect(c) \/ ConnectFails(c) \/ Answered(c) \/ PollAgain(c)

(* The gateway comes and goes.                                             *)
Gateway ==
  /\ \/ ComeUp /\ ups < MaxUps /\ ups' = ups + 1
     \/ (GoDown \/ CutOff) /\ UNCHANGED ups
  /\ UNCHANGED <<device, errs, cvars>>

PNext ==
  \/ Gateway
  \/ \E c \in Clients : \/ ReadLine(c) \/ Proceeds(c) \/ Handle(c)
                       \/ Broken(c) \/ CodeExpires(c)
  \/ Logout
  \/ TokensAge

PSpec == PInit /\ [][PNext]_pvars

(* A client's steps, its timeouts and the expiry of its code happen; the   *)
(* provider answers what it is asked.  The gateway need not come up.       *)
PFairness ==
  \A c \in Clients : /\ WF_pvars(Proceeds(c))
                    /\ WF_pvars(Broken(c))
                    /\ WF_pvars(CodeExpires(c))
                    /\ WF_pvars(op[c] # "mcp" /\ Handle(c))

PFairSpec == PSpec /\ PFairness

-----------------------------------------------------------------------------
(* What is required.                                                       *)

(* sendMCPRequest repeats a POST that may already have run a tool.  The    *)
(* gateway executes a line again only after an attempt whose answer never  *)
(* came: an answer that did come (401, 429 or a failure) never makes it    *)
(* run twice, through any sequence of refreshes, logins and restarts.      *)
RepeatsFollowLostAnswers == \A c \in Clients : ran[c] <= 1 + lost[c]

(* Every line read is dealt with: answered, given up with an error, or the *)
(* proxy ends; whatever the gateway does, and although a rejected token    *)
(* may lead through a refresh and a login in each of the attempts.         *)
LinesAreDealtWith ==
  \A c \in Clients : at[c] = "load" ~> at[c] \in {"idle", "done"}
=============================================================================
