---------------------------- MODULE AccessProofs ----------------------------
(***************************************************************************)
(* Proofs about Access, for any subjects, keys, tools, administrators and  *)
(* plans, and any number of requests and writes.                           *)
(*                                                                         *)
(* A request's rights are read in two steps and used in a third.  What     *)
(* makes its calls entitled is that the history kept for it contains the   *)
(* present role and permissions at every time (Seen), so that each read    *)
(* leaves its result in that history (Read), where later steps find it.    *)
(*                                                                         *)
(* An orchestration is safe because validatePlan keeps at most MaxSteps    *)
(* steps and only candidates that were safe when they were found (Planned, *)
(* Screened).  A session exceeds its cap only if activations overlapped    *)
(* because each adds what fits beside what it counted (Capped).  What the  *)
(* loops over plans and names return is proved by induction over the       *)
(* recursive functions that model them (KeptFacts, NamesAreASequence).     *)
(***************************************************************************)
EXTENDS Access, WellFoundedInduction, FiniteSetTheorems, TLAPS

Fields == {"pc", "caller", "scope", "kind", "level", "candidates", "steps", "adding",
           "made", "shown"}
Request(q) == q = [f \in Fields |-> q[f]]
History(h) == h = [f \in {"roles", "granted", "safe"} |-> h[f]]

(* The variables are the functions and records they are made as.           *)
Shape ==
    /\ req = [r \in Requests |-> req[r]] /\ \A r \in Requests : Request(req[r])
    /\ since = [r \in Requests |-> since[r]] /\ \A r \in Requests : History(since[r])
    /\ users = [u \in Users |-> users[u]]
    /\ perms = [u \in Users |-> perms[u]]

Asking == {"call", "list", "execute"}
MayCall(h, t) == "admin" \in h.roles \/ ("user" \in h.roles /\ t \in h.granted)
MaySee(h, t) == "admin" \in h.roles \/ ({"user", "viewer"} \cap h.roles # {} /\ t \in h.granted)

Stages(q) ==
    /\ q.pc \in {"role", "permission", "call"} => q.kind \in Asking
    /\ q.pc = "next" => q.kind = "execute"
    /\ q.pc = "call" => q.kind # "list"

Seen(q, h, roles, granted) ==
    (q.pc # "off" /\ q.caller \in Users /\ q.kind \in Asking)
        => roles[q.caller] \in h.roles /\ granted[q.caller] \subseteq h.granted

Read(q, h) ==
    /\ (q.pc = "permission" /\ q.caller \in Users)
         => IF q.kind = "list" THEN {"user", "viewer"} \cap h.roles # {} ELSE "user" \in h.roles
    /\ (q.pc = "call" /\ q.caller \in Users) => MayCall(h, Head(q.steps).tool)

Entitled(q, h) ==
    /\ q.made \in Seq(Tools)
    /\ \A t \in Range(q.made) :
         InScope(q.scope, t) /\ (q.caller \in Users => MayCall(h, t))
    /\ \A t \in q.shown : q.caller \in Users => MaySee(h, t)

Sound(q, h) == Stages(q) /\ Read(q, h) /\ Entitled(q, h)
AllSound ==
    \A r \in Requests : Sound(req[r], since[r]) /\ Seen(req[r], since[r], users, perms)

LEMMA SoundImpliesEntitled == AllSound => CallsWereEntitled
  BY Zenon DEF AllSound, Sound, Entitled, MayCall, MaySee, CallsWereEntitled

LEMMA OffIsSound ==
    ASSUME NEW h
    PROVE  Request(Off) /\ Sound(Off, h) /\ \A us, ps : Seen(Off, h, us, ps)
<1>1. Request(Off)
  BY Zenon DEF Request, Off, Fields
<1>2. Range(<<>>) = {}
  BY DEF Range
<1>3. Stages(Off) /\ Read(Off, h) /\ \A us, ps : Seen(Off, h, us, ps)
  BY Zenon DEF Off, Stages, Read, Seen
<1>4. Off.made = <<>> /\ Off.shown = {}
  BY Zenon DEF Off
<1>5. <<>> \in Seq(Tools)
  OBVIOUS
<1>6. Entitled(Off, h)
  BY <1>2, <1>4, <1>5 DEF Entitled
<1> QED
  BY <1>1, <1>3, <1>6 DEF Sound

LEMMA InitSound == AInit => Shape /\ AllSound
<1> SUFFICES ASSUME AInit PROVE Shape /\ AllSound
  BY Zenon
<1>1. Shape
  <2>1. History(Never)
    BY Zenon DEF History, Never
  <2> QED
    BY <2>1, OffIsSound DEF AInit, Shape
<1>2. AllSound
  BY OffIsSound, Zenon DEF AInit, AllSound
<1> QED
  BY <1>1, <1>2, Zenon

-----------------------------------------------------------------------------
(* Steps of one request leave the database and the others alone.           *)

Moved(r) ==
    /\ req' = [s \in Requests |-> req'[s]] /\ Request(req'[r])
    /\ \A s \in Requests \ {r} : req'[s] = req[s]

LEMMA OneRequestMoves ==
    ASSUME Shape, AllSound, NEW r \in Requests, UNCHANGED <<users, perms>>, Moved(r),
           since' = [s \in Requests |-> since'[s]], History(since'[r]),
           \A s \in Requests \ {r} : since'[s] = since[s],
           Sound(req'[r], since'[r]), Seen(req'[r], since'[r], users, perms)
    PROVE  Shape' /\ AllSound'
<1>1. Shape'
  BY Zenon DEF Shape, Moved
<1>2. AllSound'
  BY Zenon DEF AllSound, Moved
<1> QED
  BY <1>1, <1>2, Zenon

(* A request that only moves on keeps its rights.                          *)
Same(q, p) ==
    /\ q.caller = p.caller /\ q.scope = p.scope /\ q.kind = p.kind /\ q.level = p.level
    /\ q.made = p.made /\ q.shown = p.shown

LEMMA Carry ==
    ASSUME NEW q, NEW p, NEW h, NEW us, NEW ps, p.pc # "off", Same(q, p), Sound(p, h),
           Seen(p, h, us, ps), Stages(q), Read(q, h)
    PROVE  Sound(q, h) /\ Seen(q, h, us, ps)
  BY Zenon DEF Same, Sound, Seen, Entitled

LEMMA MovingOn ==
    ASSUME Shape, AllSound, NEW r \in Requests, UNCHANGED <<users, perms, since>>, Moved(r),
           req[r].pc # "off", Same(req'[r], req[r]), Stages(req'[r]), Read(req'[r], since[r])
    PROVE  Shape' /\ AllSound'
<1>1. Sound(req'[r], since[r]) /\ Seen(req'[r], since[r], users, perms)
  BY Carry DEF AllSound
<1>2. since' = [s \in Requests |-> since'[s]] /\ History(since'[r])
  BY Zenon DEF Shape
<1> QED
  BY <1>1, <1>2, OneRequestMoves

LEMMA GotoMoves ==
    ASSUME Shape, NEW r \in Requests, NEW pc, Goto(r, pc)
    PROVE  /\ Moved(r) /\ Same(req'[r], req[r])
           /\ req'[r].pc = pc /\ req'[r].steps = req[r].steps
           /\ req'[r].candidates = req[r].candidates
<1>1. /\ req'[r] = [req[r] EXCEPT !.pc = pc]
      /\ req' = [s \in Requests |-> req'[s]]
      /\ \A s \in Requests \ {r} : req'[s] = req[s]
  BY Zenon DEF Shape, Goto
<1>2. Request(req[r])
  BY Zenon DEF Shape
<1>3. Request(req'[r])
  BY <1>1, <1>2 DEF Request, Fields
<1>4. /\ Same(req'[r], req[r]) /\ req'[r].pc = pc /\ req'[r].steps = req[r].steps
      /\ req'[r].candidates = req[r].candidates
  BY <1>1, <1>2 DEF Request, Fields, Same
<1> QED
  BY <1>1, <1>3, <1>4 DEF Moved

LEMMA OverMoves ==
    ASSUME Shape, NEW r \in Requests, NEW calls, Over(r, calls)
    PROVE  /\ Moved(r)
           /\ req'[r].pc = AfterActivation(r)
           /\ req'[r].caller = req[r].caller /\ req'[r].scope = req[r].scope
           /\ req'[r].kind = req[r].kind /\ req'[r].shown = req[r].shown
           /\ req'[r].made = req[r].made \o calls /\ req'[r].steps = Tail(req[r].steps)
           /\ req'[r].level = req[r].level /\ req'[r].candidates = req[r].candidates
<1>1. /\ req'[r] = [req[r] EXCEPT !.pc = AfterActivation(r), !.steps = Tail(@),
                                  !.made = @ \o calls]
      /\ req' = [s \in Requests |-> req'[s]]
      /\ \A s \in Requests \ {r} : req'[s] = req[s]
  BY Zenon DEF Shape, Over
<1>2. Request(req[r])
  BY Zenon DEF Shape
<1>3. Request(req'[r])
  BY <1>1, <1>2, Zenon DEF Request, Fields
<1>4. /\ req'[r].pc = AfterActivation(r)
      /\ req'[r].caller = req[r].caller /\ req'[r].scope = req[r].scope
      /\ req'[r].kind = req[r].kind /\ req'[r].shown = req[r].shown
      /\ req'[r].made = req[r].made \o calls /\ req'[r].steps = Tail(req[r].steps)
      /\ req'[r].level = req[r].level /\ req'[r].candidates = req[r].candidates
  BY <1>1, <1>2 DEF Request, Fields
<1> QED
  BY <1>1, <1>3, <1>4 DEF Moved

LEMMA DoneMoves ==
    ASSUME Shape, AllSound, NEW r \in Requests, UNCHANGED <<users, perms>>, Done(r)
    PROVE  Shape' /\ AllSound'
<1>1. req'[r] = Off /\ since'[r] = Never
  BY Zenon DEF Shape, Done
<1>2. Moved(r)
  BY <1>1, OffIsSound DEF Shape, Done, Moved
<1>3. /\ since' = [s \in Requests |-> since'[s]]
      /\ \A s \in Requests \ {r} : since'[s] = since[s]
  BY Zenon DEF Shape, Done
<1>4. History(Never)
  BY Zenon DEF History, Never
<1> QED
  BY <1>1, <1>2, <1>3, <1>4, OffIsSound, OneRequestMoves

LEMMA Concatenation ==
    ASSUME NEW S, NEW s \in Seq(S)
    PROVE  s \o <<>> = s /\ \A t \in S : s \o <<t>> = Append(s, t) /\ Append(s, t) \in Seq(S)
  OBVIOUS

LEMMA OverIsSound ==
    ASSUME Shape, AllSound, NEW r \in Requests, UNCHANGED <<users, perms, since>>,
           req[r].pc # "off", NEW calls, Over(r, calls),
           \/ calls = <<>>
           \/ \E t \in Tools : /\ calls = <<t>> /\ InScope(req[r].scope, t)
                               /\ req[r].caller \in Users => MayCall(since[r], t)
    PROVE  Shape' /\ AllSound'
<1>1. req[r].made \in Seq(Tools)
  BY Zenon DEF AllSound, Sound, Entitled
<1>2. CASE calls = <<>>
  <2>1. req'[r].made = req[r].made
    BY <1>1, <1>2, OverMoves, Concatenation, Zenon
  <2>2. Same(req'[r], req[r])
    BY <2>1, OverMoves DEF Same
  <2>3. Stages(req'[r]) /\ Read(req'[r], since[r])
    BY OverMoves, Zenon DEF AfterActivation, Stages, Read
  <2> QED
    BY <2>2, <2>3, OverMoves, MovingOn
<1>3. ASSUME NEW t \in Tools, calls = <<t>>, InScope(req[r].scope, t),
             req[r].caller \in Users => MayCall(since[r], t)
      PROVE  Shape' /\ AllSound'
  <2>1. req'[r].made \in Seq(Tools) /\ req'[r].made = Append(req[r].made, t)
    <3>1. req'[r].made = req[r].made \o <<t>>
      BY <1>3, OverMoves, Zenon
    <3> QED
      BY <1>1, <3>1, Concatenation
  <2>2. Range(req'[r].made) = Range(req[r].made) \cup {t}
    BY <1>1, <2>1 DEF Range
  <2>3. Entitled(req'[r], since[r])
    BY <1>3, <2>1, <2>2, OverMoves, Zenon DEF AllSound, Sound, Entitled
  <2>4. Stages(req'[r]) /\ Read(req'[r], since[r])
    BY OverMoves, Zenon DEF AfterActivation, Stages, Read
  <2>5. Seen(req'[r], since[r], users, perms)
    BY OverMoves, Zenon DEF AllSound, Seen
  <2>6. since' = [s \in Requests |-> since'[s]] /\ History(since'[r])
    BY Zenon DEF Shape
  <2> QED
    BY <2>3, <2>4, <2>5, <2>6, OverMoves, OneRequestMoves DEF Sound
<1> QED
  BY <1>2, <1>3

-----------------------------------------------------------------------------
(* The steps of a request.                                                 *)

LEMMA ArriveIsSound ==
    ASSUME Shape, AllSound, NEW r \in Requests, NEW h, NEW kind \in AllKinds, NEW level,
           NEW steps, Arrive(r, h, kind, level, steps)
    PROVE  Shape' /\ AllSound'
<1> DEFINE c == Caller(h)
           pc == CASE kind \in {"call", "list"} -> "role"
                   [] kind = "schema" -> IF progressive THEN "activate" ELSE "end"
                   [] OTHER -> "search"
           q == [Off EXCEPT !.caller = c, !.scope = ScopeOf(c), !.kind = kind,
                            !.level = level, !.steps = steps, !.pc = pc]
<1>1. UNCHANGED <<users, perms>>
  BY Zenon DEF Arrive, db
<1>2. CASE UNCHANGED <<req, since>>
  BY <1>1, <1>2 DEF Shape, AllSound
<1>3. CASE req' = [req EXCEPT ![r] = q] /\ since' = [since EXCEPT ![r] = Now(c, kind, level)]
  <2> HIDE DEF c
  <2>1. pc # "off" /\ (pc \in {"role", "activate", "end", "search"})
    BY Zenon
  <2>2. pc = "role" => kind \in Asking
    BY Zenon DEF AllKinds, Asking
  <2> HIDE DEF pc
  <2>3. /\ q.pc = pc /\ q.caller = c /\ q.kind = kind
        /\ q.made = <<>> /\ q.shown = {}
    BY Zenon DEF Off
  <2>4. Request(q)
    BY Zenon DEF Off, Request, Fields
  <2> HIDE DEF q
  <2>5. req'[r] = q /\ since'[r] = Now(c, kind, level) /\ Moved(r)
    BY <1>3, <2>4, Zenon DEF Shape, Moved
  <2>6. /\ since' = [s \in Requests |-> since'[s]]
        /\ \A s \in Requests \ {r} : since'[s] = since[s]
    BY <1>3, Zenon DEF Shape
  <2>7. History(Now(c, kind, level))
    BY Zenon DEF Now, History
  <2>8. Seen(q, Now(c, kind, level), users, perms)
    BY <2>3, Zenon DEF Seen, Now, Asking
  <2>9. Stages(q) /\ Read(q, Now(c, kind, level))
    BY <2>1, <2>2, <2>3 DEF Stages, Read
  <2>10. Range(<<>>) = {} /\ <<>> \in Seq(Tools)
    BY DEF Range
  <2>11. Entitled(q, Now(c, kind, level))
    BY <2>3, <2>10 DEF Entitled
  <2> QED
    BY <1>1, <2>5, <2>6, <2>7, <2>8, <2>9, <2>11, OneRequestMoves DEF Sound
<1> QED
  BY <1>2, <1>3 DEF Arrive

LEMMA HandleIsSound ==
    ASSUME Shape, AllSound, NEW r \in Requests, Handle(r)
    PROVE  Shape' /\ AllSound'
<1>1. {"call", "schema", "list", "plan", "execute"} \subseteq AllKinds
  BY Zenon DEF AllKinds
<1>2. ASSUME NEW h, NEW kind \in AllKinds, NEW level, NEW steps, Arrive(r, h, kind, level, steps)
      PROVE  Shape' /\ AllSound'
  BY <1>2, ArriveIsSound
<1> QED
  BY <1>1, <1>2, Zenon DEF Handle

LEMMA SearchIsSound ==
    ASSUME Shape, AllSound, NEW r \in Requests, SearchTools(r)
    PROVE  Shape' /\ AllSound'
<1>1. UNCHANGED <<users, perms>> /\ req[r].pc = "search"
  BY Zenon DEF SearchTools, Quiet, Alone, db
<1>2. CASE Done(r)
  BY <1>1, <1>2, DoneMoves
<1>3. ASSUME NEW found, NEW more,
             req' = [req EXCEPT ![r].pc = "chat", ![r].candidates = found],
             since' = [since EXCEPT ![r].safe = @ \cup more]
      PROVE  Shape' /\ AllSound'
  <2>1. /\ req'[r] = [req[r] EXCEPT !.pc = "chat", !.candidates = found]
        /\ req' = [s \in Requests |-> req'[s]]
        /\ \A s \in Requests \ {r} : req'[s] = req[s]
    BY <1>3, Zenon DEF Shape
  <2>2. /\ since'[r] = [since[r] EXCEPT !.safe = @ \cup more]
        /\ since' = [s \in Requests |-> since'[s]]
        /\ \A s \in Requests \ {r} : since'[s] = since[s]
    BY <1>3, Zenon DEF Shape
  <2>3. Request(req[r]) /\ History(since[r])
    BY Zenon DEF Shape
  <2>4. Request(req'[r])
    BY <2>1, <2>3, Zenon DEF Request, Fields
  <2>5. Same(req'[r], req[r]) /\ req'[r].pc = "chat"
    BY <2>1, <2>3 DEF Request, Fields, Same
  <2>6. /\ History(since'[r]) /\ since'[r].roles = since[r].roles
        /\ since'[r].granted = since[r].granted
    BY <2>2, <2>3 DEF History
  <2>7. Stages(req'[r]) /\ Read(req'[r], since[r])
    BY <2>5, Zenon DEF Stages, Read
  <2>8. Sound(req'[r], since[r]) /\ Seen(req'[r], since[r], users, perms)
    BY <1>1, <2>5, <2>7, Carry DEF AllSound
  <2>9. Sound(req'[r], since'[r]) /\ Seen(req'[r], since'[r], users, perms)
    BY <2>6, <2>8 DEF Sound, Read, Entitled, MayCall, MaySee, Seen
  <2> QED
    BY <1>1, <2>1, <2>2, <2>4, <2>6, <2>9, OneRequestMoves DEF Moved
<1> QED
  BY <1>2, <1>3, Zenon DEF SearchTools

LEMMA PlanIsSound ==
    ASSUME Shape, AllSound, NEW r \in Requests, GeneratePlan(r)
    PROVE  Shape' /\ AllSound'
<1>1. UNCHANGED <<users, perms>> /\ req[r].pc # "off"
  BY Zenon DEF GeneratePlan, Quiet, Alone, db
<1>2. CASE Done(r)
  BY <1>1, <1>2, DoneMoves
<1>3. CASE Goto(r, "retry") /\ UNCHANGED since
  <2>1. Stages(req'[r]) /\ Read(req'[r], since[r])
    BY <1>3, GotoMoves DEF Stages, Read
  <2> QED
    BY <1>1, <1>3, <2>1, GotoMoves, MovingOn
<1>4. ASSUME NEW steps, UNCHANGED since,
             req' = [req EXCEPT ![r].pc = "activate", ![r].candidates = {}, ![r].steps = steps]
      PROVE  Shape' /\ AllSound'
  <2>1. /\ req'[r] = [req[r] EXCEPT !.pc = "activate", !.candidates = {}, !.steps = steps]
        /\ req' = [s \in Requests |-> req'[s]]
        /\ \A s \in Requests \ {r} : req'[s] = req[s]
    BY <1>4, Zenon DEF Shape
  <2>2. Request(req[r])
    BY Zenon DEF Shape
  <2>3. Request(req'[r])
    BY <2>1, <2>2, Zenon DEF Request, Fields
  <2>4. Same(req'[r], req[r]) /\ req'[r].pc = "activate"
    BY <2>1, <2>2 DEF Request, Fields, Same
  <2>5. Stages(req'[r]) /\ Read(req'[r], since[r])
    BY <2>4 DEF Stages, Read
  <2> QED
    BY <1>1, <1>4, <2>1, <2>3, <2>4, <2>5, MovingOn, Zenon DEF Moved
<1> QED
  BY <1>2, <1>3, <1>4 DEF GeneratePlan

(* Wherever the step leads that is neither a read of rights nor a call.    *)
LEMMA AfterActivationIsSound ==
    ASSUME NEW r, NEW q, NEW h, q.pc = AfterActivation(r), q.kind = req[r].kind
    PROVE  Stages(q) /\ Read(q, h)
  BY Zenon DEF AfterActivation, Stages, Read

LEMMA ActivationIsSound ==
    ASSUME Shape, AllSound, NEW r \in Requests, activateSessionTools(r)
    PROVE  Shape' /\ AllSound'
<1>1. UNCHANGED <<users, perms, since>> /\ req[r].pc # "off"
  BY Zenon DEF activateSessionTools, Alone, db
<1>2. CASE Goto(r, AfterActivation(r))
  BY <1>1, <1>2, AfterActivationIsSound, GotoMoves, MovingOn DEF Same
<1>3. ASSUME NEW new, req' = [req EXCEPT ![r].pc = "add", ![r].adding = new]
      PROVE  Shape' /\ AllSound'
  <2>1. /\ req'[r] = [req[r] EXCEPT !.pc = "add", !.adding = new]
        /\ req' = [s \in Requests |-> req'[s]]
        /\ \A s \in Requests \ {r} : req'[s] = req[s]
    BY <1>3, Zenon DEF Shape
  <2>2. Request(req[r])
    BY Zenon DEF Shape
  <2>3. Request(req'[r])
    BY <2>1, <2>2, Zenon DEF Request, Fields
  <2>4. Same(req'[r], req[r]) /\ req'[r].pc = "add"
    BY <2>1, <2>2 DEF Request, Fields, Same
  <2>5. Stages(req'[r]) /\ Read(req'[r], since[r])
    BY <2>4, Zenon DEF Stages, Read
  <2> QED
    BY <1>1, <2>1, <2>3, <2>4, <2>5, MovingOn, Zenon DEF Moved
<1> QED
  BY <1>2, <1>3 DEF activateSessionTools

LEMMA AddingIsSound ==
    ASSUME Shape, AllSound, NEW r \in Requests, AddSessionTools(r)
    PROVE  Shape' /\ AllSound'
<1>1. UNCHANGED <<users, perms, since>> /\ req[r].pc # "off"
  BY Zenon DEF AddSessionTools, Alone, db
<1>2. /\ req'[r] = [req[r] EXCEPT !.pc = AfterActivation(r), !.adding = {}]
      /\ req' = [s \in Requests |-> req'[s]]
      /\ \A s \in Requests \ {r} : req'[s] = req[s]
  BY Zenon DEF Shape, AddSessionTools
<1>3. Request(req[r])
  BY Zenon DEF Shape
<1>4. Request(req'[r])
  BY <1>2, <1>3, Zenon DEF Request, Fields
<1>5. Same(req'[r], req[r]) /\ req'[r].pc = AfterActivation(r)
  BY <1>2, <1>3 DEF Request, Fields, Same
<1> QED
  BY <1>1, <1>2, <1>4, <1>5, AfterActivationIsSound, MovingOn, Zenon DEF Moved, Same

LEMMA NextStepIsSound ==
    ASSUME Shape, AllSound, NEW r \in Requests, NextStep(r)
    PROVE  Shape' /\ AllSound'
<1>1. UNCHANGED <<users, perms, since>> /\ req[r].pc = "next"
  BY Zenon DEF NextStep, Quiet, Alone, db
<1>2. req[r].kind = "execute"
  BY <1>1, Zenon DEF AllSound, Sound, Stages
<1>3. CASE Goto(r, "role")
  <2>1. Stages(req'[r]) /\ Read(req'[r], since[r])
    BY <1>2, <1>3, GotoMoves DEF Stages, Read, Same, Asking
  <2> QED
    BY <1>1, <1>3, <2>1, GotoMoves, MovingOn
<1>4. CASE req' = [req EXCEPT ![r].steps = Tail(@)]
  <2>1. /\ req'[r] = [req[r] EXCEPT !.steps = Tail(@)]
        /\ req' = [s \in Requests |-> req'[s]]
        /\ \A s \in Requests \ {r} : req'[s] = req[s]
    BY <1>4, Zenon DEF Shape
  <2>2. Request(req[r])
    BY Zenon DEF Shape
  <2>3. Request(req'[r])
    BY <2>1, <2>2, Zenon DEF Request, Fields
  <2>4. Same(req'[r], req[r]) /\ req'[r].pc = "next"
    BY <1>1, <2>1, <2>2, Zenon DEF Request, Fields, Same
  <2>5. Stages(req'[r]) /\ Read(req'[r], since[r])
    BY <1>2, <2>4, Zenon DEF Stages, Read, Same
  <2> QED
    BY <1>1, <2>1, <2>3, <2>4, <2>5, MovingOn, Zenon DEF Moved
<1> QED
  BY <1>3, <1>4 DEF NextStep

LEMMA FinishedIsSound ==
    ASSUME Shape, AllSound, NEW r \in Requests, Finished(r)
    PROVE  Shape' /\ AllSound'
<1>1. UNCHANGED <<users, perms>> /\ Done(r)
  BY Zenon DEF Finished, Quiet, Alone, db
<1> QED
  BY <1>1, DoneMoves, Zenon

(* The role that is read is in the request's history, and so are the       *)
(* permissions.                                                            *)
LEMMA RoleIsSound ==
    ASSUME Shape, AllSound, NEW r \in Requests, GetByOIDCSub(r)
    PROVE  Shape' /\ AllSound'
<1>1. UNCHANGED <<users, perms, since>> /\ req[r].pc = "role" /\ req[r].kind # "list"
  BY Zenon DEF GetByOIDCSub, Quiet, Alone, db
<1>2. req[r].kind \in Asking
  BY <1>1, Zenon DEF AllSound, Sound, Stages
<1>3. req[r].caller \in Users => users[req[r].caller] \in since[r].roles
  BY <1>1, <1>2, Zenon DEF AllSound, Seen
<1>4. CASE Over(r, <<>>)
  BY <1>1, <1>4, OverIsSound
<1>5. ASSUME NEW to, Goto(r, to), to # "deny",
             to = IF req[r].caller \in Keys THEN "call" ELSE RoleDecides(users[req[r].caller])
      PROVE  Shape' /\ AllSound'
  <2>1. to \in {"call", "permission"}
    BY <1>5, Zenon DEF RoleDecides
  <2>2. Stages(req'[r])
    BY <1>1, <1>2, <1>5, <2>1, GotoMoves DEF Stages, Same
  <2>3. req[r].caller \in Users
          => (to = "call" => users[req[r].caller] = "admin")
             /\ (to = "permission" => users[req[r].caller] = "user")
    BY <1>5, BoundsAssumption, Zenon DEF RoleDecides
  <2>4. Read(req'[r], since[r])
    BY <1>1, <1>3, <1>5, <2>3, GotoMoves DEF Read, Same, MayCall
  <2> QED
    BY <1>1, <1>5, <2>2, <2>4, GotoMoves, MovingOn
<1> QED
  BY <1>4, <1>5 DEF GetByOIDCSub

LEMMA PermissionIsSound ==
    ASSUME Shape, AllSound, NEW r \in Requests, HasToolPermission(r)
    PROVE  Shape' /\ AllSound'
<1>1. UNCHANGED <<users, perms, since>> /\ req[r].pc = "permission" /\ req[r].kind # "list"
  BY Zenon DEF HasToolPermission, Quiet, Alone, db
<1>2. req[r].kind \in Asking
  BY <1>1, Zenon DEF AllSound, Sound, Stages
<1>3. req[r].caller \in Users
        => "user" \in since[r].roles /\ perms[req[r].caller] \subseteq since[r].granted
  BY <1>1, <1>2, Zenon DEF AllSound, Sound, Read, Seen
<1>4. CASE Over(r, <<>>)
  BY <1>1, <1>4, OverIsSound, Zenon
<1>5. CASE Head(req[r].steps).tool \in perms[req[r].caller] /\ Goto(r, "call")
  <2>1. Stages(req'[r])
    BY <1>1, <1>2, <1>5, GotoMoves DEF Stages, Same
  <2>2. Read(req'[r], since[r])
    BY <1>3, <1>5, GotoMoves, Zenon DEF Read, Same, MayCall
  <2> QED
    BY <1>1, <1>5, <2>1, <2>2, GotoMoves, MovingOn, Zenon
<1> QED
  BY <1>4, <1>5, Zenon DEF HasToolPermission

LEMMA RouteIsSound ==
    ASSUME Shape, AllSound, NEW r \in Requests, Route(r)
    PROVE  Shape' /\ AllSound'
<1> DEFINE t == Head(req[r].steps).tool
<1>1. UNCHANGED <<users, perms, since>> /\ req[r].pc = "call"
  BY Zenon DEF Route, Quiet, Alone, db
<1>2. req[r].caller \in Users => MayCall(since[r], t)
  BY <1>1, Zenon DEF AllSound, Sound, Read
<1>3. CASE Over(r, <<>>)
  BY <1>1, <1>3, OverIsSound, Zenon
<1>4. CASE t \in Tools /\ InScope(req[r].scope, t) /\ Over(r, <<t>>)
  <2> HIDE DEF t
  <2> QED
    BY <1>1, <1>2, <1>4, OverIsSound, Zenon
<1> QED
  BY <1>3, <1>4, Zenon DEF Route

LEMMA ShownIsSound ==
    ASSUME Shape, AllSound, NEW r \in Requests, UNCHANGED <<users, perms, since>>,
           req[r].pc # "off", NEW ts, Shown(r, ts),
           \A t \in ts : req[r].caller \in Users => MaySee(since[r], t)
    PROVE  Shape' /\ AllSound'
<1>1. /\ req'[r] = [req[r] EXCEPT !.pc = "end", !.shown = IF progressive THEN {} ELSE ts]
      /\ req' = [s \in Requests |-> req'[s]]
      /\ \A s \in Requests \ {r} : req'[s] = req[s]
  BY Zenon DEF Shape, Shown
<1>2. Request(req[r])
  BY Zenon DEF Shape
<1>3. Request(req'[r])
  BY <1>1, <1>2, Zenon DEF Request, Fields
<1>4. /\ req'[r].pc = "end" /\ req'[r].shown \subseteq ts
      /\ req'[r].caller = req[r].caller /\ req'[r].scope = req[r].scope
      /\ req'[r].kind = req[r].kind /\ req'[r].made = req[r].made
  BY <1>1, <1>2 DEF Request, Fields
<1>5. Stages(req'[r]) /\ Read(req'[r], since[r])
  BY <1>4, Zenon DEF Stages, Read
<1>6. Entitled(req'[r], since[r])
  BY <1>4, Zenon DEF AllSound, Sound, Entitled
<1>7. Seen(req'[r], since[r], users, perms)
  BY <1>4, Zenon DEF AllSound, Seen
<1>8. since' = [s \in Requests |-> since'[s]] /\ History(since'[r])
  BY Zenon DEF Shape
<1> QED
  BY <1>1, <1>3, <1>5, <1>6, <1>7, <1>8, OneRequestMoves DEF Sound, Moved

LEMMA RoleFilterIsSound ==
    ASSUME Shape, AllSound, NEW r \in Requests, applyRoleFilter(r)
    PROVE  Shape' /\ AllSound'
<1>1. UNCHANGED <<users, perms, since>> /\ req[r].pc = "role" /\ req[r].kind = "list"
  BY Zenon DEF applyRoleFilter, Quiet, Alone, db
<1>2. req[r].caller \in Users => users[req[r].caller] \in since[r].roles
  BY <1>1, Zenon DEF AllSound, Seen, Asking
<1>3. CASE (req[r].caller \in Users => users[req[r].caller] = "admin") /\ Shown(r, Tools)
  <2>1. \A t \in Tools : req[r].caller \in Users => MaySee(since[r], t)
    BY <1>2, <1>3 DEF MaySee
  <2> QED
    BY <1>1, <1>3, <2>1, ShownIsSound
<1>4. CASE users[req[r].caller] \in {"user", "viewer"} /\ Goto(r, "permission")
  <2>1. Stages(req'[r])
    BY <1>1, <1>4, GotoMoves DEF Stages, Same, Asking
  <2>2. Read(req'[r], since[r])
    BY <1>1, <1>2, <1>4, GotoMoves DEF Read, Same
  <2> QED
    BY <1>1, <1>4, <2>1, <2>2, GotoMoves, MovingOn
<1>5. CASE Shown(r, {})
  BY <1>1, <1>5, ShownIsSound
<1> QED
  BY <1>3, <1>4, <1>5 DEF applyRoleFilter

LEMMA FilterIsSound ==
    ASSUME Shape, AllSound, NEW r \in Requests, filterPermitted(r)
    PROVE  Shape' /\ AllSound'
<1>1. UNCHANGED <<users, perms, since>> /\ req[r].pc = "permission" /\ req[r].kind = "list"
  BY Zenon DEF filterPermitted, Quiet, Alone, db
<1>2. req[r].caller \in Users => /\ {"user", "viewer"} \cap since[r].roles # {}
                                 /\ perms[req[r].caller] \subseteq since[r].granted
  BY <1>1, Zenon DEF AllSound, Sound, Read, Seen, Asking
<1>3. \A t \in perms[req[r].caller] : req[r].caller \in Users => MaySee(since[r], t)
  BY <1>2, Zenon DEF MaySee
<1>4. CASE Shown(r, perms[req[r].caller])
  BY <1>1, <1>3, <1>4, ShownIsSound
<1>5. CASE Shown(r, {})
  BY <1>1, <1>5, ShownIsSound
<1> QED
  BY <1>4, <1>5, Zenon DEF filterPermitted

-----------------------------------------------------------------------------
(* Steps of the database keep the histories up to date.                    *)

LEMMA WitnessKeepsSound ==
    ASSUME Shape, AllSound, UNCHANGED req, Witness,
           users' = [u \in Users |-> users'[u]], perms' = [u \in Users |-> perms'[u]]
    PROVE  Shape' /\ AllSound'
<1>1. since' = [r \in Requests |-> since'[r]]
  BY Zenon DEF Witness
<1>2. ASSUME NEW r \in Requests
      PROVE  /\ History(since'[r])
             /\ Sound(req[r], since'[r]) /\ Seen(req[r], since'[r], users', perms')
  <2>1. History(since[r]) /\ Sound(req[r], since[r])
    BY Zenon DEF Shape, AllSound
  <2>2. CASE req[r].pc = "off"
    <3>1. since'[r] = since[r]
      BY <2>2, Zenon DEF Witness
    <3> QED
      BY <2>1, <2>2, <3>1 DEF Seen
  <2>3. CASE req[r].pc # "off"
    <3> DEFINE now == Now(req[r].caller, req[r].kind, req[r].level)'
    <3>1. since'[r] = Both(since[r], now)
      BY <2>3, Zenon DEF Witness
    <3>2. (req[r].caller \in Users /\ req[r].kind \in Asking)
            => now.roles = {users'[req[r].caller]} /\ now.granted = perms'[req[r].caller]
      BY Zenon DEF Now, Asking
    <3> HIDE DEF now
    <3>3. DOMAIN since[r] = {"roles", "granted", "safe"}
      BY <2>1, Zenon DEF History
    <3>4. since'[r] = [f \in {"roles", "granted", "safe"} |-> since[r][f] \cup now[f]]
      BY <3>1, <3>3 DEF Both
    <3>5. History(since'[r])
      BY <3>4, Zenon DEF History
    <3>6. /\ since'[r].roles = since[r].roles \cup now.roles
          /\ since'[r].granted = since[r].granted \cup now.granted
      BY <3>4, Zenon
    <3>7. Seen(req[r], since'[r], users', perms')
      BY <3>2, <3>6 DEF Seen
    <3>8. \A t : /\ MayCall(since[r], t) => MayCall(since'[r], t)
                 /\ MaySee(since[r], t) => MaySee(since'[r], t)
      BY <3>6, Zenon DEF MayCall, MaySee
    <3>9. Entitled(req[r], since'[r])
      BY <2>1, <3>8 DEF Sound, Entitled
    <3>10. Read(req[r], since'[r])
      BY <2>1, <3>6, <3>8 DEF Sound, Read
    <3> QED
      BY <2>1, <3>5, <3>7, <3>9, <3>10 DEF Sound
  <2> QED
    BY <2>2, <2>3
<1>3. Shape'
  BY <1>1, <1>2 DEF Shape
<1>4. AllSound'
  BY <1>2, Zenon DEF AllSound
<1> QED
  BY <1>3, <1>4

LEMMA AdministrationIsSound ==
    ASSUME Shape, AllSound,
           \/ \E u \in Users : autoRegisterOIDCUser(u)
           \/ \E e \in DOMAIN Editors :
                \/ \E u \in Users, role \in NewRoles : HandleUserRoleUpdate(e, u, role)
                \/ \E u \in Users, ts \in Grants :
                    \/ replaceUserToolPermissions(e, u, ts)
                    \/ HandleUserToolsAdd(e, u, ts) \/ HandleUserToolsRemove(e, u, ts)
                \/ WritePermissions(e)
                \/ \E t \in Tools, level \in Levels : Classify(e, t, level)
           \/ \E k \in Keys :
                \/ handleCreate(k) \/ handleRevoke(k)
                \/ apikeyCreateCommand(k) \/ apikeyRevokeCommand(k) \/ remoteAPIKeyCreate(k)
    PROVE  Shape' /\ AllSound'
<1>0. users = [u \in Users |-> users[u]] /\ perms = [u \in Users |-> perms[u]]
  BY Zenon DEF Shape
<1>1. ASSUME UNCHANGED <<req, since, users, perms>> PROVE Shape' /\ AllSound'
  BY <1>1, Zenon DEF Shape, AllSound
<1>2. ASSUME NEW u \in Users, autoRegisterOIDCUser(u) PROVE Shape' /\ AllSound'
  <2>1. users' = [v \in Users |-> users'[v]]
    BY <1>0, <1>2 DEF autoRegisterOIDCUser, Upsert
  <2>2. UNCHANGED <<req, perms>> /\ Witness
    BY <1>2 DEF autoRegisterOIDCUser
  <2> QED
    BY <1>0, <2>1, <2>2, WitnessKeepsSound
<1>3. ASSUME NEW e, NEW u \in Users, NEW role, HandleUserRoleUpdate(e, u, role)
      PROVE  Shape' /\ AllSound'
  <2>1. users' = [v \in Users |-> users'[v]]
    BY <1>0, <1>3, Zenon DEF HandleUserRoleUpdate
  <2>2. UNCHANGED <<req, perms>> /\ Witness
    BY <1>3, Zenon DEF HandleUserRoleUpdate, Others
  <2> QED
    BY <1>0, <2>1, <2>2, WitnessKeepsSound, Zenon
<1>4. ASSUME NEW e, NEW u \in Users, NEW ts, replaceUserToolPermissions(e, u, ts)
      PROVE  Shape' /\ AllSound'
  <2>1. perms' = [v \in Users |-> perms'[v]]
    BY <1>0, <1>4, Zenon DEF replaceUserToolPermissions, SetToolPermissions
  <2>2. UNCHANGED <<req, users>> /\ Witness
    BY <1>4, Zenon DEF replaceUserToolPermissions, Others
  <2> QED
    BY <1>0, <2>1, <2>2, WitnessKeepsSound
<1>5. ASSUME NEW e, NEW u, NEW ts, HandleUserToolsAdd(e, u, ts) \/ HandleUserToolsRemove(e, u, ts)
      PROVE  Shape' /\ AllSound'
  BY <1>1, <1>5 DEF HandleUserToolsAdd, HandleUserToolsRemove, ReadPermissions, Others, db
<1>6. ASSUME NEW e, WritePermissions(e) PROVE Shape' /\ AllSound'
  <2>1. perms' = [v \in Users |-> perms'[v]]
    BY <1>0, <1>6 DEF WritePermissions, SetToolPermissions
  <2>2. UNCHANGED <<req, users>> /\ Witness
    BY <1>6, Zenon DEF WritePermissions, Others
  <2> QED
    BY <1>0, <2>1, <2>2, WitnessKeepsSound
<1>7. ASSUME NEW e, NEW t, NEW level, Classify(e, t, level) PROVE Shape' /\ AllSound'
  <2>1. UNCHANGED <<req, users, perms>> /\ Witness
    BY <1>7, Zenon DEF Classify, Others
  <2> QED
    BY <1>0, <2>1, WitnessKeepsSound
<1>8. ASSUME NEW k, NEW scope, Create(k, scope) \/ Revoke(k) PROVE Shape' /\ AllSound'
  BY <1>1, <1>8, Zenon DEF Create, Revoke, Others
<1>9. ASSUME NEW k \in Keys,
             \/ handleCreate(k) \/ handleRevoke(k)
             \/ apikeyCreateCommand(k) \/ apikeyRevokeCommand(k) \/ remoteAPIKeyCreate(k)
      PROVE  Shape' /\ AllSound'
  BY <1>8, <1>9, Zenon DEF handleCreate, handleRevoke, apikeyCreateCommand, apikeyRevokeCommand,
     remoteAPIKeyCreate
<1> QED
  BY <1>2, <1>3, <1>4, <1>5, <1>6, <1>7, <1>9, Zenon

LEMMA StepIsSound == Shape /\ AllSound /\ [ANext]_avars => Shape' /\ AllSound'
<1>1. Shape /\ AllSound /\ UNCHANGED avars => Shape' /\ AllSound'
  BY Zenon DEF avars, db, Shape, AllSound
<1> QED
  BY <1>1, HandleIsSound, SearchIsSound, PlanIsSound, ActivationIsSound, AddingIsSound,
     NextStepIsSound, FinishedIsSound, RoleIsSound, PermissionIsSound, RouteIsSound,
     RoleFilterIsSound, FilterIsSound, AdministrationIsSound, Zenon DEF ANext

(* However roles, permissions and keys change between the reads of a       *)
(* request and its call, every call that leaves for a backend was allowed  *)
(* by a role and a permission that held at some time since the request     *)
(* came, stays in the scope of its key, and tools/list shows a subject     *)
(* only its own tools (checkToolPermission, applyRoleFilter, Router.Route).*)
THEOREM CallsAreEntitled == ASpec => []CallsWereEntitled
<1>1. Shape /\ AllSound => CallsWereEntitled
  BY SoundImpliesEntitled, Zenon
<1> QED
  BY <1>1, InitSound, StepIsSound, PTL DEF ASpec

-----------------------------------------------------------------------------
(* Roles.                                                                  *)

LEMMA RequestsKeepRoles ==
    ASSUME NEW r \in Requests,
           \/ Handle(r) \/ SearchTools(r) \/ GeneratePlan(r)
           \/ activateSessionTools(r) \/ AddSessionTools(r) \/ NextStep(r) \/ Finished(r)
           \/ GetByOIDCSub(r) \/ HasToolPermission(r) \/ Route(r)
           \/ applyRoleFilter(r) \/ filterPermitted(r)
    PROVE  UNCHANGED users
<1>1. Quiet \/ Alone => UNCHANGED users
  BY SMT DEF Quiet, Alone, db
<1>2. ASSUME Handle(r) PROVE UNCHANGED users
  <2>1. ASSUME NEW h, NEW kind, NEW level, NEW steps, Arrive(r, h, kind, level, steps)
        PROVE  UNCHANGED users
    BY <2>1, SMT DEF Arrive, db
  <2> QED
    BY <1>2, <2>1, Zenon DEF Handle
<1>3. CASE SearchTools(r) \/ GeneratePlan(r)
  BY <1>1, <1>3, Zenon DEF SearchTools, GeneratePlan
<1>4. CASE activateSessionTools(r) \/ AddSessionTools(r) \/ NextStep(r) \/ Finished(r)
  BY <1>1, <1>4, Zenon DEF activateSessionTools, AddSessionTools, NextStep, Finished
<1>5. CASE GetByOIDCSub(r) \/ HasToolPermission(r) \/ Route(r)
  BY <1>1, <1>5, Zenon DEF GetByOIDCSub, HasToolPermission, Route
<1>6. CASE applyRoleFilter(r) \/ filterPermitted(r)
  BY <1>1, <1>6, Zenon DEF applyRoleFilter, filterPermitted
<1> QED
  BY <1>2, <1>3, <1>4, <1>5, <1>6, Zenon

LEMMA StepKeepsRoles ==
    ASSUME Shape, [ANext]_avars, NEW u \in Users, users[u] # Unregistered, users'[u] # users[u]
    PROVE  writes' = writes + 1 /\ \E e \in DOMAIN Editors : AdminAuthMiddleware(e)
<1>1. ASSUME NEW v \in Users, autoRegisterOIDCUser(v) PROVE users'[u] = users[u]
  <2>1. users = [w \in Users |-> users[w]]
    BY Zenon DEF Shape
  <2> QED
    BY <1>1, <2>1 DEF autoRegisterOIDCUser, Upsert
<1>2. ASSUME NEW e, NEW v, NEW role, HandleUserRoleUpdate(e, v, role)
      PROVE  writes' = writes + 1 /\ AdminAuthMiddleware(e)
  BY <1>2, Zenon DEF HandleUserRoleUpdate, Write
<1>3. ASSUME NEW e, NEW v, NEW ts,
             replaceUserToolPermissions(e, v, ts) \/ HandleUserToolsAdd(e, v, ts)
             \/ HandleUserToolsRemove(e, v, ts)
      PROVE  users' = users
  BY <1>3, Zenon DEF replaceUserToolPermissions, HandleUserToolsAdd, HandleUserToolsRemove,
     ReadPermissions, db
<1>4. ASSUME NEW e, WritePermissions(e) PROVE users' = users
  BY <1>4, Zenon DEF WritePermissions
<1>5. ASSUME NEW e, NEW t, NEW level, Classify(e, t, level) PROVE users' = users
  BY <1>5, Zenon DEF Classify
<1>6. ASSUME NEW k, handleCreate(k) \/ handleRevoke(k) \/ apikeyCreateCommand(k)
                    \/ apikeyRevokeCommand(k) \/ remoteAPIKeyCreate(k)
      PROVE  users' = users
  BY <1>6, Zenon DEF handleCreate, handleRevoke, apikeyCreateCommand, apikeyRevokeCommand,
     remoteAPIKeyCreate, Create, Revoke
<1>7. UNCHANGED avars => users' = users
  BY Zenon DEF avars, db
<1> QED
  BY <1>1, <1>2, <1>3, <1>4, <1>5, <1>6, <1>7, RequestsKeepRoles, Zenon DEF ANext

(* The registration in the background of every authenticated request       *)
(* (autoRegisterOIDCUser, an upsert) changes the role of no subject that   *)
(* has one, whatever it overlaps with: that takes a write of someone with  *)
(* the dashboard's admin scope.                                            *)
THEOREM RolesAreTheAdmins == ASpec => RolesChangeOnlyByAdmins
<1>1. Shape /\ AllSound /\ [ANext]_avars
        => [\A u \in Users : users[u] \notin {Unregistered, users'[u]} =>
              writes' = writes + 1 /\ \E e \in DOMAIN Editors : AdminAuthMiddleware(e)]_avars
  BY StepKeepsRoles, Zenon
<1> QED
  BY <1>1, InitSound, StepIsSound, PTL DEF ASpec, RolesChangeOnlyByAdmins

-----------------------------------------------------------------------------
(* Loops over slices, and what they leave.                                 *)

LEMMA Least ==
    ASSUME NEW T, T \subseteq Nat, T # {}
    PROVE  \E x \in T : \A y \in T : x <= y
<1>1. IsWellFoundedOn({ss \in Nat \X Nat : ss[1] < ss[2]}, Nat)
  BY NatLessThanWellFounded, Zenon DEF OpToRel
<1>2. PICK x \in T : \A y \in T : ~ (<<y, x>> \in {ss \in Nat \X Nat : ss[1] < ss[2]})
  BY <1>1, WFMin, Zenon
<1>3. \A y \in T : ~(y < x)
  BY <1>2, Zenon
<1> QED
  BY <1>3

LEMMA Induction ==
    ASSUME NEW T, 0 \in T, \A n \in Nat : n \in T => n + 1 \in T
    PROVE  Nat \subseteq T
<1> SUFFICES ASSUME Nat \ T # {} PROVE FALSE
  BY Zenon
<1>1. PICK x \in Nat \ T : \A y \in Nat \ T : x <= y
  BY Least, Zenon
<1>2. x # 0 /\ x - 1 \in Nat
  BY <1>1
<1>3. x - 1 \in T
  BY <1>1, <1>2
<1> QED
  BY <1>1, <1>2, <1>3

LEMMA MinIsLeast ==
    ASSUME NEW T, T \subseteq Nat, T # {}
    PROVE  Min(T) \in T /\ \A y \in T : Min(T) <= y
  BY Least, Zenon DEF Min

KeptUpTo(f, s, keep, n) ==
    f = [i \in 0..n |-> IF i = 0 THEN <<>>
           ELSE IF s[i] \in keep THEN Append(f[i - 1], s[i]) ELSE f[i - 1]]

LEMMA KeptExists ==
    ASSUME NEW s, NEW keep, NEW n \in Nat
    PROVE  \E f : KeptUpTo(f, s, keep, n)
<1> DEFINE Next(v, i) == IF s[i] \in keep THEN Append(v, s[i]) ELSE v
           Is(f, m) == f = [i \in 0..m |-> IF i = 0 THEN <<>> ELSE Next(f[i - 1], i)]
           T == {m \in Nat : \E f : Is(f, m)}
<1>1. 0 \in T
  <2> HIDE DEF Next
  <2>1. Is([i \in 0..0 |-> <<>>], 0)
    OBVIOUS
  <2> QED
    BY <2>1, Zenon
<1>2. ASSUME NEW m \in Nat, m \in T PROVE m + 1 \in T
  <2>1. PICK f : Is(f, m)
    BY <1>2, Zenon
  <2> DEFINE g == [i \in 0..(m + 1) |-> IF i <= m THEN f[i] ELSE Next(f[m], i)]
  <2> HIDE DEF Next
  <2>2. \A i \in 0..m : f[i] = IF i = 0 THEN <<>> ELSE Next(f[i - 1], i)
    BY <2>1, Zenon
  <2>3. \A i \in 0..(m + 1) : g[i] = IF i = 0 THEN <<>> ELSE Next(g[i - 1], i)
    <3> SUFFICES ASSUME NEW i \in 0..(m + 1)
                 PROVE  g[i] = IF i = 0 THEN <<>> ELSE Next(g[i - 1], i)
      BY Zenon
    <3>1. CASE i = 0
      BY <2>2, <3>1
    <3>2. CASE i # 0 /\ i <= m
      <4>1. g[i] = f[i] /\ g[i - 1] = f[i - 1]
        BY <3>2
      <4> QED
        BY <2>2, <3>2, <4>1
    <3>3. CASE i = m + 1
      <4>1. g[i] = Next(f[m], i) /\ g[i - 1] = f[m] /\ i # 0
        BY <3>3
      <4> QED
        BY <4>1, Zenon
    <3> QED
      BY <3>1, <3>2, <3>3
  <2>4. Is(g, m + 1)
    BY <2>3, Zenon
  <2> HIDE DEF g, Is
  <2> QED
    BY <2>4
<1> HIDE DEF T
<1>3. n \in T
  BY <1>1, <1>2, Induction, Zenon
<1> QED
  BY <1>3, Zenon DEF T, KeptUpTo

LEMMA KeptFacts ==
    ASSUME NEW S, NEW s \in Seq(S), NEW keep
    PROVE  Kept(s, keep) \in Seq(S \cap keep)
<1> DEFINE k == CHOOSE f : KeptUpTo(f, s, keep, Len(s))
<1>1. Len(s) \in Nat /\ \A i \in 1..Len(s) : s[i] \in S
  OBVIOUS
<1>2. k = [i \in 0..Len(s) |-> IF i = 0 THEN <<>>
             ELSE IF s[i] \in keep THEN Append(k[i - 1], s[i]) ELSE k[i - 1]]
  <2>1. KeptUpTo(k, s, keep, Len(s))
    BY <1>1, KeptExists, Zenon
  <2> QED
    BY <2>1, Zenon DEF KeptUpTo
<1>3. Kept(s, keep) = k[Len(s)]
  BY Zenon DEF Kept, KeptUpTo
<1> DEFINE T == {n \in Nat : n <= Len(s) => k[n] \in Seq(S \cap keep)}
<1> HIDE DEF k
<1>4. 0 \in T
  BY <1>1, <1>2
<1>5. ASSUME NEW n \in Nat, n \in T PROVE n + 1 \in T
  <2> SUFFICES ASSUME n + 1 <= Len(s) PROVE k[n + 1] \in Seq(S \cap keep)
    OBVIOUS
  <2>1. k[n] \in Seq(S \cap keep) /\ s[n + 1] \in S
    BY <1>1, <1>5
  <2>2. k[n + 1] = IF s[n + 1] \in keep THEN Append(k[n], s[n + 1]) ELSE k[n]
    <3>1. n + 1 \in 0..Len(s) /\ n + 1 # 0 /\ (n + 1) - 1 = n
      BY <1>1
    <3> QED
      BY <1>2, <3>1, Zenon
  <2> QED
    BY <2>1, <2>2
<1> HIDE DEF T
<1>6. Len(s) \in T
  BY <1>1, <1>4, <1>5, Induction, Zenon
<1> QED
  BY <1>1, <1>3, <1>6 DEF T

NamesUpTo(f, s, n) ==
    f = [i \in 0..n |-> IF i = 0 THEN <<>>
           ELSE IF s[i].tool \in Range(f[i - 1]) THEN f[i - 1] ELSE Append(f[i - 1], s[i].tool)]

LEMMA NamesExist ==
    ASSUME NEW s, NEW n \in Nat
    PROVE  \E f : NamesUpTo(f, s, n)
<1> DEFINE Next(v, i) == IF s[i].tool \in Range(v) THEN v ELSE Append(v, s[i].tool)
           Is(f, m) == f = [i \in 0..m |-> IF i = 0 THEN <<>> ELSE Next(f[i - 1], i)]
           T == {m \in Nat : \E f : Is(f, m)}
<1>1. 0 \in T
  <2> HIDE DEF Next
  <2>1. Is([i \in 0..0 |-> <<>>], 0)
    OBVIOUS
  <2> QED
    BY <2>1, Zenon
<1>2. ASSUME NEW m \in Nat, m \in T PROVE m + 1 \in T
  <2>1. PICK f : Is(f, m)
    BY <1>2
  <2> DEFINE g == [i \in 0..(m + 1) |-> IF i <= m THEN f[i] ELSE Next(f[m], i)]
  <2> HIDE DEF Next
  <2>2. \A i \in 0..m : f[i] = IF i = 0 THEN <<>> ELSE Next(f[i - 1], i)
    BY <2>1, Zenon
  <2>3. \A i \in 0..(m + 1) : g[i] = IF i = 0 THEN <<>> ELSE Next(g[i - 1], i)
    <3> SUFFICES ASSUME NEW i \in 0..(m + 1)
                 PROVE  g[i] = IF i = 0 THEN <<>> ELSE Next(g[i - 1], i)
      BY Zenon
    <3>1. CASE i = 0
      BY <2>2, <3>1
    <3>2. CASE i # 0 /\ i <= m
      <4>1. g[i] = f[i] /\ g[i - 1] = f[i - 1]
        BY <3>2
      <4> QED
        BY <2>2, <3>2, <4>1
    <3>3. CASE i = m + 1
      <4>1. g[i] = Next(f[m], i) /\ g[i - 1] = f[m] /\ i # 0
        BY <3>3
      <4> QED
        BY <4>1, Zenon
    <3> QED
      BY <3>1, <3>2, <3>3
  <2>4. Is(g, m + 1)
    BY <2>3, Zenon
  <2> HIDE DEF g, Is
  <2> QED
    BY <2>4
<1> HIDE DEF T
<1>3. n \in T
  BY <1>1, <1>2, Induction, Zenon
<1> QED
  BY <1>3, Zenon DEF T, NamesUpTo

LEMMA NamesAreASequence ==
    ASSUME NEW S, NEW s \in Seq(S)
    PROVE  extractToolNames(s) \in Seq({x.tool : x \in S})
<1> DEFINE k == CHOOSE f : NamesUpTo(f, s, Len(s))
           N == {x.tool : x \in S}
<1>1. Len(s) \in Nat /\ \A i \in 1..Len(s) : s[i] \in S
  OBVIOUS
<1>2. k = [i \in 0..Len(s) |-> IF i = 0 THEN <<>>
             ELSE IF s[i].tool \in Range(k[i - 1]) THEN k[i - 1]
             ELSE Append(k[i - 1], s[i].tool)]
  <2>1. NamesUpTo(k, s, Len(s))
    BY <1>1, NamesExist, Zenon
  <2> QED
    BY <2>1, Zenon DEF NamesUpTo
<1>3. extractToolNames(s) = k[Len(s)]
  BY Zenon DEF extractToolNames, NamesUpTo
<1>4. \A i \in 1..Len(s) : s[i].tool \in N
  BY <1>1, Zenon
<1> HIDE DEF k, N
<1> DEFINE T == {n \in Nat : n <= Len(s) => k[n] \in Seq(N)}
<1>5. 0 \in T
  BY <1>1, <1>2
<1>6. ASSUME NEW n \in Nat, n \in T PROVE n + 1 \in T
  <2> SUFFICES ASSUME n + 1 <= Len(s) PROVE k[n + 1] \in Seq(N)
    OBVIOUS
  <2>1. k[n] \in Seq(N) /\ s[n + 1].tool \in N
    BY <1>1, <1>4, <1>6
  <2>2. k[n + 1] \in {k[n], Append(k[n], s[n + 1].tool)}
    <3>1. n + 1 \in 0..Len(s) /\ n + 1 # 0 /\ (n + 1) - 1 = n
      BY <1>1
    <3> QED
      BY <1>2, <3>1, Zenon
  <2>3. Append(k[n], s[n + 1].tool) \in Seq(N)
    <3> DEFINE t == s[n + 1].tool
    <3> HIDE DEF t
    <3>1. t \in N => Append(k[n], t) \in Seq(N)
      BY <2>1
    <3> QED
      BY <2>1, <3>1, Zenon DEF t
  <2> QED
    BY <2>1, <2>2, <2>3, Zenon
<1> HIDE DEF T
<1>7. Len(s) \in T
  BY <1>1, <1>5, <1>6, Induction, Zenon
<1>8. k[Len(s)] \in Seq(N)
  BY <1>1, <1>7 DEF T
<1> QED
  BY <1>3, <1>8, Zenon DEF N

LEMMA Prefix ==
    ASSUME NEW S, NEW s \in Seq(S), NEW m \in Nat
    PROVE  LET n == Min({Len(s), m}) IN
           /\ n \in Nat /\ n <= m /\ n <= Len(s) /\ (n = Len(s) \/ n = m)
           /\ SubSeq(s, 1, n) \in Seq(S) /\ Len(SubSeq(s, 1, n)) = n
<1> DEFINE n == Min({Len(s), m})
<1>1. Len(s) \in Nat
  OBVIOUS
<1>2. n \in {Len(s), m} /\ n <= Len(s) /\ n <= m
  BY <1>1, MinIsLeast, Zenon
<1> HIDE DEF n
<1>3. SubSeq(s, 1, n) \in Seq(S) /\ Len(SubSeq(s, 1, n)) = n
  BY <1>1, <1>2
<1> QED
  BY <1>1, <1>2, <1>3, Zenon DEF n

LEMMA RangeSize ==
    ASSUME NEW S, NEW s \in Seq(S)
    PROVE  /\ IsFiniteSet(Range(s)) /\ Cardinality(Range(s)) \in Nat
           /\ Cardinality(Range(s)) <= Len(s)
<1>1. Len(s) \in Nat /\ DOMAIN s = 1..Len(s)
  OBVIOUS
<1>2. s \in Surjection(1..Len(s), Range(s))
  BY <1>1 DEF Surjection, Range
<1>3. IsFiniteSet(1..Len(s)) /\ Cardinality(1..Len(s)) = Len(s)
  BY <1>1, FS_Interval
<1>4. IsFiniteSet(Range(s)) /\ Cardinality(Range(s)) <= Cardinality(1..Len(s))
  BY <1>2, <1>3, FS_Surjection, Zenon
<1> QED
  BY <1>3, <1>4, FS_CardinalityType, Zenon

-----------------------------------------------------------------------------
(* Orchestration and activation.  A plan is cut to candidates that the     *)
(* safety level admitted (Planned), and what it admits now is always in    *)
(* the request's history (Screened).  Of the activations of a session only *)
(* the ones that no other overlapped are accounted for (Capped).           *)

AllSteps == UNION {Range(p) : p \in Plans}

Planned(q, h) ==
    /\ q.pc = "activate" => q.steps \in Seq(AllSteps)
    /\ q.kind = "execute" =>
         /\ q.candidates \subseteq h.safe
         /\ q.steps \in Seq({s \in AllSteps : s.tool \in h.safe})
         /\ Range(q.made) \subseteq h.safe
         /\ Len(q.made) + Len(q.steps) <= MaxSteps
         /\ q.pc \in {"search", "chat", "retry"} => q.made = <<>>
         /\ q.pc \in {"role", "permission", "call"} => q.steps # <<>>

Screened(q, h, levels) ==
    (q.pc # "off" /\ q.kind = "execute")
        => {t \in Tools : filterBySafety(q.level, levels[t])} \subseteq h.safe

AllPlanned ==
    \A r \in Requests : Planned(req[r], since[r]) /\ Screened(req[r], since[r], risk)

Adders(reqs, c) == {r \in Requests : reqs[r].pc = "add" /\ reqs[r].caller = c}

Capped ==
    /\ DOMAIN keys \subseteq Keys
    /\ session = [c \in Callers |-> session[c]]
    /\ \A r \in Requests : req[r].pc # "off" => req[r].caller \in Callers
    /\ \A c \in Callers \ overlapped :
         /\ IsFiniteSet(session[c]) /\ Cardinality(session[c]) <= Cap
         /\ \A r \in Adders(req, c) : Cardinality(session[c] \cup req[r].adding) <= Cap
                                     /\ IsFiniteSet(req[r].adding)
         /\ \A r, s \in Adders(req, c) : r = s

LEMMA SeqGrows ==
    ASSUME NEW S, NEW T, S \subseteq T, NEW s \in Seq(S)
    PROVE  s \in Seq(T)
  OBVIOUS

LEMMA RangeOfAppend ==
    ASSUME NEW S, NEW s \in Seq(S), NEW t \in S
    PROVE  Range(Append(s, t)) = Range(s) \cup {t}
<1>1. /\ Append(s, t) \in Seq(S) /\ Len(s) \in Nat
      /\ DOMAIN s = 1..Len(s) /\ DOMAIN Append(s, t) = 1..(Len(s) + 1)
      /\ \A i \in 1..Len(s) : Append(s, t)[i] = s[i]
      /\ Append(s, t)[Len(s) + 1] = t
  OBVIOUS
<1> QED
  BY <1>1 DEF Range

LEMMA StepsAreCounted == MaxSteps \in Nat /\ Cap \in Nat
  BY BoundsAssumption, Zenon

LEMMA TailCounts ==
    ASSUME NEW S, NEW T, NEW s \in Seq(S), NEW made \in Seq(T), NEW m, m \in Nat, s # <<>>,
           Len(made) + Len(s) <= m
    PROVE  /\ Tail(s) \in Seq(S) /\ Len(made) + Len(Tail(s)) <= m
           /\ \A t \in T : Len(Append(made, t)) + Len(Tail(s)) <= m
<1>1. Len(s) \in Nat /\ Len(made) \in Nat /\ Len(s) # 0
  OBVIOUS
<1>2. Tail(s) \in Seq(S) /\ Len(Tail(s)) = Len(s) - 1
  OBVIOUS
<1>3. \A t \in T : Len(Append(made, t)) = Len(made) + 1
  OBVIOUS
<1> QED
  BY <1>1, <1>2, <1>3

LEMMA PlannedAndCapped ==
    ASSUME AllSound, AllPlanned, Capped
    PROVE  OrchestrationStaysSafe /\ SessionCapHolds
<1>1. ASSUME NEW r \in Requests, req[r].kind = "execute"
      PROVE  Len(req[r].made) <= MaxSteps /\ Range(req[r].made) \subseteq since[r].safe
  <2>1. req[r].made \in Seq(Tools)
    BY Zenon DEF AllSound, Sound, Entitled
  <2>2. /\ req[r].steps \in Seq({s \in AllSteps : s.tool \in since[r].safe})
        /\ Range(req[r].made) \subseteq since[r].safe
    BY <1>1, Zenon DEF AllPlanned, Planned
  <2>3. Len(req[r].made) + Len(req[r].steps) <= MaxSteps
    BY <1>1, Zenon DEF AllPlanned, Planned
  <2>4. Len(req[r].made) \in Nat /\ Len(req[r].steps) \in Nat /\ MaxSteps \in Nat
    BY <2>1, <2>2, BoundsAssumption
  <2>5. \A a, b, m \in Nat : a + b <= m => a <= m
    OBVIOUS
  <2>6. Len(req[r].made) <= MaxSteps
    BY <2>3, <2>4, <2>5, Zenon
  <2> QED
    BY <2>2, <2>6, Zenon
<1> QED
  BY <1>1, Zenon DEF Capped, OrchestrationStaysSafe, SessionCapHolds

LEMMA OffIsPlanned ==
    ASSUME NEW h, NEW levels
    PROVE  Planned(Off, h) /\ Screened(Off, h, levels) /\ Off.pc = "off"
  BY Zenon DEF Off, Planned, Screened

LEMMA InitPlanned == AInit => AllPlanned /\ Capped
<1> SUFFICES ASSUME AInit PROVE AllPlanned /\ Capped
  BY Zenon
<1>1. AllPlanned
  BY OffIsPlanned, Zenon DEF AInit, AllPlanned
<1>2. \A c : Adders(req, c) = {}
  BY OffIsPlanned, Zenon DEF AInit, Adders
<1>3. DOMAIN keys \subseteq Keys
  BY DEF AInit
<1>4. Cap \in Nat
  BY BoundsAssumption, Zenon
<1>5. \A c \in Callers : session[c] = {} /\ session = [d \in Callers |-> session[d]]
  BY Zenon DEF AInit
<1>6. \A c \in Callers : IsFiniteSet(session[c]) /\ Cardinality(session[c]) <= Cap
  BY <1>4, <1>5, FS_EmptySet
<1>7. \A r \in Requests : req[r].pc = "off"
  BY OffIsPlanned, Zenon DEF AInit
<1>8. session = [c \in Callers |-> session[c]]
  BY Zenon DEF AInit
<1>9. Capped
  BY <1>2, <1>3, <1>6, <1>7, <1>8, Zenon DEF Capped
<1> QED
  BY <1>1, <1>9, Zenon

(* A step of one request that neither starts nor ends an activation.       *)
LEMMA OneRequestPlans ==
    ASSUME Shape, AllPlanned, Capped, NEW r \in Requests, Moved(r),
           UNCHANGED <<risk, keys, session, overlapped>>,
           \A s \in Requests \ {r} : since'[s] = since[s],
           req[r].pc # "add", req'[r].pc # "add",
           req'[r].pc # "off" => req'[r].caller \in Callers,
           Planned(req'[r], since'[r]), Screened(req'[r], since'[r], risk)
    PROVE  AllPlanned' /\ Capped'
<1>1. AllPlanned'
  BY Zenon DEF AllPlanned, Moved
<1>2. \A s \in Requests : s = r \/ req'[s] = req[s]
  BY Zenon DEF Moved
<1>3. \A c : Adders(req', c) = Adders(req, c) /\ r \notin Adders(req, c)
  BY <1>2, Zenon DEF Adders
<1>4. \A c : \A s \in Adders(req, c) : req'[s] = req[s]
  BY <1>2, <1>3, Zenon DEF Adders
<1>5. \A s \in Requests : req'[s].pc # "off" => req'[s].caller \in Callers
  BY <1>2, Zenon DEF Capped
<1>6. Capped'
  BY <1>3, <1>4, <1>5 DEF Capped
<1> QED
  BY <1>1, <1>6, Zenon

LEMMA DonePlans ==
    ASSUME Shape, AllPlanned, Capped, NEW r \in Requests, Done(r), req[r].pc # "add",
           UNCHANGED <<risk, keys, session, overlapped>>
    PROVE  AllPlanned' /\ Capped'
<1>1. req'[r] = Off /\ since'[r] = Never
  BY Zenon DEF Shape, Done
<1>2. Moved(r)
  BY <1>1, OffIsSound, Zenon DEF Shape, Done, Moved
<1>3. \A s \in Requests \ {r} : since'[s] = since[s]
  BY Zenon DEF Shape, Done
<1> QED
  BY <1>1, <1>2, <1>3, OffIsPlanned, OneRequestPlans, Zenon

(* A step that leaves a request's plan as it is.                           *)
LEMMA PlanCarries ==
    ASSUME Shape, AllPlanned, Capped, NEW r \in Requests, Moved(r), Same(req'[r], req[r]),
           UNCHANGED <<risk, keys, session, overlapped, since>>,
           req[r].pc \notin {"off", "add"}, req'[r].pc \notin {"add", "activate"},
           req[r].kind = "execute" =>
             /\ req'[r].steps = req[r].steps /\ req'[r].candidates = req[r].candidates
             /\ req'[r].pc \in {"search", "chat", "retry"} => req[r].pc \in {"search", "chat", "retry"}
             /\ req'[r].pc \in {"role", "permission", "call"} => req[r].steps # <<>>
    PROVE  AllPlanned' /\ Capped'
<1>1. Planned(req'[r], since[r]) /\ Screened(req'[r], since[r], risk)
  BY Zenon DEF AllPlanned, Planned, Screened, Same
<1>2. req'[r].caller \in Callers
  BY Zenon DEF Capped, Same
<1> QED
  BY <1>1, <1>2, OneRequestPlans, Zenon

-----------------------------------------------------------------------------
(* The steps of a request, again.                                          *)

LEMMA ArrivePlans ==
    ASSUME Shape, AllPlanned, Capped, NEW r \in Requests, NEW h, NEW kind \in AllKinds,
           NEW level, NEW steps, Arrive(r, h, kind, level, steps),
           kind = "schema" => steps \in Seq(AllSteps), kind = "execute" => steps = <<>>
    PROVE  AllPlanned' /\ Capped'
<1> DEFINE c == Caller(h)
           pc == CASE kind \in {"call", "list"} -> "role"
                   [] kind = "schema" -> IF progressive THEN "activate" ELSE "end"
                   [] OTHER -> "search"
           q == [Off EXCEPT !.caller = c, !.scope = ScopeOf(c), !.kind = kind,
                            !.level = level, !.steps = steps, !.pc = pc]
           now == Now(c, kind, level)
<1>1. UNCHANGED <<risk, keys, session, overlapped>> /\ req[r].pc = "off"
  BY Zenon DEF Arrive, db
<1>2. CASE UNCHANGED <<req, since>>
  BY <1>1, <1>2, Zenon DEF AllPlanned, Capped, Activating
<1>3. CASE req' = [req EXCEPT ![r] = q] /\ since' = [since EXCEPT ![r] = now]
  <2>1. c \in Callers
    <3>1. c \in Users \/ c \in DOMAIN keys
      BY Zenon DEF Arrive, Authenticated, Validate, KeyFound
    <3> QED
      BY <3>1, Zenon DEF Callers, Capped
  <2> HIDE DEF c
  <2>2. /\ pc \in {"role", "activate", "end", "search"}
        /\ pc = "activate" => kind = "schema"
        /\ kind = "execute" => pc = "search"
    BY Zenon
  <2> HIDE DEF pc
  <2>3. /\ q.pc = pc /\ q.caller = c /\ q.kind = kind /\ q.level = level /\ q.steps = steps
        /\ q.made = <<>> /\ q.candidates = {}
    BY Zenon DEF Off
  <2>4. Request(q)
    BY Zenon DEF Off, Request, Fields
  <2> HIDE DEF q
  <2>5. req'[r] = q /\ since'[r] = now /\ Moved(r)
        /\ \A s \in Requests \ {r} : since'[s] = since[s]
    BY <1>3, <2>4, Zenon DEF Shape, Moved
  <2>6. Screened(q, now, risk)
    BY <2>3, Zenon DEF Screened, Now
  <2> HIDE DEF now
  <2>7. /\ Range(<<>>) = {} /\ Len(<<>>) + Len(<<>>) <= MaxSteps
        /\ <<>> \in Seq({s \in AllSteps : s.tool \in now.safe})
    BY BoundsAssumption DEF Range
  <2>8. Planned(q, now)
    BY <2>2, <2>3, <2>7, Zenon DEF Planned
  <2> QED
    BY <1>1, <2>1, <2>2, <2>3, <2>5, <2>6, <2>8, OneRequestPlans
<1> QED
  BY <1>2, <1>3, Zenon DEF Arrive

LEMMA PlansAreSteps ==
    ASSUME NEW p \in Plans, NEW tools
    PROVE  /\ p \in Seq(AllSteps)
           /\ Kept(p, Naming(p, tools)) \in Seq({s \in AllSteps : s.tool \in tools})
           /\ Kept(p, Naming(p, tools)) \in Seq(AllSteps)
<1>1. p \in Seq(Range(p)) /\ Range(p) \subseteq AllSteps
  BY BoundsAssumption, Zenon DEF AllSteps
<1>2. p \in Seq(AllSteps)
  BY <1>1
<1>3. Kept(p, Naming(p, tools)) \in Seq(AllSteps \cap Naming(p, tools))
  BY <1>2, KeptFacts, Zenon
<1>4. /\ AllSteps \cap Naming(p, tools) \subseteq {s \in AllSteps : s.tool \in tools}
      /\ AllSteps \cap Naming(p, tools) \subseteq AllSteps
  BY Zenon DEF Naming
<1> QED
  BY <1>2, <1>3, <1>4, SeqGrows, Zenon

LEMMA HandlePlans ==
    ASSUME Shape, AllPlanned, Capped, NEW r \in Requests, Handle(r)
    PROVE  AllPlanned' /\ Capped'
<1>1. {"call", "schema", "list", "plan", "execute"} \subseteq AllKinds
  BY Zenon DEF AllKinds
<1>2. ASSUME NEW h, NEW kind \in AllKinds, NEW level, NEW steps, Arrive(r, h, kind, level, steps),
             kind = "schema" => steps \in Seq(AllSteps), kind = "execute" => steps = <<>>
      PROVE  AllPlanned' /\ Capped'
  BY <1>2, ArrivePlans, Zenon
<1>3. ASSUME NEW h, NEW t, Arrive(r, h, "call", "strict", <<[tool |-> t, approval |-> FALSE]>>)
      PROVE  AllPlanned' /\ Capped'
  BY <1>1, <1>2, <1>3, Zenon
<1>4. ASSUME NEW h, NEW p \in Plans, Arrive(r, h, "schema", "strict", Kept(p, Naming(p, Tools)))
      PROVE  AllPlanned' /\ Capped'
  BY <1>1, <1>2, <1>4, PlansAreSteps, Zenon
<1>5. ASSUME NEW h, Arrive(r, h, "list", "strict", <<>>)
      PROVE  AllPlanned' /\ Capped'
  BY <1>1, <1>2, <1>5, Zenon
<1>6. ASSUME NEW h, NEW kind \in {"plan", "execute"}, NEW level, Arrive(r, h, kind, level, <<>>)
      PROVE  AllPlanned' /\ Capped'
  BY <1>1, <1>2, <1>6, Zenon
<1> QED
  BY <1>3, <1>4, <1>5, <1>6, Zenon DEF Handle

LEMMA SearchPlans ==
    ASSUME Shape, AllPlanned, Capped, NEW r \in Requests, SearchTools(r)
    PROVE  AllPlanned' /\ Capped'
<1>1. UNCHANGED <<risk, keys, session, overlapped>> /\ req[r].pc = "search"
  BY Zenon DEF SearchTools, Quiet, Alone, db
<1>2. CASE Done(r)
  BY <1>1, <1>2, DonePlans, Zenon
<1>3. ASSUME NEW found, NEW unread, NEW more,
             found \subseteq {t \in Tools : filterBySafety(req[r].level, risk[t])} \cup unread,
             more = IF req[r].kind = "execute" THEN unread ELSE {},
             req' = [req EXCEPT ![r].pc = "chat", ![r].candidates = found],
             since' = [since EXCEPT ![r].safe = @ \cup more]
      PROVE  AllPlanned' /\ Capped'
  <2>1. /\ req'[r] = [req[r] EXCEPT !.pc = "chat", !.candidates = found]
        /\ req' = [s \in Requests |-> req'[s]]
        /\ \A s \in Requests \ {r} : req'[s] = req[s]
    BY <1>3, Zenon DEF Shape
  <2>2. /\ since'[r] = [since[r] EXCEPT !.safe = @ \cup more]
        /\ \A s \in Requests \ {r} : since'[s] = since[s]
    BY <1>3, Zenon DEF Shape
  <2>3. Request(req[r]) /\ History(since[r])
    BY Zenon DEF Shape
  <2>4. Request(req'[r])
    BY <2>1, <2>3, Zenon DEF Request, Fields
  <2>5. /\ Same(req'[r], req[r]) /\ req'[r].pc = "chat"
        /\ req'[r].steps = req[r].steps /\ req'[r].candidates = found
    BY <2>1, <2>3 DEF Request, Fields, Same
  <2>6. since'[r].safe = since[r].safe \cup more
    BY <2>2, <2>3, Zenon DEF History
  <2>7. Screened(req[r], since[r], risk) /\ Planned(req[r], since[r])
    BY Zenon DEF AllPlanned
  <2>8. Screened(req'[r], since'[r], risk)
    BY <1>1, <2>5, <2>6, <2>7 DEF Screened, Same
  <2>9. Planned(req'[r], since'[r])
    <3> SUFFICES ASSUME req[r].kind = "execute" PROVE Planned(req'[r], since'[r])
      BY <2>5, Zenon DEF Planned, Same
    <3>1. found \subseteq since'[r].safe
      BY <1>1, <1>3, <2>6, <2>7 DEF Screened
    <3>2. since[r].safe \subseteq since'[r].safe
      BY <2>6, Zenon
    <3>3. {s \in AllSteps : s.tool \in since[r].safe}
            \subseteq {s \in AllSteps : s.tool \in since'[r].safe}
      BY <3>2, Zenon
    <3>4. req[r].steps \in Seq({s \in AllSteps : s.tool \in since'[r].safe})
      BY <2>7, <3>3, SeqGrows, Zenon DEF Planned
    <3> QED
      BY <1>1, <2>5, <2>7, <3>1, <3>2, <3>4, ZenonT(20) DEF Planned, Same
  <2>10. req'[r].caller \in Callers
    BY <1>1, <2>5, Zenon DEF Capped, Same
  <2> QED
    BY <1>1, <2>1, <2>2, <2>4, <2>5, <2>8, <2>9, <2>10, OneRequestPlans, ZenonT(20) DEF Moved
<1>4. ASSUME NEW found \in SUBSET Tools, NEW unread \in SUBSET found
      PROVE  {t \in found : filterBySafety(req[r].level, IF t \in unread THEN "unknown" ELSE risk[t])}
               \subseteq {t \in Tools : filterBySafety(req[r].level, risk[t])} \cup unread
  BY Zenon
<1>5. CASE ~ Done(r)
  <2>1. PICK found \in SUBSET Tools : \E unread \in SUBSET found :
          LET candidates == {t \in found : filterBySafety(req[r].level,
                                              IF t \in unread THEN "unknown" ELSE risk[t])}
          IN /\ req' = [req EXCEPT ![r].pc = "chat", ![r].candidates = candidates]
             /\ since' = [since EXCEPT ![r].safe =
                            @ \cup IF req[r].kind = "execute" THEN unread ELSE {}]
    BY <1>5, Zenon DEF SearchTools
  <2>2. PICK unread \in SUBSET found :
          LET candidates == {t \in found : filterBySafety(req[r].level,
                                              IF t \in unread THEN "unknown" ELSE risk[t])}
          IN /\ req' = [req EXCEPT ![r].pc = "chat", ![r].candidates = candidates]
             /\ since' = [since EXCEPT ![r].safe =
                            @ \cup IF req[r].kind = "execute" THEN unread ELSE {}]
    BY <2>1, Zenon
  <2> DEFINE candidates == {t \in found : filterBySafety(req[r].level,
                                              IF t \in unread THEN "unknown" ELSE risk[t])}
             more == IF req[r].kind = "execute" THEN unread ELSE {}
  <2>3. candidates \subseteq {t \in Tools : filterBySafety(req[r].level, risk[t])} \cup unread
    BY <1>4, Zenon
  <2>4. /\ req' = [req EXCEPT ![r].pc = "chat", ![r].candidates = candidates]
        /\ since' = [since EXCEPT ![r].safe = @ \cup more]
    BY <2>2, Zenon
  <2> HIDE DEF candidates
  <2> QED
    BY <1>3, <2>3, <2>4, Zenon
<1> QED
  BY <1>2, <1>5, Zenon

LEMMA RepliesArePlans ==
    ASSUME NEW a \in Replies, a.kind = "plan"
    PROVE  a.steps \in Plans
<1>1. PICK answers \in [1..Providers -> Answers] : a = Chat(answers)
  BY Zenon DEF Replies
<1> DEFINE ok == {i \in 1..Providers : answers[i].kind # "error"}
<1>2. a = IF ok = {} THEN Answer("error", <<>>) ELSE answers[Min(ok)]
  BY <1>1, Zenon DEF Chat
<1>3. Answer("error", <<>>).kind = "error"
  BY Zenon DEF Answer
<1>4. ok # {}
  BY <1>2, <1>3, Zenon
<1>5. ok \subseteq Nat
  BY BoundsAssumption
<1>6. Min(ok) \in 1..Providers
  BY <1>4, <1>5, MinIsLeast, Zenon
<1>7. a \in Answers
  BY <1>1, <1>2, <1>4, <1>6, Zenon
<1>8. ASSUME NEW p \in Plans, a = Answer("plan", p) PROVE a.steps \in Plans
  BY <1>8, Zenon DEF Answer
<1>9. a # Answer("garbage", <<>>) /\ a # Answer("error", <<>>)
  BY DEF Answer
<1> QED
  BY <1>7, <1>8, <1>9, Zenon DEF Answers

LEMMA ValidPlans ==
    ASSUME NEW p \in Plans, NEW candidates
    PROVE  /\ validatePlan(p, candidates) \in Seq({s \in AllSteps : s.tool \in candidates})
           /\ Len(validatePlan(p, candidates)) \in Nat
           /\ Len(validatePlan(p, candidates)) <= MaxSteps
<1> DEFINE valid == Kept(p, Naming(p, candidates))
           S == {s \in AllSteps : s.tool \in candidates}
           n == Min({Len(valid), MaxSteps})
<1>1. valid \in Seq(S)
  BY PlansAreSteps, Zenon
<1>2. validatePlan(p, candidates) = SubSeq(valid, 1, n)
  BY Zenon DEF validatePlan
<1> HIDE DEF valid, S
<1>4. /\ n \in Nat /\ n <= MaxSteps
      /\ SubSeq(valid, 1, n) \in Seq(S) /\ Len(SubSeq(valid, 1, n)) = n
  BY <1>1, StepsAreCounted, Prefix, Zenon
<1> HIDE DEF n
<1> QED
  BY <1>2, <1>4, Zenon DEF S

LEMMA GeneratingPlans ==
    ASSUME Shape, AllPlanned, Capped, NEW r \in Requests, GeneratePlan(r)
    PROVE  AllPlanned' /\ Capped'
<1>1. /\ UNCHANGED <<risk, keys, session, overlapped>> /\ req[r].pc \in {"chat", "retry"}
  BY Zenon DEF GeneratePlan, Quiet, Alone, db
<1>2. CASE Done(r)
  BY <1>1, <1>2, DonePlans, Zenon
<1>3. CASE req[r].pc = "chat" /\ Goto(r, "retry") /\ UNCHANGED since
  BY <1>1, <1>3, GotoMoves, PlanCarries
<1>4. ASSUME NEW p \in Plans, UNCHANGED since,
             req' = [req EXCEPT ![r].pc = "activate", ![r].candidates = {},
                                ![r].steps = validatePlan(p, req[r].candidates)]
      PROVE  AllPlanned' /\ Capped'
  <2> DEFINE steps == validatePlan(p, req[r].candidates)
             S(tools) == {s \in AllSteps : s.tool \in tools}
  <2>1. /\ steps \in Seq(S(req[r].candidates)) /\ Len(steps) \in Nat
        /\ Len(steps) <= MaxSteps
    BY ValidPlans, Zenon
  <2>2. /\ req'[r] = [req[r] EXCEPT !.pc = "activate", !.candidates = {}, !.steps = steps]
        /\ req' = [s \in Requests |-> req'[s]]
        /\ \A s \in Requests \ {r} : req'[s] = req[s]
    BY <1>4, Zenon DEF Shape
  <2> HIDE DEF steps
  <2>3. Request(req[r])
    BY Zenon DEF Shape
  <2>4. Request(req'[r])
    BY <2>2, <2>3, Zenon DEF Request, Fields
  <2>5. /\ Same(req'[r], req[r]) /\ req'[r].pc = "activate"
        /\ req'[r].steps = steps /\ req'[r].candidates = {}
    BY <2>2, <2>3 DEF Request, Fields, Same
  <2>6. Screened(req'[r], since[r], risk)
    BY <1>1, <2>5, Zenon DEF Screened, Same, AllPlanned
  <2>7. S(req[r].candidates) \subseteq AllSteps
    BY Zenon
  <2>8. steps \in Seq(AllSteps)
    BY <2>1, <2>7, SeqGrows, Zenon
  <2>9. req[r].kind = "execute" => req[r].candidates \subseteq since[r].safe /\ req[r].made = <<>>
    BY <1>1, Zenon DEF AllPlanned, Planned
  <2>10. req[r].kind = "execute" => steps \in Seq(S(since[r].safe))
    <3> SUFFICES ASSUME req[r].kind = "execute" PROVE steps \in Seq(S(since[r].safe))
      BY Zenon
    <3>1. S(req[r].candidates) \subseteq S(since[r].safe)
      BY <2>9, Zenon
    <3> QED
      BY <2>1, <3>1, SeqGrows, Zenon
  <2>11. Range(<<>>) = {} /\ Len(<<>>) + Len(steps) <= MaxSteps
    BY <2>1 DEF Range
  <2>12. Planned(req'[r], since[r])
    BY <2>5, <2>8, <2>9, <2>10, <2>11, Zenon DEF Planned, Same
  <2>13. req'[r].caller \in Callers
    BY <1>1, <2>5, Zenon DEF Capped, Same
  <2> QED
    BY <1>1, <1>4, <2>2, <2>4, <2>5, <2>6, <2>12, <2>13, OneRequestPlans, Zenon DEF Moved
<1> QED
  BY <1>2, <1>3, <1>4, RepliesArePlans, Zenon DEF GeneratePlan

LEMMA NextStepPlans ==
    ASSUME Shape, AllSound, AllPlanned, Capped, NEW r \in Requests, NextStep(r)
    PROVE  AllPlanned' /\ Capped'
<1>1. /\ UNCHANGED <<risk, keys, session, overlapped, since>> /\ req[r].pc = "next"
      /\ req[r].steps # <<>>
  BY Zenon DEF NextStep, Quiet, Alone, db
<1>2. req[r].kind = "execute"
  BY <1>1, Zenon DEF AllSound, Sound, Stages
<1>3. CASE Goto(r, "role")
  BY <1>1, <1>3, GotoMoves, PlanCarries
<1>4. CASE req' = [req EXCEPT ![r].steps = Tail(@)]
  <2> DEFINE S == {s \in AllSteps : s.tool \in since[r].safe}
  <2>1. /\ req'[r] = [req[r] EXCEPT !.steps = Tail(@)]
        /\ req' = [s \in Requests |-> req'[s]]
        /\ \A s \in Requests \ {r} : req'[s] = req[s]
    BY <1>4, Zenon DEF Shape
  <2>2. Request(req[r])
    BY Zenon DEF Shape
  <2>3. Request(req'[r])
    BY <2>1, <2>2, Zenon DEF Request, Fields
  <2>4. /\ Same(req'[r], req[r]) /\ req'[r].pc = "next"
        /\ req'[r].steps = Tail(req[r].steps) /\ req'[r].candidates = req[r].candidates
    BY <1>1, <2>1, <2>2, Zenon DEF Request, Fields, Same
  <2>5. req[r].steps \in Seq(S) /\ req[r].made \in Seq(Tools)
        /\ Len(req[r].made) + Len(req[r].steps) <= MaxSteps
    BY <1>2, Zenon DEF AllPlanned, Planned, AllSound, Sound, Entitled
  <2> HIDE DEF S
  <2>6. Tail(req[r].steps) \in Seq(S) /\ Len(req[r].made) + Len(Tail(req[r].steps)) <= MaxSteps
    BY <1>1, <2>5, StepsAreCounted, TailCounts, Zenon
  <2>7. Planned(req'[r], since[r]) /\ Screened(req'[r], since[r], risk)
    BY <1>1, <1>2, <2>4, <2>6, Zenon DEF AllPlanned, Planned, Screened, Same, S
  <2>8. req'[r].caller \in Callers
    BY <1>1, <2>4, Zenon DEF Capped, Same
  <2> QED
    BY <1>1, <2>1, <2>3, <2>4, <2>7, <2>8, OneRequestPlans, Zenon DEF Moved
<1> QED
  BY <1>3, <1>4, Zenon DEF NextStep

LEMMA FinishedPlans ==
    ASSUME Shape, AllPlanned, Capped, NEW r \in Requests, Finished(r)
    PROVE  AllPlanned' /\ Capped'
<1>1. UNCHANGED <<risk, keys, session, overlapped>> /\ Done(r) /\ req[r].pc # "add"
  BY Zenon DEF Finished, Quiet, Alone, db
<1> QED
  BY <1>1, DonePlans, Zenon

LEMMA OverPlans ==
    ASSUME Shape, AllSound, AllPlanned, Capped, NEW r \in Requests, NEW calls, Over(r, calls),
           UNCHANGED <<risk, keys, session, overlapped, since>>,
           req[r].pc \in {"role", "permission", "call"},
           \/ calls = <<>>
           \/ \E t \in Tools : calls = <<t>> /\ (req[r].kind = "execute" => t \in since[r].safe)
    PROVE  AllPlanned' /\ Capped'
<1> DEFINE S == {s \in AllSteps : s.tool \in since[r].safe}
<1>1. req[r].made \in Seq(Tools)
  BY Zenon DEF AllSound, Sound, Entitled
<1>2. Screened(req'[r], since[r], risk)
  BY OverMoves, Zenon DEF AllPlanned, Screened
<1>3. ASSUME req[r].kind = "execute" PROVE Planned(req'[r], since[r])
  <2>1. /\ req[r].steps \in Seq(S) /\ req[r].steps # <<>>
        /\ Len(req[r].made) + Len(req[r].steps) <= MaxSteps
        /\ req[r].candidates \subseteq since[r].safe /\ Range(req[r].made) \subseteq since[r].safe
    BY <1>3, Zenon DEF AllPlanned, Planned
  <2> HIDE DEF S
  <2>2. /\ req'[r].made = req[r].made \o calls /\ req'[r].steps = Tail(req[r].steps)
        /\ req'[r].kind = req[r].kind /\ req'[r].pc = "next"
        /\ req'[r].candidates = req[r].candidates
    BY <1>3, OverMoves, Zenon DEF AfterActivation
  <2>3. /\ Tail(req[r].steps) \in Seq(S)
        /\ Len(req[r].made) + Len(Tail(req[r].steps)) <= MaxSteps
        /\ \A t \in Tools : Len(Append(req[r].made, t)) + Len(Tail(req[r].steps)) <= MaxSteps
    BY <1>1, <2>1, StepsAreCounted, TailCounts, Zenon
  <2>4. CASE calls = <<>>
    <3>1. req'[r].made = req[r].made
      BY <1>1, <2>2, <2>4, Concatenation, Zenon
    <3> QED
      BY <2>1, <2>2, <2>3, <3>1, Zenon DEF Planned, S
  <2>5. ASSUME NEW t \in Tools, calls = <<t>>, t \in since[r].safe
        PROVE  Planned(req'[r], since[r])
    <3>1. req'[r].made = Append(req[r].made, t)
      BY <1>1, <2>2, <2>5, Concatenation, Zenon
    <3>2. Range(Append(req[r].made, t)) = Range(req[r].made) \cup {t}
      BY <1>1, <2>5, RangeOfAppend
    <3>3. Range(req'[r].made) \subseteq since[r].safe
      BY <2>1, <2>5, <3>1, <3>2, Zenon
    <3> QED
      BY <2>1, <2>2, <2>3, <3>1, <3>3, Zenon DEF Planned, S
  <2> QED
    BY <1>3, <2>4, <2>5, Zenon
<1>4. req[r].kind # "execute" => Planned(req'[r], since[r])
  BY OverMoves, Zenon DEF AfterActivation, Planned
<1>5. req'[r].pc \in {"next", "end"} /\ req'[r].caller \in Callers
  BY OverMoves, Zenon DEF AfterActivation, Capped
<1> QED
  BY <1>2, <1>3, <1>4, <1>5, OverMoves, OneRequestPlans

LEMMA RolePlans ==
    ASSUME Shape, AllSound, AllPlanned, Capped, NEW r \in Requests, GetByOIDCSub(r)
    PROVE  AllPlanned' /\ Capped'
<1>1. UNCHANGED <<risk, keys, session, overlapped, since>> /\ req[r].pc = "role"
  BY Zenon DEF GetByOIDCSub, Quiet, Alone, db
<1>2. CASE Over(r, <<>>)
  BY <1>1, <1>2, OverPlans, Zenon
<1>3. ASSUME NEW to \in {"call", "permission"}, Goto(r, to)
      PROVE  AllPlanned' /\ Capped'
  <2>1. req[r].kind = "execute" => req[r].steps # <<>>
    BY <1>1, Zenon DEF AllPlanned, Planned
  <2> QED
    BY <1>1, <1>3, <2>1, GotoMoves, PlanCarries, Zenon
<1> QED
  BY <1>2, <1>3, Zenon DEF GetByOIDCSub, RoleDecides

LEMMA PermissionPlans ==
    ASSUME Shape, AllSound, AllPlanned, Capped, NEW r \in Requests, HasToolPermission(r)
    PROVE  AllPlanned' /\ Capped'
<1>1. UNCHANGED <<risk, keys, session, overlapped, since>> /\ req[r].pc = "permission"
  BY Zenon DEF HasToolPermission, Quiet, Alone, db
<1>2. CASE Over(r, <<>>)
  BY <1>1, <1>2, OverPlans, Zenon
<1>3. CASE Goto(r, "call")
  <2>1. req[r].kind = "execute" => req[r].steps # <<>>
    BY <1>1, Zenon DEF AllPlanned, Planned
  <2> QED
    BY <1>1, <1>3, <2>1, GotoMoves, PlanCarries
<1> QED
  BY <1>2, <1>3, Zenon DEF HasToolPermission

LEMMA RoutePlans ==
    ASSUME Shape, AllSound, AllPlanned, Capped, NEW r \in Requests, Route(r)
    PROVE  AllPlanned' /\ Capped'
<1> DEFINE t == Head(req[r].steps).tool
           S == {s \in AllSteps : s.tool \in since[r].safe}
<1>1. UNCHANGED <<risk, keys, session, overlapped, since>> /\ req[r].pc = "call"
  BY Zenon DEF Route, Quiet, Alone, db
<1>2. CASE Over(r, <<>>)
  BY <1>1, <1>2, OverPlans, Zenon
<1>3. req[r].kind = "execute" => t \in since[r].safe
  <2> SUFFICES ASSUME req[r].kind = "execute" PROVE t \in since[r].safe
    BY Zenon
  <2>1. req[r].steps \in Seq(S) /\ req[r].steps # <<>>
    BY <1>1, Zenon DEF AllPlanned, Planned
  <2> HIDE DEF S
  <2>2. Head(req[r].steps) \in S
    BY <2>1
  <2> QED
    BY <2>2, Zenon DEF S
<1>4. CASE t \in Tools /\ Over(r, <<t>>)
  <2> HIDE DEF t
  <2> QED
    BY <1>1, <1>3, <1>4, OverPlans, Zenon
<1> QED
  BY <1>2, <1>4, Zenon DEF Route

LEMMA ShownPlans ==
    ASSUME Shape, AllPlanned, Capped, NEW r \in Requests, NEW ts, Shown(r, ts),
           UNCHANGED <<risk, keys, session, overlapped, since>>,
           req[r].pc \in {"role", "permission"}, req[r].kind = "list"
    PROVE  AllPlanned' /\ Capped'
<1>1. /\ req'[r] = [req[r] EXCEPT !.pc = "end", !.shown = IF progressive THEN {} ELSE ts]
      /\ req' = [s \in Requests |-> req'[s]]
      /\ \A s \in Requests \ {r} : req'[s] = req[s]
  BY Zenon DEF Shape, Shown
<1>2. Request(req[r])
  BY Zenon DEF Shape
<1>3. Request(req'[r])
  BY <1>1, <1>2, Zenon DEF Request, Fields
<1>4. req'[r].pc = "end" /\ req'[r].caller = req[r].caller /\ req'[r].kind = "list"
  BY <1>1, <1>2, Zenon DEF Request, Fields
<1>5. Planned(req'[r], since[r]) /\ Screened(req'[r], since[r], risk)
  BY <1>4, Zenon DEF Planned, Screened
<1>6. req'[r].caller \in Callers
  BY <1>4, Zenon DEF Capped
<1> QED
  BY <1>1, <1>3, <1>4, <1>5, <1>6, OneRequestPlans, Zenon DEF Moved

LEMMA ListingPlans ==
    ASSUME Shape, AllPlanned, Capped, NEW r \in Requests, applyRoleFilter(r) \/ filterPermitted(r)
    PROVE  AllPlanned' /\ Capped'
<1>1. /\ UNCHANGED <<risk, keys, session, overlapped, since>>
      /\ req[r].pc \in {"role", "permission"} /\ req[r].kind = "list"
  BY Zenon DEF applyRoleFilter, filterPermitted, Quiet, Alone, db
<1>2. ASSUME NEW ts, Shown(r, ts) PROVE AllPlanned' /\ Capped'
  BY <1>1, <1>2, ShownPlans, Zenon
<1>3. CASE Goto(r, "permission")
  BY <1>1, <1>3, GotoMoves, PlanCarries
<1> QED
  BY <1>2, <1>3, Zenon DEF applyRoleFilter, filterPermitted

-----------------------------------------------------------------------------
(* Activation.                                                             *)

(* Where a request goes after its activation its plan is as it was.        *)
LEMMA ActivatedPlans ==
    ASSUME Shape, AllPlanned, NEW r \in Requests, Moved(r), UNCHANGED <<risk, since>>,
           Same(req'[r], req[r]), req'[r].steps = req[r].steps,
           req'[r].candidates = req[r].candidates, req[r].pc # "off",
           req'[r].pc \in {"add", "next", "end"}
    PROVE  AllPlanned'
<1>1. Planned(req'[r], since[r]) /\ Screened(req'[r], since[r], risk)
  BY Zenon DEF AllPlanned, Planned, Screened, Same
<1> QED
  BY <1>1, Zenon DEF AllPlanned, Moved

(* The tools that are added fit beside the ones that were counted.         *)
LEMMA RoomIsLeft ==
    ASSUME NEW existing, IsFiniteSet(existing), Cardinality(existing) <= Cap,
           NEW S, NEW new \in Seq(S)
    PROVE  LET added == Range(SubSeq(new, 1, Min({Len(new), Room(existing)})))
           IN  IsFiniteSet(added) /\ Cardinality(existing \cup added) <= Cap
<1> DEFINE n == Min({Len(new), Room(existing)})
           added == Range(SubSeq(new, 1, n))
<1>1. Cardinality(existing) \in Nat
  BY FS_CardinalityType, Zenon
<1>2. Room(existing) \in Nat /\ Cardinality(existing) + Room(existing) = Cap
  BY <1>1, StepsAreCounted DEF Room
<1>3. /\ n \in Nat /\ n <= Room(existing)
      /\ SubSeq(new, 1, n) \in Seq(S) /\ Len(SubSeq(new, 1, n)) = n
  BY <1>2, Prefix, Zenon
<1> HIDE DEF n
<1>4. IsFiniteSet(added) /\ Cardinality(added) \in Nat /\ Cardinality(added) <= n
  BY <1>3, RangeSize, Zenon
<1> HIDE DEF added
<1>5. Cardinality(existing \cup added)
        = Cardinality(existing) + Cardinality(added) - Cardinality(existing \cap added)
  BY <1>4, FS_Union, Zenon
<1>6. existing \cap added \in SUBSET added
  BY Zenon
<1>7. Cardinality(existing \cap added) \in Nat
  BY <1>4, <1>6, FS_Subset, FS_CardinalityType
<1>8. Cardinality(existing \cup added) <= Cap
  BY <1>1, <1>2, <1>3, <1>4, <1>5, <1>7, StepsAreCounted
<1> QED
  BY <1>4, <1>8, Zenon DEF added, n

LEMMA ActivationPlans ==
    ASSUME Shape, AllSound, AllPlanned, Capped, NEW r \in Requests, activateSessionTools(r)
    PROVE  AllPlanned' /\ Capped'
<1> DEFINE c == req[r].caller
           names == extractToolNames(req[r].steps)
           new == Kept(names, Range(names) \ session[c])
           size == Min({Len(new), Room(session[c])})
           added == Range(SubSeq(new, 1, size))
<1>1. UNCHANGED <<risk, keys, session, since>> /\ req[r].pc = "activate"
  BY Zenon DEF activateSessionTools, Alone, db
<1>2. AfterActivation(r) \in {"next", "end"} /\ c \in Callers
  BY <1>1, Zenon DEF AfterActivation, Capped
<1>3. CASE Goto(r, AfterActivation(r)) /\ UNCHANGED overlapped
  <2>1. AllPlanned'
    BY <1>1, <1>2, <1>3, GotoMoves, ActivatedPlans
  <2>2. Planned(req'[r], since[r]) /\ Screened(req'[r], since[r], risk)
    BY <1>1, <2>1, Zenon DEF AllPlanned
  <2> QED
    BY <1>1, <1>2, <1>3, <2>2, GotoMoves, OneRequestPlans DEF Same
<1>4. CASE /\ req' = [req EXCEPT ![r].pc = "add", ![r].adding = added]
           /\ overlapped' = IF Adders(req, c) = {} THEN overlapped ELSE overlapped \cup {c}
  <2> HIDE DEF added
  <2>1. /\ req'[r] = [req[r] EXCEPT !.pc = "add", !.adding = added]
        /\ req' = [s \in Requests |-> req'[s]]
        /\ \A s \in Requests \ {r} : req'[s] = req[s]
    BY <1>4, Zenon DEF Shape
  <2>2. Request(req[r])
    BY Zenon DEF Shape
  <2>3. Request(req'[r])
    BY <2>1, <2>2, Zenon DEF Request, Fields
  <2>4. /\ Same(req'[r], req[r]) /\ req'[r].pc = "add" /\ req'[r].adding = added
        /\ req'[r].steps = req[r].steps /\ req'[r].candidates = req[r].candidates
    BY <2>1, <2>2 DEF Request, Fields, Same
  <2>5. AllPlanned'
    BY <1>1, <2>1, <2>3, <2>4, ActivatedPlans, Zenon DEF Moved
  <2>6. /\ \A d : d # c => Adders(req', d) = Adders(req, d)
        /\ Adders(req', c) = Adders(req, c) \cup {r} /\ r \notin Adders(req, c)
    <3>1. \A d : \A s : /\ s \in Adders(req, d)
                              <=> s \in Requests /\ req[s].pc = "add" /\ req[s].caller = d
                        /\ s \in Adders(req', d)
                              <=> s \in Requests /\ req'[s].pc = "add" /\ req'[s].caller = d
      BY Zenon DEF Adders
    <3>2. req'[r].caller = c /\ req'[r].pc = "add" /\ req[r].pc # "add"
      BY <1>1, <2>4, Zenon DEF Same
    <3>3. \A s \in Requests : s # r => req'[s] = req[s]
      BY <2>1, Zenon
    <3> HIDE DEF c
    <3>4. \A d : \A s : s # r => (s \in Adders(req', d) <=> s \in Adders(req, d))
      BY <3>1, <3>3, Zenon
    <3>5. \A d : r \notin Adders(req, d) /\ (r \in Adders(req', d) <=> d = c)
      BY <3>1, <3>2, Zenon
    <3> QED
      BY <3>4, <3>5
  <2>7. \A d : \A s \in Adders(req, d) : req'[s] = req[s]
    BY <1>1, <2>1, Zenon DEF Adders
  <2>8. ASSUME c \notin overlapped'
        PROVE  /\ IsFiniteSet(added) /\ Cardinality(session[c] \cup added) <= Cap
               /\ Adders(req, c) = {} /\ c \notin overlapped
    <3>1. Adders(req, c) = {} /\ c \notin overlapped
      BY <1>4, <2>8, Zenon
    <3>2. IsFiniteSet(session[c]) /\ Cardinality(session[c]) <= Cap
      BY <1>2, <3>1, Zenon DEF Capped
    <3>3. req[r].steps \in Seq(AllSteps)
      BY <1>1, Zenon DEF AllPlanned, Planned
    <3>4. names \in Seq({x.tool : x \in AllSteps})
      BY <3>3, NamesAreASequence, Zenon
    <3> HIDE DEF names
    <3>5. new \in Seq({x.tool : x \in AllSteps} \cap (Range(names) \ session[c]))
      BY <3>4, KeptFacts, Zenon
    <3> HIDE DEF new
    <3>6. IsFiniteSet(added) /\ Cardinality(session[c] \cup added) <= Cap
      BY <3>2, <3>5, RoomIsLeft, Zenon DEF added
    <3> QED
      BY <3>1, <3>6, Zenon
  <2>9. overlapped \subseteq overlapped'
    BY <1>4, Zenon
  <2> HIDE DEF c
  <2>10. ASSUME NEW d \in Callers, d \notin overlapped'
         PROVE  /\ IsFiniteSet(session[d]) /\ Cardinality(session[d]) <= Cap
                /\ \A s \in Adders(req', d) : Cardinality(session[d] \cup req'[s].adding) <= Cap
                                             /\ IsFiniteSet(req'[s].adding)
                /\ \A s, z \in Adders(req', d) : s = z
    <3>1. d \in Callers \ overlapped
      BY <2>9, <2>10, Zenon
    <3>2. /\ IsFiniteSet(session[d]) /\ Cardinality(session[d]) <= Cap
          /\ \A s \in Adders(req, d) : Cardinality(session[d] \cup req[s].adding) <= Cap
                                      /\ IsFiniteSet(req[s].adding)
          /\ \A s, z \in Adders(req, d) : s = z
      BY <3>1, Zenon DEF Capped
    <3>3. CASE d = c
      <4>1. Adders(req', d) = {r}
        <5>1. Adders(req', c) = Adders(req, c) \cup {r} /\ Adders(req, c) = {}
          BY <2>6, <2>8, <2>10, <3>3, Zenon
        <5> QED
          BY <3>3, <5>1, Zenon
      <4>2. IsFiniteSet(added) /\ Cardinality(session[d] \cup added) <= Cap
        BY <2>8, <2>10, <3>3, Zenon
      <4> QED
        BY <2>4, <3>2, <4>1, <4>2, ZenonT(20)
    <3>4. CASE d # c
      <4>1. Adders(req', d) = Adders(req, d)
        BY <2>6, <3>4, Zenon
      <4> QED
        BY <2>7, <3>2, <4>1, Zenon
    <3> QED
      BY <3>3, <3>4, Zenon
  <2>11. \A s \in Requests : req'[s].pc # "off" => req'[s].caller \in Callers
    BY <1>2, <2>1, <2>4, Zenon DEF Capped, Same, c
  <2>12. DOMAIN keys' \subseteq Keys /\ session' = [d \in Callers |-> session'[d]]
    BY <1>1, Zenon DEF Capped
  <2>13. Capped'
    BY <1>1, <2>10, <2>11, <2>12, Zenon DEF Capped
  <2> QED
    BY <2>5, <2>13, Zenon
<1>5. Activating(c) = Adders(req, c)
  BY Zenon DEF Activating, Adders
<1> QED
  BY <1>3, <1>4, <1>5, Zenon DEF activateSessionTools

LEMMA AddingPlans ==
    ASSUME Shape, AllSound, AllPlanned, Capped, NEW r \in Requests, AddSessionTools(r)
    PROVE  AllPlanned' /\ Capped'
<1> DEFINE c == req[r].caller
<1>1. UNCHANGED <<risk, keys, overlapped, since>> /\ req[r].pc = "add"
  BY Zenon DEF AddSessionTools, Alone, db
<1>2. /\ req'[r] = [req[r] EXCEPT !.pc = AfterActivation(r), !.adding = {}]
      /\ req' = [s \in Requests |-> req'[s]]
      /\ \A s \in Requests \ {r} : req'[s] = req[s]
  BY Zenon DEF Shape, AddSessionTools
<1>3. Request(req[r])
  BY Zenon DEF Shape
<1>4. Request(req'[r])
  BY <1>2, <1>3, Zenon DEF Request, Fields
<1>5. /\ Same(req'[r], req[r]) /\ req'[r].pc = AfterActivation(r)
      /\ req'[r].steps = req[r].steps /\ req'[r].candidates = req[r].candidates
  BY <1>2, <1>3, Zenon DEF Request, Fields, Same
<1>6. AfterActivation(r) \in {"next", "end"} /\ c \in Callers
  BY <1>1, Zenon DEF AfterActivation, Capped
<1>7. AllPlanned'
  BY <1>1, <1>2, <1>4, <1>5, <1>6, ActivatedPlans, ZenonT(20) DEF Moved
<1>8. session' = [d \in Callers |-> session'[d]]
      /\ \A d \in Callers : session'[d] = session[d]
                            \/ (d = c /\ session'[d] = session[d] \cup req[r].adding)
  <2>1. session = [d \in Callers |-> session[d]]
    BY Zenon DEF Capped
  <2>2. CASE UNCHANGED session
    BY <2>1, <2>2, Zenon
  <2>3. CASE session' = [session EXCEPT ![c] = @ \cup req[r].adding]
    BY <2>1, <2>3, Zenon
  <2> QED
    BY <2>2, <2>3, Zenon DEF AddSessionTools
<1>9. \A d : \A s \in Adders(req', d) : s \in Adders(req, d) /\ req'[s] = req[s] /\ s # r
  <2>1. \A d : \A s : /\ s \in Adders(req, d)
                            <=> s \in Requests /\ req[s].pc = "add" /\ req[s].caller = d
                      /\ s \in Adders(req', d)
                            <=> s \in Requests /\ req'[s].pc = "add" /\ req'[s].caller = d
    BY Zenon DEF Adders
  <2>2. req'[r].pc # "add"
    BY <1>5, <1>6, Zenon
  <2>3. \A s \in Requests : s # r => req'[s] = req[s]
    BY <1>2, Zenon
  <2>4. \A d : \A s \in Adders(req', d) : s \in Requests /\ s # r /\ req'[s] = req[s]
    BY <2>1, <2>2, <2>3
  <2> QED
    BY <2>1, <2>4, Zenon
<1>10. r \in Adders(req, c)
  BY <1>1, Zenon DEF Adders
<1>11. \A s \in Requests : req'[s].pc # "off" => req'[s].caller \in Callers
  BY <1>2, <1>5, <1>6, Zenon DEF Capped, Same
<1> HIDE DEF c
<1>12. ASSUME NEW d \in Callers, d \notin overlapped
       PROVE  /\ IsFiniteSet(session'[d]) /\ Cardinality(session'[d]) <= Cap
              /\ \A s \in Adders(req', d) : Cardinality(session'[d] \cup req'[s].adding) <= Cap
                                           /\ IsFiniteSet(req'[s].adding)
              /\ \A s, z \in Adders(req', d) : s = z
  <2>1. /\ IsFiniteSet(session[d]) /\ Cardinality(session[d]) <= Cap
        /\ \A s \in Adders(req, d) : Cardinality(session[d] \cup req[s].adding) <= Cap
                                    /\ IsFiniteSet(req[s].adding)
        /\ \A s, z \in Adders(req, d) : s = z
    BY <1>12, Zenon DEF Capped
  <2>2. CASE session'[d] = session[d]
    BY <1>9, <2>1, <2>2, Zenon
  <2>3. CASE d = c /\ session'[d] = session[d] \cup req[r].adding
    <3>1. Adders(req', d) = {}
      BY <1>9, <1>10, <2>1, <2>3, Zenon
    <3>2. IsFiniteSet(req[r].adding) /\ Cardinality(session[d] \cup req[r].adding) <= Cap
      BY <1>10, <2>1, <2>3, Zenon
    <3>3. IsFiniteSet(session[d] \cup req[r].adding)
      BY <2>1, <3>2, FS_Union, Zenon
    <3> QED
      BY <2>3, <3>1, <3>2, <3>3, Zenon
  <2> QED
    BY <1>8, <2>2, <2>3, Zenon
<1>13. Capped'
  <2>1. DOMAIN keys' \subseteq Keys
    BY <1>1, Zenon DEF Capped
  <2> QED
    BY <1>1, <1>8, <1>11, <1>12, <2>1 DEF Capped
<1> QED
  BY <1>7, <1>13, Zenon

-----------------------------------------------------------------------------
(* Administration, and the theorems.                                       *)

LEMMA WitnessKeepsPlans ==
    ASSUME Shape, AllPlanned, Capped, UNCHANGED <<req, keys, session, overlapped>>, Witness
    PROVE  AllPlanned' /\ Capped'
<1>1. ASSUME NEW r \in Requests
      PROVE  Planned(req[r], since'[r]) /\ Screened(req[r], since'[r], risk')
  <2>1. History(since[r]) /\ Planned(req[r], since[r])
    BY Zenon DEF Shape, AllPlanned
  <2>2. since'[r] = LET q == req[r] IN IF q.pc = "off" THEN since[r]
                                       ELSE Both(since[r], Now(q.caller, q.kind, q.level)')
    BY Zenon DEF Witness
  <2>3. CASE req[r].pc = "off"
    BY <2>1, <2>2, <2>3, Zenon DEF Screened
  <2>4. CASE req[r].pc # "off"
    <3> DEFINE now == Now(req[r].caller, req[r].kind, req[r].level)'
               S(h) == {s \in AllSteps : s.tool \in h.safe}
    <3>1. since'[r] = Both(since[r], now)
      BY <2>2, <2>4, Zenon
    <3>2. req[r].kind = "execute" => now.safe = {t \in Tools : filterBySafety(req[r].level, risk'[t])}
      BY Zenon DEF Now, filterBySafety
    <3> HIDE DEF now
    <3>3. DOMAIN since[r] = {"roles", "granted", "safe"}
      BY <2>1, Zenon DEF History
    <3>4. since'[r] = [f \in {"roles", "granted", "safe"} |-> since[r][f] \cup now[f]]
      BY <3>1, <3>3, Zenon DEF Both
    <3>5. since'[r].safe = since[r].safe \cup now.safe
      BY <3>4, Zenon
    <3>6. Screened(req[r], since'[r], risk')
      BY <3>2, <3>5, Zenon DEF Screened
    <3>7. since[r].safe \subseteq since'[r].safe
      BY <3>5, Zenon
    <3>8. S(since[r]) \subseteq S(since'[r])
      BY <3>7, Zenon
    <3>9. req[r].kind = "execute" => req[r].steps \in Seq(S(since'[r]))
      BY <2>1, <3>8, SeqGrows, Zenon DEF Planned
    <3>10. Planned(req[r], since'[r])
      BY <2>1, <3>7, <3>9, ZenonT(20) DEF Planned
    <3> QED
      BY <3>6, <3>10, Zenon
  <2> QED
    BY <2>3, <2>4, Zenon
<1>2. AllPlanned'
  BY <1>1, Zenon DEF AllPlanned
<1>3. Capped'
  BY DEF Capped, Adders
<1> QED
  BY <1>2, <1>3, Zenon

LEMMA AdministrationPlans ==
    ASSUME Shape, AllPlanned, Capped,
           \/ \E u \in Users : autoRegisterOIDCUser(u)
           \/ \E e \in DOMAIN Editors :
                \/ \E u \in Users, role \in NewRoles : HandleUserRoleUpdate(e, u, role)
                \/ \E u \in Users, ts \in Grants :
                    \/ replaceUserToolPermissions(e, u, ts)
                    \/ HandleUserToolsAdd(e, u, ts) \/ HandleUserToolsRemove(e, u, ts)
                \/ WritePermissions(e)
                \/ \E t \in Tools, level \in Levels : Classify(e, t, level)
           \/ \E k \in Keys :
                \/ handleCreate(k) \/ handleRevoke(k)
                \/ apikeyCreateCommand(k) \/ apikeyRevokeCommand(k) \/ remoteAPIKeyCreate(k)
    PROVE  AllPlanned' /\ Capped'
<1>1. ASSUME NEW u, autoRegisterOIDCUser(u) PROVE AllPlanned' /\ Capped'
  <2>1. UNCHANGED <<req, keys, session, overlapped>> /\ Witness
    BY <1>1, SMT DEF autoRegisterOIDCUser
  <2> QED
    BY <2>1, WitnessKeepsPlans
<1>2. ASSUME NEW e, NEW u, NEW role, HandleUserRoleUpdate(e, u, role)
      PROVE  AllPlanned' /\ Capped'
  <2>1. UNCHANGED <<req, keys, session, overlapped>> /\ Witness
    BY <1>2, SMT DEF HandleUserRoleUpdate, Others
  <2> QED
    BY <2>1, WitnessKeepsPlans, Zenon
<1>3. ASSUME NEW e, NEW u, NEW ts, replaceUserToolPermissions(e, u, ts)
      PROVE  AllPlanned' /\ Capped'
  <2>1. UNCHANGED <<req, keys, session, overlapped>> /\ Witness
    BY <1>3, SMT DEF replaceUserToolPermissions, Others
  <2> QED
    BY <2>1, WitnessKeepsPlans, Zenon
<1>4. ASSUME NEW e, NEW u, NEW ts, HandleUserToolsAdd(e, u, ts) \/ HandleUserToolsRemove(e, u, ts)
      PROVE  AllPlanned' /\ Capped'
  <2>1. UNCHANGED <<req, keys, session, overlapped, risk, since>>
    <3>1. ASSUME NEW tools, ReadPermissions(e, u, tools)
          PROVE  UNCHANGED <<req, keys, session, overlapped, risk, since>>
      BY <3>1, SMT DEF ReadPermissions, Others, db
    <3> QED
      BY <1>4, <3>1, Zenon DEF HandleUserToolsAdd, HandleUserToolsRemove
  <2> QED
    BY <2>1 DEF AllPlanned, Capped, Adders
<1>5. ASSUME NEW e, WritePermissions(e) PROVE AllPlanned' /\ Capped'
  <2>1. UNCHANGED <<req, keys, session, overlapped>> /\ Witness
    BY <1>5, SMT DEF WritePermissions, Others
  <2> QED
    BY <2>1, WitnessKeepsPlans, Zenon
<1>6. ASSUME NEW e, NEW t, NEW level, Classify(e, t, level) PROVE AllPlanned' /\ Capped'
  <2>1. UNCHANGED <<req, keys, session, overlapped>> /\ Witness
    BY <1>6, SMT DEF Classify, Others
  <2> QED
    BY <2>1, WitnessKeepsPlans, Zenon
<1>7. ASSUME NEW k \in Keys, NEW scope, Create(k, scope) \/ Revoke(k)
      PROVE  AllPlanned' /\ Capped'
  <2>1. UNCHANGED <<req, session, overlapped, risk, since>>
    BY <1>7, SMT DEF Create, Revoke, Others
  <2>2. DOMAIN keys' \subseteq DOMAIN keys \cup {k}
    BY <1>7, Zenon DEF Create, Revoke
  <2>3. DOMAIN keys' \subseteq Keys
    BY <1>7, <2>2 DEF Capped
  <2> QED
    BY <2>1, <2>3 DEF AllPlanned, Capped, Adders
<1>8. ASSUME NEW k \in Keys,
             \/ handleCreate(k) \/ handleRevoke(k)
             \/ apikeyCreateCommand(k) \/ apikeyRevokeCommand(k) \/ remoteAPIKeyCreate(k)
      PROVE  AllPlanned' /\ Capped'
  BY <1>7, <1>8, Zenon DEF handleCreate, handleRevoke, apikeyCreateCommand, apikeyRevokeCommand,
     remoteAPIKeyCreate
<1> QED
  BY <1>1, <1>2, <1>3, <1>4, <1>5, <1>6, <1>8, Zenon

LEMMA StepPlans ==
    Shape /\ AllSound /\ AllPlanned /\ Capped /\ [ANext]_avars => AllPlanned' /\ Capped'
<1>1. AllPlanned /\ Capped /\ UNCHANGED avars => AllPlanned' /\ Capped'
  BY DEF avars, db, AllPlanned, Capped, Adders
<1> QED
  BY <1>1, HandlePlans, SearchPlans, GeneratingPlans, ActivationPlans, AddingPlans,
     NextStepPlans, FinishedPlans, RolePlans, PermissionPlans, RoutePlans, ListingPlans,
     AdministrationPlans, Zenon DEF ANext

(* Whatever the language model answers and however tools are reclassified  *)
(* between planning and execution, an orchestration calls at most          *)
(* maxPlanSteps times and only tools that its safety level admitted at     *)
(* some time since the request came (filterBySafety, validatePlan).        *)
THEOREM OrchestrationIsSafe == ASpec => []OrchestrationStaysSafe
<1>1. Shape /\ AllSound /\ AllPlanned /\ Capped => OrchestrationStaysSafe
  BY PlannedAndCapped, Zenon
<1> QED
  BY <1>1, InitSound, InitPlanned, StepIsSound, StepPlans, PTL DEF ASpec

(* A session whose activations never overlapped between counting and       *)
(* adding holds at most maxActivatedSessionTools tools: the overlap is the *)
(* only way past the cap (activateSessionTools, AddSessionTools).          *)
THEOREM CapIsPassedOnlyByOverlap == ASpec => []SessionCapHolds
<1>1. Shape /\ AllSound /\ AllPlanned /\ Capped => SessionCapHolds
  BY PlannedAndCapped, Zenon
<1> QED
  BY <1>1, InitSound, InitPlanned, StepIsSound, StepPlans, PTL DEF ASpec
=============================================================================
