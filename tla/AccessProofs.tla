---------------------------- MODULE AccessProofs ----------------------------
(***************************************************************************)
(* The theorems about Access, for any set of users, tenants, tools, roles  *)
(* and initial grants. A decision of the gate or of a check is good for    *)
(* the whole call, and no longer: what the caller has held since the call  *)
(* was issued (had) is what every later step can rely on. The checks name  *)
(* the tenant they were made in, and the write resolves the tenant again,  *)
(* so what is said of a tenant needs callers that stay in theirs.          *)
(***************************************************************************)
EXTENDS Access, TLAPS

Asked == request \in [Call -> Request \cup {NoSub}]

\* Whoever has a right now that a call of his may need has held it during the call.
Current == \A c \in Call :
  InFlight(c) => RightsIn(grants, role, request[c]) \subseteq had[c]

\* Only the two families of tools with a check of their own get as far as it,
\* and a call has written to no tenant before its end.
Guarded == \A c \in Call :
  /\ pc[c] \in {"check", "write"} => request[c].tool \in AclTools \cup RbacTools
  /\ wrote[c] # NoScope => pc[c] = "ended"

IInv == TypeOK /\ Asked /\ Current /\ Guarded /\ GateHolds

\* The right a tool's own check looks for.
RightOf(tool) == IF tool \in AclTools THEN "admin" ELSE RequiredRole(tool)

\* Callers keep their tenant, or there is one tenant that they may lose and get
\* back: what the check found is then about the tenant that is written to.
Settled == Movers # {} => \A s, t \in Scope : s = t

\* A call past its check has the right in the only tenant it can resolve.
Checked == \A c \in Call : pc[c] = "write" =>
  \E s \in Scope : /\ org[Caller(c)] \in {s, NoScope}
                   /\ <<s, RightOf(request[c].tool)>> \in had[c]

\* A call that has written had it in the tenant written to.
Written == \A c \in Call : wrote[c] # NoScope =>
  <<wrote[c], RightOf(request[c].tool)>> \in had[c]

TInv == IInv /\ Checked /\ Written

\* What is left of it when callers move: they had the right in some tenant.
SomewhereAllowed == \A c \in Call : pc[c] = "write" \/ wrote[c] # NoScope =>
  \E s \in Scope : <<s, RightOf(request[c].tool)>> \in had[c]

-----------------------------------------------------------------------------
(* The operators of the model.                                             *)

LEMMA Families ==
  /\ AclTools \cap RbacTools = {}
  /\ \A t : RequiredRole(t) \in KnownRoles \ {"none"}
BY AccessAssumption DEF AclTools, RbacTools, RequiredRole, KnownRoles

\* at_least() agrees with the documented hierarchy, also for roles outside it.
LEMMA RankIsHierarchy ==
  ASSUME NEW r, NEW x \in KnownRoles \ {"none"}, Rank(r) >= Rank(x)
  PROVE  r \in AtLeastRoles(x)
BY DEF KnownRoles, Rank, AtLeastRoles

\* A required role outside the hierarchy excludes nobody, whence the assumption that
\* WriteRole is in it.
LEMMA UnknownRequirementIsOpen ==
  ASSUME NEW r, NEW x, x \notin KnownRoles \ {"none"}
  PROVE  AtLeast(r, x)
BY DEF KnownRoles, AtLeast, Rank

LEMMA RightsType ==
  ASSUME NEW g, NEW r, NEW q
  PROVE  RightsIn(g, r, q) \subseteq Scope \X (Resource \cup KnownRoles)
BY Families DEF RightsIn

\* What the gate saw is a right of the caller.
LEMMA GateSeesRight ==
  ASSUME TypeOK, NEW c \in Call, NEW s \in Scope, GatePasses(request[c], s)
  PROVE  \E x \in {request[c].tool, "admin"} : <<s, x>> \in RightsIn(grants, role, request[c])
BY DEF GatePasses, Held, RightsIn, Caller

\* So is what the tool's own check saw.
LEMMA CheckSeesRight ==
  ASSUME TypeOK, NEW c \in Call, pc[c] # "idle", request[c].tool \in AclTools \cup RbacTools,
         NEW s \in Scope, CheckPasses(request[c], s)
  PROVE  <<s, RightOf(request[c].tool)>> \in RightsIn(grants, role, request[c])
<1>1. CASE request[c].tool \in AclTools
  <2>1. <<s, Caller(c), "admin">> \in grants /\ "admin" \in Resource
    BY <1>1 DEF CheckPasses, IsAdmin, Held, Caller
  <2> QED
    BY <1>1, <2>1 DEF RightOf, RightsIn, Caller
<1>2. CASE request[c].tool \notin AclTools
  <2> DEFINE x == RequiredRole(request[c].tool)
             r == RoleOf(s, Caller(c))
  <2>1. Rank(r) >= Rank(x) /\ x \in KnownRoles \ {"none"}
    BY <1>2, Families DEF CheckPasses, AtLeast, Caller
  <2>2. r \in AtLeastRoles(x)
    BY <2>1, RankIsHierarchy
  <2>3. Caller(c) # NoSub
    BY <2>1, <2>2 DEF RoleOf, AtLeastRoles, KnownRoles
  <2>4. Caller(c) \in Sub
    BY <2>3 DEF TypeOK, Request, Caller
  <2>5. <<s, x>> \in RightsIn(grants, role, request[c])
    BY <1>2, <2>1, <2>2, <2>3, <2>4 DEF RightsIn, RoleOf, Caller, x
  <2> QED
    BY <1>2, <2>5 DEF RightOf, x
<1> QED
  BY <1>1, <1>2

\* What a step leaves to the calls in flight: their rights so far, and those that
\* users hold after it.
LEMMA ObservedRights ==
  ASSUME Observe, NEW c \in Call
  PROVE  /\ had[c] \subseteq had'[c]
         /\ InFlight(c)' => RightsIn(grants', role', request'[c]) \subseteq had'[c]
BY DEF Observe

\* A call that keeps its step keeps its arguments; only Issue chooses them.
LEMMA EveryStepObserves ==
  ASSUME Next
  PROVE  Observe \/ UNCHANGED vars
BY DEF Next, Finished, Issue, Unresolved, Gate, Check, Body, Write, SetRole, Switch

-----------------------------------------------------------------------------
(* Type correctness.                                                       *)

LEMMA ObservedType ==
  ASSUME TypeOK, Observe, NEW c \in Call
  PROVE  had'[c] \subseteq Scope \X (Resource \cup KnownRoles)
<1>1. had[c] \subseteq Scope \X (Resource \cup KnownRoles)
  BY DEF TypeOK
<1>2. had'[c] \subseteq had[c] \cup RightsIn(grants', role', request'[c])
  BY DEF Observe
<1> QED
  BY <1>1, <1>2, RightsType

\* What a write leaves in the table.
LEMMA WriteGrants ==
  ASSUME TypeOK, NEW c \in Call, pc[c] # "idle", NEW s \in Scope
  PROVE  GrantsAfter(request[c], s) \subseteq Scope \X Sub \X Resource
<1>1. request[c] \in Request /\ grants \subseteq Scope \X Sub \X Resource
  BY DEF TypeOK
<1>2. request[c].tool = "grant" => request[c].sub \in Sub /\ request[c].resource \in Resource
  BY <1>1, AccessAssumption DEF Request
<1> QED
  BY <1>1, <1>2 DEF GrantsAfter

LEMMA NextTypeOK ==
  ASSUME TypeOK, Asked, [Next]_vars
  PROVE  TypeOK' /\ Asked'
<1> USE DEF TypeOK, Asked, Go
<1>1. ASSUME NEW c \in Call, Issue(c) PROVE TypeOK' /\ Asked'
  <2>1. \A d \in Call : had'[d] \subseteq Scope \X (Resource \cup KnownRoles)
    BY <1>1, ObservedType DEF Issue
  <2> QED
    BY <1>1, <2>1 DEF Issue
<1>2. ASSUME NEW c \in Call, Unresolved(c) \/ Gate(c) \/ Check(c) \/ Body(c)
      PROVE  TypeOK' /\ Asked'
  <2>1. \A d \in Call : had'[d] \subseteq Scope \X (Resource \cup KnownRoles)
    BY <1>2, ObservedType DEF Unresolved, Gate, Check, Body
  <2>2. UNCHANGED <<grants, role, org, request, wrote>>
    BY <1>2 DEF Unresolved, Gate, Check, Body
  <2>3. \E to \in {"check", "body", "write", "ended", "refused"} :
           pc[c] # "idle" /\ pc' = [pc EXCEPT ![c] = to]
    BY <1>2 DEF Unresolved, Gate, Check, Body, AfterGate, AfterCheck
  <2> QED
    BY <2>1, <2>2, <2>3
<1>3. ASSUME NEW c \in Call, Write(c) PROVE TypeOK' /\ Asked'
  <2>1. \A d \in Call : had'[d] \subseteq Scope \X (Resource \cup KnownRoles)
    BY <1>3, ObservedType DEF Write
  <2>2. PICK s \in Scope : wrote' = [wrote EXCEPT ![c] = s] /\ grants' = GrantsAfter(request[c], s)
    BY <1>3 DEF Write
  <2>3. grants' \subseteq Scope \X Sub \X Resource
    BY <1>3, <2>2, WriteGrants DEF Write
  <2> QED
    BY <1>3, <2>1, <2>2, <2>3 DEF Write
<1>4. ASSUME NEW s \in Scope, NEW sub \in Sub, NEW r \in Role \ {"none"}, SetRole(s, sub, r)
      PROVE  TypeOK' /\ Asked'
  <2>1. \A d \in Call : had'[d] \subseteq Scope \X (Resource \cup KnownRoles)
    BY <1>4, ObservedType DEF SetRole
  <2> QED
    BY <1>4, <2>1 DEF SetRole
<1>5. ASSUME NEW sub \in Sub, NEW s \in Scope \cup {NoScope}, Switch(sub, s)
      PROVE  TypeOK' /\ Asked'
  <2>1. \A d \in Call : had'[d] \subseteq Scope \X (Resource \cup KnownRoles)
    BY <1>5, ObservedType DEF Switch
  <2> QED
    BY <1>5, <2>1 DEF Switch
<1>6. CASE UNCHANGED vars
  BY <1>6 DEF vars
<1> QED
  BY <1>1, <1>2, <1>3, <1>4, <1>5, <1>6 DEF Next, Finished

-----------------------------------------------------------------------------
(* The invariant is inductive, one lemma per conjunct.                     *)

\* The arguments of a call are fixed once it is issued.
LEMMA RequestsStay ==
  ASSUME TypeOK, Asked, Next, NEW c \in Call, pc[c] # "idle"
  PROVE  request'[c] = request[c]
BY DEF Next, Finished, vars, Issue, Unresolved, Gate, Check, Body, Write, SetRole, Switch,
   Go, TypeOK, Asked

\* What a call has held is never forgotten.
LEMMA RightsStay ==
  ASSUME Next, NEW c \in Call
  PROVE  had[c] \subseteq had'[c]
<1>1. CASE Observe
  BY <1>1, ObservedRights
<1>2. CASE UNCHANGED vars
  BY <1>2 DEF vars
<1> QED
  BY <1>1, <1>2, EveryStepObserves

LEMMA NextCurrent ==
  ASSUME Current, Next
  PROVE  Current'
<1>1. CASE Observe
  BY <1>1, ObservedRights DEF Current, Caller
<1>2. CASE UNCHANGED vars
  BY <1>2 DEF vars, Current, InFlight, Caller
<1> QED
  BY <1>1, <1>2, EveryStepObserves

LEMMA NextGuarded ==
  ASSUME TypeOK, Asked, Guarded, Next
  PROVE  Guarded'
<1> USE DEF Guarded
<1>1. ASSUME NEW c \in Call, Issue(c) PROVE Guarded'
  BY <1>1 DEF TypeOK, Issue, Go
<1>2. ASSUME NEW c \in Call, Unresolved(c) \/ Gate(c) \/ Check(c) \/ Body(c) PROVE Guarded'
  <2>1. UNCHANGED <<request, wrote>>
    BY <1>2 DEF Unresolved, Gate, Check, Body
  <2>2. /\ pc[c] # "ended"
        /\ \A d \in Call : d # c => pc'[d] = pc[d]
    BY <1>2 DEF TypeOK, Unresolved, Gate, Check, Body, Go
  <2>3. pc'[c] = "write" => pc[c] = "check"
    BY <1>2 DEF TypeOK, Unresolved, Gate, Check, Body, Go, AfterGate
  <2>4. pc'[c] = "check" => request[c].tool \in AclTools \cup RbacTools
    <3>1. CASE Gate(c)
      <4>1. request[c].tool \in Tool
        BY <3>1 DEF TypeOK, Gate, Request
      <4>2. request[c].tool \in PlainTools => pc'[c] # "check"
        BY <3>1 DEF TypeOK, Gate, Go, AfterGate
      <4> QED
        BY <4>1, <4>2, AccessAssumption
    <3>2. CASE Unresolved(c) \/ Check(c) \/ Body(c)
      BY <3>2 DEF TypeOK, Unresolved, Check, Body, Go, AfterCheck
    <3> QED
      BY <1>2, <3>1, <3>2
  <2> QED
    BY <2>1, <2>2, <2>3, <2>4
<1>3. ASSUME NEW c \in Call, Write(c) PROVE Guarded'
  BY <1>3 DEF TypeOK, Write, Go
<1>4. CASE UNCHANGED <<pc, request, wrote>>
  BY <1>4
<1> QED
  BY <1>1, <1>2, <1>3, <1>4 DEF Next, Finished, vars, SetRole, Switch

LEMMA NextGateHolds ==
  ASSUME IInv, Next
  PROVE  GateHolds'
<1>0. TypeOK /\ Asked /\ Current
  BY DEF IInv
<1>1. SUFFICES ASSUME NEW c \in Call,
                      pc'[c] \in {"check", "body", "write", "ended"}, ~Exempt(request'[c])
               PROVE  \E s \in Scope : <<s, request'[c].tool>> \in had'[c]
                                       \/ <<s, "admin">> \in had'[c]
  BY DEF GateHolds, Exempt
<1>2. had[c] \subseteq had'[c]
  BY RightsStay
<1>3. pc[c] # "idle" /\ request'[c] = request[c]
  <2>1. pc[c] # "idle"
    BY <1>0, <1>1 DEF Next, Finished, vars, Issue, Unresolved, Gate, Check, Body, Write,
       SetRole, Switch, Go, TypeOK
  <2> QED
    BY <1>0, <2>1, RequestsStay
<1>4. CASE pc[c] \in {"check", "body", "write", "ended"}
  BY <1>1, <1>2, <1>3, <1>4 DEF IInv, GateHolds
<1>5. CASE pc[c] \notin {"check", "body", "write", "ended"}
  <2>1. Gate(c)
    BY <1>0, <1>1, <1>5 DEF Next, Finished, vars, Issue, Unresolved, Gate, Check, Body, Write,
       SetRole, Switch, Go, TypeOK
  <2>2. PICK s \in Scope : GatePasses(request[c], s)
    BY <1>0, <1>1, <1>3, <2>1 DEF Gate, Go, TypeOK
  <2>3. \E x \in {request[c].tool, "admin"} : <<s, x>> \in RightsIn(grants, role, request[c])
    BY <1>0, <2>2, GateSeesRight
  <2>4. RightsIn(grants, role, request[c]) \subseteq had[c]
    BY <1>0, <2>1 DEF Current, InFlight, Gate
  <2> QED
    BY <1>2, <1>3, <2>3, <2>4
<1> QED
  BY <1>4, <1>5

LEMMA InitIInv == Init => IInv
<1> SUFFICES ASSUME Init PROVE IInv
  OBVIOUS
<1>1. grants \subseteq Scope \X Sub \X Resource /\ org \in [Sub \cup {NoSub} -> Scope \cup {NoScope}]
  BY AccessAssumption DEF Init
<1>2. TypeOK /\ Asked
  BY <1>1 DEF Init, TypeOK, Asked
<1> QED
  BY <1>2 DEF Init, IInv, Current, InFlight, Guarded, GateHolds

LEMMA NextIInv == IInv /\ [Next]_vars => IInv'
<1>1. ASSUME IInv, Next PROVE IInv'
  BY <1>1, NextTypeOK, NextCurrent, NextGuarded, NextGateHolds DEF IInv
<1>2. ASSUME IInv, UNCHANGED vars PROVE IInv'
  <2>1. TypeOK' /\ Asked'
    BY <1>2, NextTypeOK DEF IInv
  <2> QED
    BY <1>2, <2>1 DEF IInv, vars, Current, Guarded, GateHolds, InFlight, Caller, Exempt
<1> QED
  BY <1>1, <1>2

\* The invariant holds in every reachable state, whatever changes during a call.
THEOREM Invariance == Spec => []IInv
BY InitIInv, NextIInv, PTL DEF Spec

\* Type correctness, for any users, tenants, tools and roles.
THEOREM TypeCorrectness == Spec => []TypeOK
<1>1. IInv => TypeOK
  BY DEF IInv
<1> QED
  BY <1>1, Invariance, PTL

\* No tool that is not public runs for an identity that held neither its grant nor
\* admin at any moment of the call, even if grants, roles and the caller's tenant
\* change between the gate and the tool.
THEOREM GateIsNotBypassed == Spec => []GateHolds
<1>1. IInv => GateHolds
  BY DEF IInv
<1> QED
  BY <1>1, Invariance, PTL

LEMMA NextSomewhereAllowed ==
  ASSUME IInv, SomewhereAllowed, Next
  PROVE  SomewhereAllowed'
<1>0. TypeOK /\ Asked /\ Current /\ Guarded
  BY DEF IInv
<1>1. SUFFICES ASSUME NEW c \in Call, pc'[c] = "write" \/ wrote'[c] # NoScope
               PROVE  \E s \in Scope : <<s, RightOf(request'[c].tool)>> \in had'[c]
  BY DEF SomewhereAllowed, RightOf, RequiredRole
<1>2. pc[c] = "write" \/ wrote[c] # NoScope \/ Check(c)
  BY <1>0, <1>1 DEF Next, Finished, vars, Issue, Unresolved, Gate, Check, Body, Write,
     SetRole, Switch, Go, AfterGate, TypeOK
<1>3. pc[c] # "idle"
  BY <1>0, <1>2 DEF Guarded, Check
<1>4. request'[c] = request[c] /\ had[c] \subseteq had'[c]
  BY <1>0, <1>3, RequestsStay, RightsStay
<1>5. PICK s \in Scope : <<s, RightOf(request[c].tool)>> \in had[c]
  <2>1. CASE pc[c] = "write" \/ wrote[c] # NoScope
    BY <2>1 DEF SomewhereAllowed
  <2>2. CASE Check(c) /\ ~(pc[c] = "write" \/ wrote[c] # NoScope)
    <3>1. pc'[c] = "write" /\ InFlight(c)
      BY <1>0, <1>1, <2>2 DEF Check, InFlight
    <3>2. PICK s \in Scope : Resolves(c, s) /\ CheckPasses(request[c], s)
      BY <1>0, <2>2, <3>1 DEF Check, Go, TypeOK
    <3>3. <<s, RightOf(request[c].tool)>> \in RightsIn(grants, role, request[c])
      BY <1>0, <1>3, <2>2, <3>2, CheckSeesRight DEF Guarded, Check
    <3> QED
      BY <1>0, <3>1, <3>3 DEF Current
  <2> QED
    BY <1>2, <2>1, <2>2
<1> QED
  BY <1>4, <1>5

\* Whatever callers, grants and roles do during a call, nobody writes who did not
\* hold during it, in some tenant, the right that the tool checks.
THEOREM NobodyWritesUnchecked == Spec => []SomewhereAllowed
<1>1. Init => SomewhereAllowed
  BY DEF Init, SomewhereAllowed
<1>2. IInv /\ SomewhereAllowed /\ [Next]_vars => SomewhereAllowed'
  <2>1. CASE UNCHANGED vars
    BY <2>1 DEF SomewhereAllowed, vars, RightOf, RequiredRole
  <2> QED
    BY <2>1, NextSomewhereAllowed
<1> QED
  BY <1>1, <1>2, Invariance, PTL DEF Spec

-----------------------------------------------------------------------------
(* The tenant of a write, for callers who stay in theirs.                  *)

LEMMA OnlySwitchMoves ==
  ASSUME Next
  PROVE  org' = org \/ \E sub \in Sub, s \in Scope \cup {NoScope} : Switch(sub, s)
BY DEF Next, Finished, vars, Issue, Unresolved, Gate, Check, Body, Write, SetRole, Switch

\* A settled caller does not come to another tenant.
LEMMA TenantStays ==
  ASSUME Settled, TypeOK, Next, NEW a \in Sub \cup {NoSub}, NEW s \in Scope,
         org[a] \in {s, NoScope}
  PROVE  org'[a] \in {s, org[a], NoScope}
<1>1. ASSUME NEW sub \in Sub, NEW t \in Scope \cup {NoScope}, Switch(sub, t)
      PROVE  org'[a] \in {s, NoScope}
  BY <1>1 DEF Switch, Settled, TypeOK
<1> QED
  BY <1>1, OnlySwitchMoves

LEMMA NextChecked ==
  ASSUME Settled, TInv, Next
  PROVE  Checked'
<1>0. TypeOK /\ Asked /\ Current /\ Guarded
  BY DEF TInv, IInv
<1>1. SUFFICES ASSUME NEW c \in Call, pc'[c] = "write"
               PROVE  \E s \in Scope : /\ org'[Caller(c)'] \in {s, NoScope}
                                       /\ <<s, RightOf(request'[c].tool)>> \in had'[c]
  BY DEF Checked, RightOf, RequiredRole
<1>2. pc[c] = "write" \/ Check(c)
  BY <1>0, <1>1 DEF Next, Finished, vars, Issue, Unresolved, Gate, Check, Body, Write,
     SetRole, Switch, Go, AfterGate, TypeOK
<1>3. /\ pc[c] # "idle" /\ InFlight(c)
      /\ had[c] \subseteq had'[c]
      /\ request'[c] = request[c] /\ Caller(c)' = Caller(c)
      /\ Caller(c) \in Sub \cup {NoSub}
  <2>1. pc[c] # "idle" /\ InFlight(c)
    BY <1>2 DEF Check, InFlight
  <2>2. request'[c] = request[c] /\ Caller(c) \in Sub \cup {NoSub}
    BY <1>0, <2>1, RequestsStay DEF TypeOK, Request, Caller
  <2> QED
    BY <2>1, <2>2, RightsStay DEF Caller
<1>4. PICK s \in Scope : /\ org[Caller(c)] \in {s, NoScope}
                         /\ <<s, RightOf(request[c].tool)>> \in had[c]
  <2>1. CASE pc[c] = "write"
    BY <2>1 DEF TInv, Checked
  <2>2. CASE Check(c)
    <3>1. PICK s \in Scope : Resolves(c, s) /\ CheckPasses(request[c], s)
      BY <1>0, <1>1, <2>2 DEF Check, Go, TypeOK
    <3>2. <<s, RightOf(request[c].tool)>> \in RightsIn(grants, role, request[c])
      BY <1>0, <1>3, <2>2, <3>1, CheckSeesRight DEF Guarded, Check
    <3>3. <<s, RightOf(request[c].tool)>> \in had[c]
      BY <1>0, <1>3, <3>2 DEF Current
    <3> QED
      BY <3>1, <3>3 DEF Resolves, Caller
  <2> QED
    BY <1>2, <2>1, <2>2
<1>5. org'[Caller(c)] \in {s, NoScope}
  BY <1>0, <1>3, <1>4, TenantStays
<1> QED
  BY <1>3, <1>4, <1>5

LEMMA NextWritten ==
  ASSUME TInv, Next
  PROVE  Written'
<1>0. TypeOK /\ Asked /\ Guarded
  BY DEF TInv, IInv
<1>1. SUFFICES ASSUME NEW c \in Call, wrote'[c] # NoScope
               PROVE  <<wrote'[c], RightOf(request'[c].tool)>> \in had'[c]
  BY DEF Written, RightOf, RequiredRole
<1>2. had[c] \subseteq had'[c]
  BY RightsStay
<1>3. CASE wrote'[c] = wrote[c]
  <2>1. pc[c] = "ended"
    BY <1>0, <1>1, <1>3 DEF Guarded
  <2>2. request'[c] = request[c]
    BY <1>0, <2>1, RequestsStay
  <2> QED
    BY <1>1, <1>2, <1>3, <2>2 DEF TInv, Written
<1>4. CASE wrote'[c] # wrote[c]
  <2>1. PICK s \in Scope : Resolves(c, s) /\ wrote'[c] = s /\ pc[c] = "write"
    BY <1>0, <1>4 DEF Next, Finished, vars, Issue, Unresolved, Gate, Check, Body, Write,
       SetRole, Switch, TypeOK
  <2>2. request'[c] = request[c]
    BY <1>0, <2>1, RequestsStay
  <2>3. <<s, RightOf(request[c].tool)>> \in had[c]
    BY <2>1 DEF TInv, Checked, Resolves, Caller
  <2> QED
    BY <1>2, <2>1, <2>2, <2>3
<1> QED
  BY <1>3, <1>4

THEOREM SettledInvariance ==
  ASSUME Settled
  PROVE  Spec => []TInv
<1>1. Init => TInv
  BY InitIInv DEF Init, TInv, Checked, Written
<1>2. TInv /\ [Next]_vars => TInv'
  <2>1. ASSUME TInv, Next PROVE TInv'
    BY <2>1, NextIInv, NextChecked, NextWritten DEF TInv
  <2>2. ASSUME TInv, UNCHANGED vars PROVE TInv'
    <3>1. IInv'
      BY <2>2, NextIInv DEF TInv
    <3> QED
      BY <2>2, <3>1 DEF TInv, vars, Checked, Written, Caller, RightOf, RequiredRole
  <2> QED
    BY <2>1, <2>2
<1> QED
  BY <1>1, <1>2, PTL DEF Spec

\* grant and revoke change the grants of a tenant only for a caller who was its
\* admin during the call, be the tools public and the revocation concurrent.
THEOREM GrantsAreAdministered ==
  ASSUME Settled
  PROVE  Spec => []GrantsChangedByAdmins
<1>1. TInv => GrantsChangedByAdmins
  BY DEF TInv, Written, GrantsChangedByAdmins, RightOf
<1> QED
  BY <1>1, SettledInvariance, PTL

\* set_instruction and memory_write write to a tenant only for a caller who had
\* the role they require there during the call.
THEOREM WritersHaveRole ==
  ASSUME Settled
  PROVE  Spec => []WritesNeedRole
<1>1. TInv => WritesNeedRole
  BY Families DEF TInv, Written, WritesNeedRole, RightOf
<1> QED
  BY <1>1, SettledInvariance, PTL

\* Without an admin, and without an administration call past its check, the grants
\* of a tenant are frozen: no tool can make the first admin.
THEOREM NoAdminNoChange ==
  ASSUME Settled
  PROVE  Spec => FrozenForGood
<1> DEFINE Kept(s) == /\ Frozen(s)'
                      /\ \A sub \in Sub, x \in Resource :
                           <<s, sub, x>> \in grants' <=> <<s, sub, x>> \in grants
<1>1. IInv /\ [Next]_vars => [\A s \in Scope : Frozen(s) => Kept(s)]_vars
  <2> SUFFICES ASSUME IInv, Next, NEW s \in Scope, Frozen(s) PROVE Kept(s)
    OBVIOUS
  <2>0. TypeOK /\ Asked /\ Guarded
    BY DEF IInv
  \* Only a write past the check changes grants, and none is of this tenant.
  <2>1. \A sub \in Sub, x \in Resource : <<s, sub, x>> \in grants' <=> <<s, sub, x>> \in grants
    <3>1. CASE grants' = grants
      BY <3>1
    <3>2. ASSUME NEW c \in Call, Write(c)
          PROVE  \A sub \in Sub, x \in Resource :
                   <<s, sub, x>> \in grants' <=> <<s, sub, x>> \in grants
      <4>1. PICK t \in Scope : /\ t = org[Caller(c)] /\ pc[c] = "write"
                               /\ grants' = GrantsAfter(request[c], t)
        BY <3>2 DEF Write, Resolves, Caller, Go
      <4>2. CASE t = s
        BY <4>1, <4>2 DEF Frozen, GrantsAfter, AclTools
      <4>3. CASE t # s
        BY <4>1, <4>3 DEF GrantsAfter
      <4> QED
        BY <4>2, <4>3
    <3> QED
      BY <3>1, <3>2 DEF Next, Finished, vars, Issue, Unresolved, Gate, Check, Body, SetRole, Switch
  <2>2. \A sub \in Sub : <<s, sub, "admin">> \notin grants'
    BY <2>1 DEF Frozen, Resource
  <2>3. ASSUME NEW c \in Call, pc'[c] = "write", org'[Caller(c)'] \in {s, NoScope}
        PROVE  request'[c].tool \notin AclTools
    <3>1. pc[c] = "write" \/ Check(c)
      BY <2>0, <2>3 DEF Next, Finished, vars, Issue, Unresolved, Gate, Check, Body, Write,
         SetRole, Switch, Go, AfterGate, TypeOK
    <3>2. request'[c] = request[c] /\ Caller(c)' = Caller(c)
      BY <2>0, <3>1, RequestsStay DEF Check, Caller
    <3>3. CASE pc[c] = "write"
      <4>1. Caller(c) \in Sub \cup {NoSub}
        BY <2>0, <3>3 DEF TypeOK, Request, Caller
      <4>2. org[Caller(c)] \in {s, NoScope}
        <5>1. org[Caller(c)] \in Scope \cup {NoScope}
          BY <2>0, <4>1 DEF TypeOK
        <5>2. CASE org' = org
          BY <2>3, <3>2, <5>2
        <5>3. ASSUME NEW sub \in Sub, NEW t \in Scope \cup {NoScope}, Switch(sub, t)
              PROVE  \A u \in Scope : u = s
          BY <5>3 DEF Switch, Settled
        <5> QED
          BY <5>1, <5>2, <5>3, OnlySwitchMoves
      <4> QED
        BY <3>2, <3>3, <4>2 DEF Frozen
    <3>4. CASE Check(c)
      <4>1. CheckPasses(request[c], s)
        BY <2>0, <2>3, <3>2, <3>4, AccessAssumption DEF Check, Go, TypeOK, Resolves, Caller
      <4>2. IsAdmin(request[c], s) => Caller(c) \in Sub /\ <<s, Caller(c), "admin">> \in grants
        BY <2>0 DEF IsAdmin, Held, TypeOK, Caller
      <4> QED
        BY <3>2, <4>1, <4>2 DEF CheckPasses, Frozen
    <3> QED
      BY <3>1, <3>3, <3>4
  <2> QED
    BY <2>1, <2>2, <2>3 DEF Frozen
<1> QED
  BY <1>1, Invariance, PTL DEF Spec, FrozenForGood
=============================================================================
