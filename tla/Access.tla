------------------------------- MODULE Access -------------------------------
(***************************************************************************)
(* How a tool call is authorised: AclMiddleware (acl/middleware.py), the   *)
(* checks the tools make themselves (Rbac.require_async of rbac/gate.py,   *)
(* _require_admin of acl/tools.py), and the write that follows. Each of    *)
(* the three resolves the tenant again and reads or writes the stores in   *)
(* an await of its own, so the calls of other users, a change of role and  *)
(* a change of the caller's current tenant can come in between.            *)
(*                                                                         *)
(* resolve() and the statement that takes its result are one step; the     *)
(* resource `tool:<name>' is represented by the name of the tool.          *)
(***************************************************************************)
EXTENDS Naturals, FiniteSets

CONSTANTS Call,       \* tool calls
          Sub,        \* identities (JWT sub)
          NoSub,      \* no identity: stdio, tests
          Scope,      \* tenants
          NoScope,    \* the orchestrator knows no tenant for the caller
          Tool,       \* tools of the server
          Public,     \* acl_public_tools
          Named,      \* resources that calls of grant and revoke name
          Role,       \* values in use, "none" being no row; the table takes any text
          WriteRole,  \* memory_write_role
          Seed,       \* sets of grants the server may start with
          Home,       \* answers of the orchestrator it may start with
          Mixes,      \* bound: sets of tools that the calls of one behaviour are of
          Movers      \* users who may change tenant during a call

AclTools == {"grant", "revoke", "list_grants"}
RbacTools == {"set_instruction", "memory_write", "list_feedback"}
PlainTools == {"get_instruction", "memory_read"}
KnownRoles == {"none", "member", "group_admin", "org_admin"}
Resource == Tool \cup {"admin"}

ASSUME AccessAssumption ==
  /\ NoSub \notin Sub /\ NoScope \notin Scope
  /\ Tool \subseteq AclTools \cup RbacTools \cup PlainTools
  /\ Public \subseteq Tool /\ Named \subseteq Resource
  /\ WriteRole \in KnownRoles \ {"none"}
  /\ \A seed \in Seed : seed \subseteq Scope \X Sub \X Resource
  /\ Home \subseteq [Sub \cup {NoSub} -> Scope \cup {NoScope}]
  /\ Movers \subseteq Sub

VARIABLES grants,  \* table grants: tenant, sub, resource
          role,    \* table member_roles: role[tenant][sub]
          org,     \* org[sub]: what the resolver answers for the user now
          pc,      \* pc[c]: next step of the call
          request, \* request[c]: caller, tool and arguments
          wrote,   \* wrote[c]: tenant the call has written to
          had      \* had[c]: rights it may need that its caller has held since it was issued

vars == <<grants, role, org, pc, request, wrote, had>>

\* Only grant and revoke name a user and a resource; only the writes of a text
\* can be invalid (empty, or refused by validate()).
Request ==
  [caller : Sub \cup {NoSub}, tool : Tool \cap {"grant", "revoke"},
   sub : Sub, resource : Named, valid : {TRUE}]
  \cup [caller : Sub \cup {NoSub}, tool : Tool \cap {"set_instruction", "memory_write"},
        sub : {NoSub}, resource : {"admin"}, valid : BOOLEAN]
  \cup [caller : Sub \cup {NoSub}, tool : Tool \ {"grant", "revoke", "set_instruction", "memory_write"},
        sub : {NoSub}, resource : {"admin"}, valid : {TRUE}]

\* Mutant: a role outside the hierarchy counts as a member.
RankUnknownAsMember(r) == CASE r = "none" -> 0 [] r = "group_admin" -> 2
                            [] r = "org_admin" -> 3 [] OTHER -> 1

Rank(r) == CASE r = "member" -> 1 [] r = "group_admin" -> 2
             [] r = "org_admin" -> 3 [] OTHER -> 0

InFlight(c) == pc[c] \in {"gate", "check", "body", "write"}

TypeOK ==
  /\ grants \subseteq Scope \X Sub \X Resource
  /\ role \in [Scope -> [Sub -> Role]]
  /\ org \in [Sub \cup {NoSub} -> Scope \cup {NoScope}]
  /\ pc \in [Call -> {"idle", "gate", "check", "body", "write", "ended", "refused"}]
  /\ \A c \in Call : pc[c] # "idle" => request[c] \in Request
  /\ wrote \in [Call -> Scope \cup {NoScope}]
  /\ \A c \in Call : had[c] \subseteq Scope \X (Resource \cup KnownRoles)

Init ==
  /\ grants \in Seed
  /\ role \in [Scope -> [Sub -> Role]]
  /\ org \in Home
  /\ pc = [c \in Call |-> "idle"]
  /\ request = [c \in Call |-> NoSub]
  /\ wrote = [c \in Call |-> NoScope]
  /\ had = [c \in Call |-> {}]

-----------------------------------------------------------------------------
(* Decisions, each on what the stores hold when it is made.                *)

Held(s, sub) == {x \in Resource : <<s, sub, x>> \in grants}

\* The middleware: no identity and public tools pass without a look at the stores.
Exempt(q) == q.caller = NoSub \/ q.tool \in Public

\* Mutant: any grant opens every tool.
GatePassesAnyGrant(q, s) == Held(s, q.caller) # {}

GatePasses(q, s) == "admin" \in Held(s, q.caller) \/ q.tool \in Held(s, q.caller)

RequiredRole(tool) == IF tool = "memory_write" THEN WriteRole ELSE "org_admin"

RoleOf(s, sub) == IF sub = NoSub THEN "none" ELSE role[s][sub]

AtLeast(r, required) == Rank(r) >= Rank(required)

\* Mutant: any grant is enough to administer grants.
IsAdminByTool(q, s) == Held(s, q.caller) # {}

IsAdmin(q, s) == "admin" \in Held(s, q.caller)

CheckPasses(q, s) ==
  IF q.tool \in AclTools THEN IsAdmin(q, s) ELSE AtLeast(RoleOf(s, q.caller), RequiredRole(q.tool))

\* The roles that include a role, by the documented hierarchy.
AtLeastRoles(x) ==
  CASE x = "member" -> {"member", "group_admin", "org_admin"}
    [] x = "group_admin" -> {"group_admin", "org_admin"}
    [] x = "org_admin" -> {"org_admin"}

\* What a caller has now, per tenant, of what his call may need: the grant of its
\* tool, admin, the role that the tool requires.
RightsIn(g, r, q) ==
  {p \in Scope \X Resource : p[2] \in {"admin", q.tool} /\ <<p[1], q.caller, p[2]>> \in g}
  \cup {p \in Scope \X {RequiredRole(q.tool)} :
            /\ q.tool \in RbacTools /\ q.caller \in Sub
            /\ r[p[1]][q.caller] \in AtLeastRoles(p[2])}

-----------------------------------------------------------------------------
(* The steps of a call.                                                    *)

Go(c, from, to) == pc[c] = from /\ pc' = [pc EXCEPT ![c] = to]

\* The rights users hold after a step count for every call in flight.
Observe == had' = [c \in Call |->
  IF InFlight(c)' THEN had[c] \cup RightsIn(grants', role', request'[c]) ELSE had[c]]

Issued == {c \in Call : pc[c] # "idle"}

Issue(c) ==
  /\ Go(c, "idle", "gate")
  /\ \E q \in Request :
       /\ \E mix \in Mixes : {q.tool} \cup {request[d].tool : d \in Issued} \subseteq mix
       /\ request' = [request EXCEPT ![c] = q]
  /\ UNCHANGED <<grants, role, org, wrote>>
  /\ Observe

\* resolve() raises without a tenant; the exception ends the call.
Resolves(c, s) == s = org[request[c].caller] /\ s # NoScope

\* The digest of list_feedback is the server's, not a tenant's.
Scoped(tool) == tool # "list_feedback"

Unresolved(c) ==
  /\ \/ pc[c] = "gate" /\ ~Exempt(request[c])
     \/ pc[c] \in {"check", "write"}
     \/ pc[c] = "body" /\ Scoped(request[c].tool)
  /\ org[request[c].caller] = NoScope
  /\ Go(c, pc[c], "refused")
  /\ UNCHANGED <<grants, role, org, request, wrote>>
  /\ Observe

AfterGate(q) ==
  CASE q.tool \in PlainTools -> "body"
    [] q.tool = "memory_write" /\ ~q.valid -> "refused"
    [] OTHER -> "check"

\* AclMiddleware.on_call_tool, then the head of the tool.
Gate(c) ==
  /\ pc[c] = "gate"
  /\ \/ Exempt(request[c]) /\ Go(c, "gate", AfterGate(request[c]))
     \/ /\ ~Exempt(request[c])
        /\ \E s \in Scope : Resolves(c, s) /\ Go(c, "gate",
             IF GatePasses(request[c], s) THEN AfterGate(request[c]) ELSE "refused")
  /\ UNCHANGED <<grants, role, org, request, wrote>>
  /\ Observe

AfterCheck(q) ==
  CASE q.tool = "set_instruction" /\ ~q.valid -> "refused"
    [] q.tool \in {"list_grants", "list_feedback"} -> "body"
    [] OTHER -> "write"

\* Mutant: the tool goes on without its own check.
CheckSkipped(c) ==
  /\ pc[c] = "check"
  /\ \E s \in Scope : Resolves(c, s) /\ Go(c, "check", AfterCheck(request[c]))
  /\ UNCHANGED <<grants, role, org, request, wrote>>
  /\ Observe

\* _require_admin() or rbac.require_async(), then validate() for set_instruction.
Check(c) ==
  /\ pc[c] = "check"
  /\ \E s \in Scope : Resolves(c, s) /\ Go(c, "check",
       IF CheckPasses(request[c], s) THEN AfterCheck(request[c]) ELSE "refused")
  /\ UNCHANGED <<grants, role, org, request, wrote>>
  /\ Observe

\* A tool that only reads.
Body(c) ==
  /\ Go(c, "body", "ended")
  /\ Scoped(request[c].tool) => \E s \in Scope : Resolves(c, s)
  /\ UNCHANGED <<grants, role, org, request, wrote>>
  /\ Observe

\* Mutant: every write that is not a revoke grants what the call names.
GrantsAfterFallingThrough(q, s) ==
  IF q.tool = "revoke" THEN grants \ {<<s, q.sub, q.resource>>}
  ELSE grants \cup {<<s, q.sub, q.resource>>}

\* Both are idempotent: ON CONFLICT DO NOTHING, DELETE of what is there.
GrantsAfter(q, s) ==
  CASE q.tool = "grant" -> grants \cup {<<s, q.sub, q.resource>>}
    [] q.tool = "revoke" -> grants \ {<<s, q.sub, q.resource>>}
    [] OTHER -> grants

\* grant, revoke, or put of a document or a note, in the tenant resolved now.
Write(c) == pc[c] = "write" /\ \E s \in Scope :
  /\ Resolves(c, s)
  /\ Go(c, "write", "ended")
  /\ wrote' = [wrote EXCEPT ![c] = s]
  /\ grants' = GrantsAfter(request[c], s)
  /\ UNCHANGED <<role, org, request>>
  /\ Observe

\* RoleStore.set_role, called by the consumer (no tool does).
SetRole(s, sub, r) ==
  /\ role' = [role EXCEPT ![s][sub] = r]
  /\ UNCHANGED <<grants, org, pc, request, wrote>>
  /\ Observe

\* The orchestrator moves the user to another tenant.
Switch(sub, s) ==
  /\ sub \in Movers
  /\ org' = [org EXCEPT ![sub] = s]
  /\ UNCHANGED <<grants, role, pc, request, wrote>>
  /\ Observe

Finished == (\A c \in Call : pc[c] \in {"ended", "refused"}) /\ UNCHANGED vars

Next ==
  \/ \E c \in Call : \/ Issue(c) \/ Unresolved(c) \/ Gate(c) \/ Check(c)
                     \/ Body(c) \/ Write(c)
  \/ \E s \in Scope, sub \in Sub, r \in Role \ {"none"} : SetRole(s, sub, r)
  \/ \E sub \in Sub, s \in Scope \cup {NoScope} : Switch(sub, s)
  \/ Finished

Spec == Init /\ [][Next]_vars

-----------------------------------------------------------------------------
(* Properties.                                                             *)

Caller(c) == request[c].caller

\* With an identity, a tool that is not public has run only for a caller who
\* held its grant, or admin, in a tenant of his at some moment of the call: a
\* grant revoked before the call was issued opens nothing, whatever list of tools
\* the client was shown.
GateHolds == \A c \in Call :
  pc[c] \in {"check", "body", "write", "ended"} /\ ~Exempt(request[c]) =>
    \E s \in Scope : <<s, request[c].tool>> \in had[c] \/ <<s, "admin">> \in had[c]

\* Whoever changed the grants of a tenant held admin there during the call,
\* be the tool public or the caller unknown: a revocation that ended before
\* the call was issued is never overlooked.
GrantsChangedByAdmins == \A c \in Call :
  wrote[c] # NoScope /\ request[c].tool \in AclTools => <<wrote[c], "admin">> \in had[c]

\* Whoever wrote a document or a note of a tenant had the role for it there.
WritesNeedRole == \A c \in Call :
  wrote[c] # NoScope /\ request[c].tool \in RbacTools =>
    <<wrote[c], RequiredRole(request[c].tool)>> \in had[c]

\* The tenant has no admin and no administration call past its check, not even of
\* a caller who has lost his tenant and may get it back.
Frozen(s) ==
  /\ \A sub \in Sub : <<s, sub, "admin">> \notin grants
  /\ \A c \in Call : pc[c] = "write" => org[Caller(c)] \notin {s, NoScope} \/ request[c].tool \notin AclTools

\* Two admins may revoke each other, and the last one himself; from then on no
\* call can change a grant of the tenant again.
FrozenForGood == [][\A s \in Scope : Frozen(s) =>
  /\ Frozen(s)'
  /\ \A sub \in Sub, x \in Resource : <<s, sub, x>> \in grants' <=> <<s, sub, x>> \in grants]_vars
=============================================================================
