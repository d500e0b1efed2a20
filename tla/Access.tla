-------------------------------- MODULE Access --------------------------------
(* Who may do what to which hosts: the group hierarchy and its members, roles   *)
(* and bindings, target selection and the authorization check of a dispatch,    *)
(* composed with the hosts themselves.                                          *)
(*                                                                              *)
(* The database does not enforce foreign keys, so rows may name groups, roles   *)
(* and hosts that are gone.                                                     *)
EXTENDS Hosts

CONSTANTS
    Group,     \* host groups
    Role,      \* custom roles
    Principal, \* principals that act
    MaxCalls   \* bound on requests, connects, disconnects, heartbeats and sweeps

ASSUME AccessAssumption ==
    /\ MaxCalls \in Nat
    /\ None \notin Group /\ {"unused", "gone"} \cap (Group \cup {None}) = {}

VARIABLES
    parent,    \* groups.parent_id, "unused" before the row and "gone" after it
    members,   \* group_memberships: <<group, host>>
    roles,     \* roles: "unused", "grants" (the action), "inert" or "gone"
    bindings,  \* bindings: <<user, role, scope>>, scope "global", a group or a host
    reparents, \* two re-parenting requests overlapped (history)
    misspelt   \* one that closes a cycle spelt an id in its own way (history)

accessVars == <<parent, members, roles, bindings, reparents, misspelt>>
vars == <<hostVars, accessVars, req, calls>>

Groups == {g \in Group : parent[g] \notin {"unused", "gone"}}
Roles == {x \in Role : roles[x] \in {"grants", "inert"}}

\* One link up; a parent whose row is gone has none.
Up(g) == IF g \in Groups THEN parent[g] ELSE None

\* The groups reached by following parents from g: those in every set that holds g
\* and the parents of its members.
UpClosed(S) == \A x \in S : Up(x) # None => Up(x) \in S
Ancestors(g) ==
    {a \in Group : g # None /\ \A S \in SUBSET Group : g \in S /\ UpClosed(S) => a \in S}

\* _build_group_hierarchy recurses without end on a cycle, and the check fails.
Cyclic == \E g \in Groups : g \in Ancestors(Up(g))

\* The server starts with what an earlier run of it left: some hosts and some
\* groups.
Init ==
    /\ HostInit
    /\ req = [r \in Req |-> Idle] /\ calls = MaxCalls
    /\ \E new \in Group : parent = [g \in Group |-> IF g = new THEN "unused" ELSE None]
    /\ roles = [x \in Role |-> "unused"]
    /\ members = {} /\ bindings = {}
    /\ reparents = FALSE /\ misspelt = FALSE

-----------------------------------------------------------------------------
(* Groups.                                                                     *)

\* create_group: the parent, if there is one, exists.
CreateGroup(g, p) ==
    /\ Call
    /\ parent[g] = "unused" /\ p \in Groups \cup {None}
    /\ parent' = [parent EXCEPT ![g] = p]
    /\ UNCHANGED <<members, roles, bindings, reparents, misspelt>>

\* How a request writes a group id: as str(UUID) does, or in capitals, in braces,
\* without hyphens ..., which UUID() reads too.
Spelling == {"str", "other"}

WouldCreateCycleParentOnly(g, gs, p, ps) == p # None /\ ((p = g /\ gs = ps) \/ Up(p) = g)

\* The id g of the path is compared as it is written: with the new parent as that is
\* written, then with the str(UUID) of each of its ancestors.
WouldCreateCycle(g, gs, p, ps) ==
    \/ p = g /\ gs = ps
    \/ p # None /\ gs = "str" /\ g \in Ancestors(Up(p))

\* update_group: the check reads the chain of the new parent ...
UpdateGroupRead(r, g, p) ==
    /\ g \in Groups /\ p \in Groups \cup {None}
    /\ \E gs \in Spelling, ps \in Spelling :
         /\ ~WouldCreateCycle(g, gs, p, ps)
         /\ misspelt' = (misspelt \/ ((gs # "str" \/ ps # "str") /\ g \in Ancestors(p)))
    /\ Begin(r, [pc |-> "reparent", group |-> g, to |-> p])
    /\ reparents' = (reparents \/ \E q \in Req : At(q, "reparent"))
    /\ UNCHANGED <<parent, members, roles, bindings>>

\* ... and the commit writes; a group that is gone fails the UPDATE.
UpdateGroupCommit(r) ==
    /\ At(r, "reparent")
    /\ parent' = IF req[r].group \in Groups
                 THEN [parent EXCEPT ![req[r].group] = req[r].to] ELSE parent
    /\ Done(r)
    /\ UNCHANGED <<members, roles, bindings, reparents, misspelt>>

\* delete_group: children and members keep naming it.
DeleteGroup(g) ==
    /\ Call
    /\ g \in Groups
    /\ parent' = [parent EXCEPT ![g] = "gone"]
    /\ UNCHANGED <<members, roles, bindings, reparents, misspelt>>

\* add_member: the group exists; whether the host does is left to a foreign key.
AddMemberRead(r, g, h) ==
    /\ g \in Groups /\ status[h] # "unused" /\ <<g, h>> \notin members
    /\ Begin(r, [pc |-> "member", group |-> g, host |-> h])
    /\ UNCHANGED accessVars

AddMemberCommit(r) ==
    /\ At(r, "member")
    /\ members' = members \cup {<<req[r].group, req[r].host>>}
    /\ Done(r)
    /\ UNCHANGED <<parent, roles, bindings, reparents, misspelt>>

RemoveMember(g, h) ==
    /\ Call
    /\ <<g, h>> \in members
    /\ members' = members \ {<<g, h>>}
    /\ UNCHANGED <<parent, roles, bindings, reparents, misspelt>>

\* delete_host removes the memberships of the host too.
RemoveHost(r) ==
    /\ DeleteHostCommit(r)
    /\ members' = IF status'[req[r].host] = "deleted" /\ req[r].host \in Rows
                  THEN {m \in members : m[2] # req[r].host} ELSE members
    /\ UNCHANGED <<parent, roles, bindings, reparents, misspelt>>

-----------------------------------------------------------------------------
(* Roles and bindings.                                                         *)

CreateRole(x) ==
    /\ Call
    /\ roles[x] = "unused"
    /\ roles' = [roles EXCEPT ![x] = "grants"]
    /\ UNCHANGED <<parent, members, bindings, reparents, misspelt>>

\* update_role changes what the role grants.
UpdateRole(x) ==
    /\ Call
    /\ x \in Roles
    /\ \E p \in {"grants", "inert"} : roles' = [roles EXCEPT ![x] = p]
    /\ UNCHANGED <<parent, members, bindings, reparents, misspelt>>

\* delete_role: no binding names the role when they are counted.
DeleteRoleRead(r, x) ==
    /\ x \in Roles /\ \A b \in bindings : b[2] # x
    /\ Begin(r, [pc |-> "delrole", role |-> x])
    /\ UNCHANGED accessVars

DeleteRoleCommit(r) ==
    /\ At(r, "delrole")
    /\ roles' = [roles EXCEPT ![req[r].role] = "gone"]
    /\ Done(r)
    /\ UNCHANGED <<parent, members, bindings, reparents, misspelt>>

\* create_binding: the role exists when it is looked up.
CreateBindingRead(r, u, x, s) ==
    /\ x \in Roles /\ <<u, x, s>> \notin bindings
    /\ Begin(r, [pc |-> "bind", binding |-> <<u, x, s>>])
    /\ UNCHANGED accessVars

CreateBindingCommit(r) ==
    /\ At(r, "bind")
    /\ bindings' = bindings \cup {req[r].binding}
    /\ Done(r)
    /\ UNCHANGED <<parent, members, roles, reparents, misspelt>>

DeleteBinding(b) ==
    /\ Call
    /\ b \in bindings
    /\ bindings' = bindings \ {b}
    /\ UNCHANGED <<parent, members, roles, reparents, misspelt>>

-----------------------------------------------------------------------------
(* Dispatch.                                                                   *)

\* _expand_group: the group and, breadth first, its subgroups.
Expand(g) == {g} \cup {x \in Groups : g \in Ancestors(x)}

\* resolve_targets: hosts of a list must have a row, members of a group need not.
Targets(sel) ==
    IF sel \in Group THEN {m[2] : m \in {n \in members : n[1] \in Expand(sel)}}
    ELSE {sel} \cap Rows

\* Scope.covers, for a resource that carries the host id alone: a group scope never
\* covers it, nor do the kinds for tags and owners, which are left out.
Covers(scope, h) == scope \in {"global", h}

\* is_authorized
Authorized(u, h) ==
    /\ ~Cyclic
    /\ \E b \in bindings :
         /\ b[1] = u /\ roles[b[2]] = "grants"
         /\ Covers(b[3], h)

\* dispatch: the targets are resolved, then each is checked in a session of its
\* own.
DispatchResolve(r, u, sel) ==
    /\ Begin(r, [pc |-> "dispatch", user |-> u, todo |-> Targets(sel), ok |-> {}])
    /\ UNCHANGED accessVars

DispatchCheck(r) ==
    /\ At(r, "dispatch")
    /\ \E h \in req[r].todo :
         Goto(r, [pc |-> "dispatch", user |-> req[r].user, todo |-> req[r].todo \ {h},
                  ok |-> req[r].ok \cup {x \in {h} : Authorized(req[r].user, x)}])
    /\ UNCHANGED accessVars

DispatchDone(r) ==
    /\ At(r, "dispatch") /\ req[r].todo = {}
    /\ Done(r)
    /\ UNCHANGED accessVars

-----------------------------------------------------------------------------
Scope == {"global"} \cup Group \cup Host

AccessStep ==
    \/ \E g \in Group, p \in Group \cup {None} :
         CreateGroup(g, p) \/ \E r \in Req : UpdateGroupRead(r, g, p)
    \/ \E g \in Group : DeleteGroup(g)
    \/ \E g \in Group, h \in Host :
         RemoveMember(g, h) \/ \E r \in Req : AddMemberRead(r, g, h)
    \/ \E x \in Role : CreateRole(x) \/ UpdateRole(x) \/ \E r \in Req : DeleteRoleRead(r, x)
    \/ \E r \in Req, u \in Principal, x \in Role, s \in Scope : CreateBindingRead(r, u, x, s)
    \/ \E b \in bindings : DeleteBinding(b)
    \/ \E r \in Req, u \in Principal, sel \in Group \cup Host : DispatchResolve(r, u, sel)
    \/ \E r \in Req :
         \/ UpdateGroupCommit(r) \/ AddMemberCommit(r) \/ DeleteRoleCommit(r)
         \/ CreateBindingCommit(r) \/ DispatchCheck(r) \/ DispatchDone(r)

Next ==
    \/ HostStep /\ UNCHANGED accessVars
    \/ \E r \in Req : RemoveHost(r)
    \/ AccessStep /\ UNCHANGED hostVars

Spec == Init /\ [][Next]_vars

-----------------------------------------------------------------------------
\* The groups form a forest, so that the hierarchy can be built and dispatches are
\* not all denied, unless two re-parentings overlapped (update_group checks for a
\* cycle before its commit) or one spelt an id otherwise than str(UUID) and so went
\* past _would_create_cycle, which compares the strings.
GroupsFormForest == reparents \/ misspelt \/ ~Cyclic

================================================================================
