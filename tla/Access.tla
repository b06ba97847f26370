------------------------------- MODULE Access -------------------------------
(***************************************************************************)
(* Who may call the energy orchestrator (httpapi/auth_middleware.go and    *)
(* the groups of router.go): API keys, their roles, and the sites and      *)
(* racks a key is limited to.                                              *)
(*                                                                         *)
(* A configuration is a record [enabled, rbac, defaultRole, keys]; keys is *)
(* a function from the configured keys to [role, sites, racks], a role may *)
(* be NoRole and an empty scope means that none was configured.            *)
(***************************************************************************)

CONSTANT Everything   \* the scope "*"

NoRole == "none"

ReadRoles == {"viewer", "operator", "admin"}
WriteRoles == {"operator", "admin"}

\* A scope that was not configured is everything.
Scoped(scope) == IF scope = {} THEN {Everything} ELSE scope

\* The principal APIKeyAuthMiddleware puts in the context of a request.
PrincipalOf(config, key) ==
  IF ~config.enabled
  THEN [role |-> "admin", sites |-> {Everything}, racks |-> {Everything}]
  ELSE LET entry == config.keys[key]
       IN  [role  |-> IF config.rbac /\ entry.role # NoRole THEN entry.role
                      ELSE config.defaultRole,
            sites |-> Scoped(entry.sites),
            racks |-> Scoped(entry.racks)]

ScopeAllows(scope, target) == Everything \in scope \/ target \in scope

\* The answer that stops a request before its handler, or "ok": write is
\* whether the route is in the write group, site and racks what it names.
Gate(config, key, write, sites, racks) ==
  IF config.enabled /\ key \notin DOMAIN config.keys THEN "unauthorized"
  ELSE LET principal == PrincipalOf(config, key)
           roles == IF write THEN WriteRoles ELSE ReadRoles
       IN  IF /\ principal.role \in roles
              /\ \A s \in sites : ScopeAllows(principal.sites, s)
              /\ \A r \in racks : ScopeAllows(principal.racks, r)
           THEN "ok" ELSE "forbidden"
=============================================================================
