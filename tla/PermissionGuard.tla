--------------------------- MODULE PermissionGuard ---------------------------
(***************************************************************************)
(* The two guards in front of a handler, in the order @UseGuards gives:    *)
(* JwtAuthGuard sets request.user, PermissionGuard looks at the decorators *)
(* of the route and at the role of the user, which it resolves through the *)
(* cache of ReadThroughCache.  The steps of JwtAuthGuard are in            *)
(* AccessTokens; here it passes or refuses in one step.                    *)
(*                                                                         *)
(* A lookup g of the cache either serves the guards of one request, or it  *)
(* is IdentityService.resolveRole, which shares the key (stage "none").    *)
(* The user and the organization of the requests are those of the key.     *)
(***************************************************************************)
EXTENDS ReadThroughCache

CONSTANTS
  Routes,     \* what @Public and @RequirePermissions say of each endpoint
  Undefined   \* no such decorator

VARIABLES
  route,      \* route[g] : the endpoint g calls
  user,       \* user[g]  : request.user is set
  stage       \* stage[g] : how far request g has come, or how it was answered

guard == <<route, user, stage>>
guardVars == <<vars, guard>>

(***************************************************************************)
(* The permission matrix                                                   *)
(***************************************************************************)
ViewerPermissions ==
  {"test:read", "execution:read", "issue:read", "knowledge:read", "usage:read"}

EditorPermissions ==
  ViewerPermissions \cup
    {"test:write", "execution:run", "issue:manage", "proposal:decide",
     "knowledge:write", "agent:run"}

AdminPermissions ==
  EditorPermissions \cup
    {"credential:write", "agent:author", "project:manage", "member:manage",
     "org:manage", "billing:read", "sso:manage", "audit:read", "agent:pin"}

OwnerPermissions == AdminPermissions \cup {"project:delete", "support:approve"}

PERMISSIONS == [VIEWER |-> ViewerPermissions, EDITOR |-> EditorPermissions,
                ADMIN |-> AdminPermissions, OWNER |-> OwnerPermissions]

(***************************************************************************)
(* The decorators.  Each can stand on the handler and on its class, and    *)
(* each is looked up by itself (getAllAndOverride).                        *)
(***************************************************************************)
Metadata(d, key) ==
  IF d.handler[key] # Undefined THEN d.handler[key] ELSE d.class[key]

IsPublic(d) == Metadata(d, "public") = TRUE
Required(d) == Metadata(d, "permissions")

ASSUME RolesAssumption == Values \subseteq DOMAIN PERMISSIONS
ASSUME RoutesAssumption ==
  Undefined \notin Routes /\ \A d \in Routes : Required(d) # Undefined
                            => Required(d) \subseteq OwnerPermissions

Stages == {"none", "permissions", "role", "handler", "401", "403", "404"}

GuardTypeOK ==
  /\ TypeOK
  /\ route \in [Readers -> Routes \cup {Undefined}]
  /\ user \in [Readers -> BOOLEAN]
  /\ stage \in [Readers -> Stages]
  /\ \A g \in Readers : stage[g] # "none" => route[g] # Undefined

GuardInit ==
  /\ Init
  /\ route = [g \in Readers |-> Undefined]
  /\ user = [g \in Readers |-> FALSE]
  /\ stage = [g \in Readers |-> "none"]

Goto(g, s) == stage' = [stage EXCEPT ![g] = s] /\ UNCHANGED <<route, user>>

(***************************************************************************)
(* JwtAuthGuard.canActivate: a public route bypasses it, whatever          *)
(* Authorization header came, and then there is no request.user.           *)
(***************************************************************************)
Authenticate(g) ==
  /\ stage[g] = "none" /\ pc[g] = "idle"
  /\ \E d \in Routes, valid \in BOOLEAN :
       /\ route' = [route EXCEPT ![g] = d]
       /\ user' = [user EXCEPT ![g] = valid /\ ~IsPublic(d)]
       /\ stage' = [stage EXCEPT ![g] = IF IsPublic(d) \/ valid
                                          THEN "permissions" ELSE "401"]
  /\ UNCHANGED vars

(***************************************************************************)
(* PermissionGuard.canActivate                                             *)
(***************************************************************************)

\* A mutant: no permission to check, so the user is not looked at either.
ReadDecoratorsEmptyFirst(g) ==
  /\ stage[g] = "permissions"
  /\ Goto(g, CASE Required(route[g]) = Undefined ->
                    IF IsPublic(route[g]) THEN "handler" ELSE "403"
               [] Required(route[g]) = {} -> "handler"
               [] OTHER -> IF user[g] THEN "role" ELSE "403")
  /\ UNCHANGED vars

\* A route that says nothing is refused, unless it is public; a route that
\* names permissions needs a user even if it is public.
ReadDecorators(g) ==
  /\ stage[g] = "permissions"
  /\ \/ /\ Required(route[g]) = Undefined
        /\ Goto(g, IF IsPublic(route[g]) THEN "handler" ELSE "403")
     \/ /\ Required(route[g]) # Undefined
        /\ Goto(g, IF user[g] THEN "role" ELSE "403")
  /\ UNCHANGED vars

ResolveRole(g) ==
  /\ stage[g] = "role"
  /\ Get(g) \/ Load(g) \/ Fill(g)
  /\ UNCHANGED guard

\* A mutant: some instead of every.
DecideSome(g) ==
  /\ stage[g] = "role"
  /\ Use(g)
  /\ Goto(g, CASE got[g] = Absent -> "404"
               [] Required(route[g]) = {} -> "handler"
               [] OTHER -> IF Required(route[g]) \cap PERMISSIONS[got[g]] # {}
                             THEN "handler" ELSE "403")

\* No membership is answered like a row that is not visible.
Decide(g) ==
  /\ stage[g] = "role"
  /\ Use(g)
  /\ \/ got[g] = Absent /\ Goto(g, "404")
     \/ /\ got[g] # Absent
        /\ Goto(g, IF Required(route[g]) \subseteq PERMISSIONS[got[g]]
                     THEN "handler" ELSE "403")

\* The request has been answered, or its process stops.
Depart(g) ==
  /\ stage[g] # "none"
  /\ IF pc[g] = "idle" THEN UNCHANGED vars ELSE Leave(g)
  /\ route' = [route EXCEPT ![g] = Undefined]
  /\ user' = [user EXCEPT ![g] = FALSE]
  /\ stage' = [stage EXCEPT ![g] = "none"]

(***************************************************************************)
(* IdentityService.resolveRole for another caller, the database, the clock *)
(***************************************************************************)
Resolve(g) == /\ stage[g] = "none"
              /\ Lookup(g) \/ Leave(g)
              /\ UNCHANGED guard

CanActivate(g) ==
  Authenticate(g) \/ ReadDecorators(g) \/ ResolveRole(g) \/ Decide(g)

GuardNext == \/ \E g \in Readers : CanActivate(g) \/ Depart(g) \/ Resolve(g)
             \/ (Change \/ Tick) /\ UNCHANGED guard

GuardSpec == GuardInit /\ [][GuardNext]_guardVars

(***************************************************************************)
(* Properties                                                              *)
(***************************************************************************)

\* A handler runs without a user only on a route that is public and asks for
\* no permission: neither guard relies on the other having refused, and
\* decorators of the class do not open a handler that has its own
\* (jwt-auth.guard.ts 35-42, permission.guard.ts 33-58; express.d.ts 4-6).
NoUserOnlyOnPublic ==
  \A g \in Readers :
    stage[g] = "handler" /\ ~user[g]
      => IsPublic(route[g]) /\ Required(route[g]) = Undefined

\* A request gets to a handler that asks for permissions only if the user had
\* a role with all of them at most MaxAge ticks ago, whatever the cache held
\* and other lookups stored in it (permission.guard.ts 60-114).
HandlerHadPermission ==
  [][\A g \in Readers :
       stage[g] # "handler" /\ stage'[g] = "handler" /\ Required(route'[g]) # Undefined
         => \E v \in Values : /\ since[v] <= MaxAge
                              /\ Required(route'[g]) \subseteq PERMISSIONS[v]]_guardVars
=============================================================================
