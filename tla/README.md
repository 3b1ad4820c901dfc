# Verification of the QA platform's accounts, sessions and tenants

TLA+ models of the multi-tenant core of the repository (`apps/api`, `packages/db`,
`database/`, `apps/web`), the TLC runs that check them on small instances, and TLAPS
proofs for every size. `PROJECT.json` maps every definition to the lines it models.

Run in this directory: `tlc -config MCRefreshTokens.cfg MCRefreshTokens.tla` (and the
other `MC*.cfg`), `tlapm RefreshTokensProofs.tla` (and the other `*Proofs.tla`).

## 1. The system

A browser runs the Next.js app (`apps/web`). It talks to one NestJS API (`apps/api`),
which keeps its data in PostgreSQL behind row-level security (`packages/db`,
`database/sql`) and its counters, caches, denylist and links in Redis. There are no
workers yet: `packages/shared/src/queues` only names the queues.

Node runs the handlers concurrently and switches at every `await`. Nearly every
handler is a sequence of *separate* transactions and Redis commands, so most of what
can go wrong happens between two of them: another handler's step, a process that
stops, a connection that breaks.

| Component | State | Operations | Talks to | Hard behaviour | Correct when |
|---|---|---|---|---|---|
| Refresh tokens (`auth.service.ts` 292-565) | table `refresh_tokens` | refresh, logout, buildLoginResponse (login, verify, accept, `GET /auth/me`) | cookie of the browser | lookup, mass revocation, rotation and creation are four transactions | a session that has ended stays ended; rotation retires before it creates; a revoked token yields nothing |
| Access tokens (`jwt-auth.guard.ts`, logout) | JWTs, Redis `auth:denylist:<jti>` | sign, verify, denylist lookup, logout's two writes | refresh tokens | rounding to seconds, guard and logout overlap, logout stops half-way | an answered logout ends the token; a logout denies a token only after it has revoked the refresh token of its cookie, if that has a row |
| Attempt limiter (login, discover) | Redis counter | INCR, EXPIRE, compare | Redis | two commands that are not atomic | bounded attempts in any window; lockouts end |
| Role and entitlement caches (`identity.service.ts`, `entitlements.service.ts`) | Redis `role:*`, `ent:*` | get, load, fill, use | database | no invalidation, late fills | staleness is bounded |
| Guard pipeline (`permission.guard.ts`, decorators, `permissions.ts`) | `request.user` | authenticate, read decorators, resolve role, decide | role cache | two guards that read the decorators separately, on handler or class | no handler without a user unless it is public; no handler without a permission that was held lately |
| Accounts (`auth.service.ts`, `invitations.service.ts`) | users, organizations, memberships, invitations, Redis links and idempotency keys | signup, login, verify, resend, createOrg, accept | database, Redis | a transaction inside a transaction, retries, overlapping acceptances | memberships come only from founding an organization or redeeming an invitation once |
| Signup page (`signup/page.tsx`) | idempotency key, prompt | submit, answer, back | signup | one key for every try of a load; a cut-off try goes on in the server | the prompt means an account; trying again helps |
| Tenant context (`tenant-context.ts`, RLS policies) | pool of connections, the setting of each | withTenant, withPlatform, nesting, maxWait, timeout | PostgreSQL | connections pass from tenant to tenant, pool exhaustion | no tenant sees another's rows; every call comes back |
| RLS generator, migration, grants (`gen-rls.ts`, `build-migration.ts`, `010`-`013`) | two maps, two files, tables and roles | check, write, assemble, deploy | database | cycles, nested aliases, a script or a deployment that stops half-way, overlapping grants | accepted maps are sound; predicates are chains; nothing is granted before it is constrained |
| Web client (`shared/api`, `features/auth`, pages) | session store, refresh cookie, pathname | bootstrap effect, login-like forms, redirects | API | effects overlap each other, logins and reloads; answers get lost | the store is one user's; signed in means able to refresh; the tab comes to rest |
| Storage keys, queue names, environment check, schema, shell | none | builders and scripts | - | - | see section 7 |

## 2. Modules

| Module | Models | Correspondence |
|---|---|---|
| `RefreshTokens` | the table and its handlers | `pc[r]` is the next awaited transaction of handler `r`; `Lookup`, `RevokeAll`, `RevokeOld`, `Create`, `Members` are the five steps of `refresh`; `Load`, `Mint`, `Reply` are `buildLoginResponse`; `RevokeOne` is `logout`. `Fail` stops a handler anywhere |
| `SessionLifecycle` | abstract: a session is none, active, rotating or ended | `RefreshTokens` implements it under the mapping `SessionState`; a session is named by its first token |
| `AccessTokens` | JWT life, `JwtAuthGuard`, logout | a clock with `PerSecond` steps a second; `Verify` and `Exists` are the guard's two steps, `Revoke` and `Deny` logout's two writes. `Cookies` are the refresh tokens with a row, `revoked` those a logout has revoked. The handler finds the row by its hash only, so a logout may bring any cookie, or none, with any access token |
| `RateLimiter` | one counter key | one action per Redis command; the counter saturates at `Limit + 1` because the code compares it only with 1 and the limit. An attempt is let in when INCR numbers it |
| `ReadThroughCache` | one cached key, for the two role lookups and the entitlement lookup, which run the same steps | `Get`, `Load`, `Fill`, `Use`; ticks age the key |
| `PermissionGuard` | the two guards in front of a handler, and the permission matrix | extends `ReadThroughCache`: a request at the stage "role" is one of its readers, other callers (`Resolve`) share the key. A route is what the two decorators say on the handler and on its class. The guards are applied per controller with `@UseGuards`; there is no application-wide guard |
| `Accounts` | users, organizations, memberships, invitations, idempotency keys, links | a user is its address, an organization its slug (both columns are unique). The transaction that creates an organization is two actions because `signup` creates the user in a second transaction inside it; `held` is the slug locked meanwhile. `Offer[i]` is the role that invitation `i` offers (`Invitation.role`, any of the enum, OWNER included), fixed when the row is created |
| `Directory` | abstract: organizations, memberships, invitations and which are used | `Accounts` implements it: found, issue and redeem (with the role the invitation offers) are one step each, although they take several transactions |
| `SignupPage` | one load of the signup page in front of `Accounts` | extends `Accounts`: each submission is one of its signups with the key of the load. Other clients, among them earlier loads of the page, sign up as well; of the other endpoints only the ones signup can meet matter, and none of them is needed |
| `TenantContext` | the two doors, the pool and the policy | a transaction is a pair (caller, outer or inner); `setting[x]` is `app.current_org_id` on connection `x`; a row stands for the organization that owns it. PostgreSQL and Prisma are external: a local setting ends with its transaction and leaves the empty string |
| `RlsMigration` | the way of a policy into the database | `pc` is the script that runs; `walk` is `assertAcyclic`'s loop, `drafts` what `buildExistsPredicate` has nested so far. A predicate is the sequence of its EXISTS hops and their aliases; tables are grouped by what `013_grants.sql` says of them. A deployment commits statement by statement, of which one transaction is the special case in which a failure rolls everything back |
| `WebSession` | one browser tab in front of `RefreshTokens` | extends `RefreshTokens`: every server step is one of its actions, and the tab adds the store, the cookie, the pathname and what it waits for in each slot. `mounted` is the `isMounted` flag of the current effect; an effect that is not mounted is one whose flag is false. `SubmitForm` is a login-like form, `SubmitLink` the effect of the verify page |

`RefreshTokensProofs`, `AccessTokensProofs`, `RateLimiterProofs`, `ReadThroughCacheProofs`
(with `PermissionGuard`), `AccountsProofs` (with `SignupPage`), `TenantContextProofs`,
`RlsMigrationProofs` and `WebSessionProofs` hold the theorems. The `MC*` modules give the
symmetry sets; the `.cfg` files the constants.

Definitions whose comment begins "A mutant" are variants of one action, as a plausible
bug would leave it. They are in no specification: each shows that the property it is
listed for in `PROJECT.json` can fail.

## 3. Runs

| Run | Question | Instance | States, time |
|---|---|---|---|
| `tokens` | the safety of the table under any interleaving of handlers that may stop anywhere, and the refinement of `SessionLifecycle` | 3 tokens, 1 user, 2 handlers | 631 k, 35 s |
| `tokens_presented_twice` | *expected violation*, section 6 | 3 tokens, 2 handlers | seconds |
| `limiter` | two windows' worth of attempts, lockouts end | limit 2, window 3, 3 attempts | 54 k, 5 s |
| `limiter_temporary` | *expected violation*, section 6 | limit 2, 3 attempts | seconds |
| `cache` | how old a role in use can be, and which handlers the guards let through because of it | TTL 3, latency 1, 2 roles, 2 readers, every route of `MCRoutes` | under 2 min |
| `access` | is a logout final, and on which side does a broken one stop | 1 token, 2 cookies, 3 requests, half-second clock, lives of 2 s | 3.1 M, 1-2 min |
| `accounts` | acknowledged signups, suspensions, and the refinement of `Directory`: owners, roles, invitations | 2 addresses, 2 slugs, 1 key, 1 invitation (as ADMIN), 2 requests | 2.1 M, 2-3 min |
| `signup` | one organization per address, what the prompt means, does a try end, do tries help | 2 addresses, 2 slugs, 2 keys, 2 requests | 429 k, 1-2 min |
| `tenant` | isolation and return of nested calls | 2 organizations, 2 callers, 2 connections | 52 k, 10 s |
| `platform_lookup` | *expected violation*, section 6 | 1 organization, 1 connection | seconds |
| `rls` | sound maps, chained predicates, grants last, roles as documented | every pair of maps over 4 tables | under 2 min |
| `web` | one tab with two users against the server | 4 tokens, 2 users, 2 exchanges, 2 moves of the user | 712 k, 2-3 min |

**Why the bounds are enough.** The hazards are races of two handlers, so two are in
flight; the limiter and the denylist get three, for a step that lands between two
others. Three tokens are a login, its successor and a fork or a second session; the tab
needs a fourth because `GET /auth/me` mints one that it never delivers. Two connections
and two nested callers are the smallest pool that all callers can hold while each wants
another. One slug makes signups compete; two let them miss each other. The page needs
two keys, its own and that of the others, and two addresses, one mistyped.
`MaxMoves = 2` covers a reload or a link during a login, and a second reload on top of a
lost answer. `MaxTime = 8` half seconds is past the life of a token signed in the second half
of the first second and of an entry written while it was valid. The second cookie is that of another session or
another user. No handler of `Accounts` looks at the role it writes, so one offered role
stands for all; the proofs take any. Four
tables have a chain of three hops, the deepest the real maps have (`app_credentials`),
and every cycle up to four; `MaxHops = 3` is never the reason for a rejection there (the
code's 10 is not either, for maps this deep), and the proofs take any limit. Slots are
reused (`Leave`), so a run is not limited to that many requests. The proofs remove the
bounds for the safety properties (section 5).

Symmetry is declared only where no liveness property is checked. Deadlock is checked
except in `web`, where a user who has made all moves leaves the tab at rest, and in
`rls`, where a deployment ends. The tab is not given the server's clock or a user who
loses the last organization (`Lapse`, `LoseOrgs`): `tokens` has them.

## 4. Fairness

* `RateLimiter`: weak fairness of the steps after INCR for each attempt (the event loop
  runs a handler whose answer is there) and of the clock. A handler may still stop at
  any time, and no attempt has to come.
* `SignupPage`: weak fairness of each handler's next step and of the arrival of an answer
  (or of an error, when its handler has stopped), and failures stop eventually; without
  that last assumption a rival can take the slug and fail again and again. That the
  user submits again is not assumed: `PersistencePays` has it as its premise.
* `TenantContext`: weak fairness of the steps that take a call to its end and of the
  `maxWait` timer; strong fairness of `End`, because a callback has finitely many
  statements and nested calls. The `timeout` timer is not fair: calls return without it.
* `WebSession`: weak fairness of pending navigations, of what the effect is about to
  send, and of each exchange: a fetch is answered, refused or breaks. Nothing forces a
  fetch to succeed.

## 5. Proofs

Each `*Proofs` module defines an inductive invariant, proves that it holds initially and
is kept by every step (one lemma per action or group of similar actions), and derives
the properties from it. All constants are arbitrary; the assumptions are the `ASSUME`s
of the component: `None` is no token, user or address; limits, windows and lives are
natural numbers; the key of the page is a key; an invitation offers some role; what a decorator asks for is in the
matrix; and `DenyTTL >= AccessTTL` (both are 900 in the code).

| Module | Proved | What the invariant adds, and why |
|---|---|---|
| `RefreshTokensProofs` | `TypeOK`, `RotationRetiresParent`, `RevokedTokenNeverRotates`, `RevocationStaysWithUser`, that the reuse answer ends all sessions but one under rotation (`ReuseEndsSessions` states `ReuseLogsOut`), the refinement `SessionsFollowLifecycle`; and of every size, although no run lists them: the reuse answer leaves no token unrevoked that was there when it arrived (`ReuseRevokes`), an ended session stays ended (`EndedForever`), a session keeps its user (`SessionsStayWithUser`), and only overlapping refreshes are both answered with a token (`OnlyOverlapAnswersTwice`) | what a handler has established when it reaches a step: it knows its row and that row's owner (`HandlersKnowTheirRow`), its old token is revoked by the time it creates (`RevokedBeforeCreate`), a stale one can only be at its lookup or at the mass revocation (`StaleHandlersStop`), and what was in the table on arrival still is (`HistoryIsPast`). The properties speak of answered requests, so they are not inductive without these. The refinement adds that a family starts at its own first token (`FamiliesAreRooted`), so that a step of one session is a stutter of the others. `PresentationsFit` adds that a refresh that found a successor of its token on arrival is stale |
| `AccessTokensProofs` | `TypeOK`, `LoggedOutTokenIsDead`, `DeniedAfterRevoked`; `LogoutStopsRequestsUnderWay`: a request already past the signature check is stopped as well | `DenialOutlasts`: once the entry is written it goes away no earlier than the token expires, for any clock resolution; this is where `DenyTTL >= AccessTTL` and the rounding of `iat` meet. `FoundMeansRevoked`: a logout that found the row of its cookie has revoked it before it writes the entry |
| `RateLimiterProofs` | `TypeOK`, `TwoWindowsBoundAnyWindow`; `WindowsAreSetOnce`: no window is prolonged; `OnlyStopsBetweenLeaveCounters` and `AbandonedCountersStay`, section 6 | a key lives a whole window from its EXPIRE, so what the last `Window - ttl` ticks let in was numbered by it (`CountedOnKey`), and a stretch meets at most one key before it (`OneKeyBefore`); a late EXPIRE only shortens what `CountedOnKey` claims. `OneSetsTTL`: at most one attempt is about to send EXPIRE, and the key it created is still there |
| `ReadThroughCacheProofs` | `UsedValueIsRecent`, `GuardTypeOK`, `NoUserOnlyOnPublic`, `HandlerHadPermission` and its converse for 403 and 404 (`RefusalsHadReason`), that the guards implement the cache, that roles are cumulative | the ages of the stored value and of the values readers hold are bounded by what they have waited (`KeyAges`, `HeldAges`); every step of the guards is a step of the cache or leaves it alone, so the bound holds behind them. `AbsenceIsFresh`: a lookup that says "no membership" has just read it, because only memberships are cached; hence a 404 is at most `Latency` old where a 403 can be `MaxAge` old |
| `AccountsProofs` | `TypeOK`, `SignupFoundsOneOrg`, `AcceptedSignupHasAccount`, `SuspensionLiftedByLink`, the refinement `MembershipsAreGranted`; `MembershipsHaveOrigin` and `RolesAreKept`, which say what the refinement means for one membership; for the page `PageTypeOK`, `PromptMeansAccount`, `SignupFoundsOneOrg`, and that the rest holds behind it (`PageKeepsPromises`) | steps fit their endpoint and inputs (`StepsFit`), two handlers never hold one slug (`HoldersDiffer`), and founders are the users of their organizations (`FoundersFit`). Every organization has an owner (`EveryOrgHasOwner`) and every used invitation its member (`UsedInvitationGrantsMembership`), theorems of their own; the latter makes a second acceptance of an invitation a stutter of `Directory`. `RolesAreKept` is read off `Directory`'s actions; that everybody in an organization except at most one, its founder and an owner, has been invited with the role it has follows from it (there can be several owners), and that the founder is the owner from `FoundersFit` (`FounderChange`) |
| `TenantContextProofs` | `TypeOK`, `TenantIsolation`, `PlatformSeesNoTenant`; `CallsLeaveNothing`: a call that is over holds no connection, and a connection that carries an organization serves a call of it; `PlatformLookupsMiss`, section 6 | a connection serves one transaction (`ConnsServeOne`), and its setting is that of the transaction that holds it (`SettingIsOwn`, `SettingHasCaller`); without it a returned connection could carry a tenant to the next caller. `InnerWithinOuter`: the second transaction exists only inside the first, so that one call returning is both returning |
| `RlsMigrationProofs` | `TypeOK`, `AcceptedMapsAreGrounded` and its converse (`OnlyFlawedMapsAreRefused`), `PoliciesFollowParents`, `GrantedIsConstrained`, `RolesAsDocumented` (`RolesEndAsDocumented`), `DeployedPoliciesAreTheFiles` | the tables a finished walk has passed lead to a direct table, so a stuck set has no child that was walked from; drafts are prefixes of the chain of parents; and the privileges are empty until the policies are all there. `GrantInv`: a role holds a privilege exactly if the last statement so far that speaks of it gave it. The converse needs `SeenInv`: what a walk has seen are child tables, as many as it has made hops, so that it repeats or leaves the maps only on a flaw and reaches the limit only with that many child tables |
| `WebSessionProofs` | `TabTypeOK`, `StoreIsOneUser`, `SignedInCanRefresh`, `AloneKeepsOneToken`, `RevocationStaysWithUser`, that the tab and the server implement `RefreshTokens` (`ServerRuns`), and hence its theorems for the two together (`TabKeepsRotation`, `TabSessionsFollowLifecycle`, `TabSessionsStayEnded`, `TabPresentsToServer`) | extends `RefreshTokensProofs` and uses its invariant. Every cookie came in an answer (`CookieIsHeld`), an effect's access token belongs to some delivered token (`AccessIsHeld`), and what the tab waits for in a slot is what the server does there (`SlotsFit`). Hence each step of the tab is a step of the server or none, and every theorem of `RefreshTokensProofs` holds of the composition. For a tab whose uses of the cookie never overlapped, `AloneInv` adds that at most one rotation is under way and which token the cookie then is |

The safety invariants and action properties of all passing runs are proved. The
invariants and action properties that only theorems state were tried by TLC on small
instances before they were proved.

**Only model-checked.** Liveness (`LockoutEnds`, `SubmissionEnds`, `PersistencePays`,
`CallsReturn`, `Settles`) is out of the prover's reach. Induction over data and recursive
operators cannot be proved with the installed provers either; no module needs them: the
history of the limiter is kept as running sums for this reason, and `RolesEndAsDocumented`
goes through the ten statements of `013_grants.sql` one by one.

## 6. Where the code and its documentation differ

Checked, each by a run that TLC must find violated:

* **`tokens_presented_twice`.** `WEEK2_AUTH_SETUP.md:199` says that a token presented
  twice revokes everything and is answered 401. `refresh` looks the token up and revokes
  it in two transactions and the update does not require `revokedAt` to be null: two
  overlapping refreshes both succeed and the session forks. `AloneKeepsOneToken` is what
  holds for a client that waits, and `OnlyOverlapAnswersTwice` proves that overlap is the
  only way: each of the two arrived before the other's successor was stored.
* **`limiter_temporary`.** `auth.service.ts:234` says 15 minutes. INCR and EXPIRE are two
  commands; when the handler stops in between, the counter stays for ever. Proved:
  without that stop every counter has a TTL or is about to get one
  (`OnlyStopsBetweenLeaveCounters`), and after it nothing the handlers do removes the counter
  or ends a lockout on it (`AbandonedCountersStay`).
* **`platform_lookup`.** `tenant-context.ts:62-63` says that invitations are looked up by
  token before the organization is known. Their table has a forced policy and
  `withPlatform` sets no organization: under a role without `BYPASSRLS` the row is not
  found, or the statement fails with 22P02 on a connection that has served a tenant.
  `PlatformLookupsMiss` proves that this is no matter of timing: no such lookup ever finds
  the row. (The other models assume a role for which such lookups go through.)

Read while modelling, and not checked by a run:

*Sessions and tokens*

* the mass revocation misses the row that an overlapping refresh creates right after it,
  although the answer says "All sessions revoked" (`auth.service.ts:475-477`);
  `ReuseLogsOut` states what does hold, checked and proved: this rotation under way is the
  only exception;
* logout looks the cookie up by its hash and ties it neither to the token nor to the user of the
  request (`auth.service.ts:552-571`). With a superseded cookie, somebody else's, or a refresh
  past its lookup, the access token is denied while its session keeps a usable refresh
  token; `DeniedAfterRevoked` is the order that does hold;
* every `GET /auth/me` creates a refresh token that is not delivered to anybody and that
  nothing but a mass revocation ends (`auth.controller.ts:171`);
* the client's logout sends no access token (`client.ts:223`), which the guard requires; no
  page calls it;
* the bootstrap effect runs on every change of the pathname although its header speaks of a
  hard reload (`use-bootstrap-session.ts:3`, 75). Two overlapping refreshes of one cookie can
  leave the browser with a revoked cookie, and an effect that is no longer mounted says
  nothing: this is why `SignedInCanRefresh` has the premise `alone`;
* signed in as one user, a login as another whose answer is lost after its headers leaves
  the store of the first with the cookie of the second; each is valid by itself;
* the effect of the verify page depends on the mutation object (`verify/page.tsx:32`), which
  the query library renews with each render: a bad link is submitted again after each answer. The model
  counts these submissions among the moves of the user, so `Settles` says nothing about
  this repetition.

*Accounts and pages*

* an invitation may offer OWNER (`invitations.service.ts:91`, 134 write the role as it is), so an
  organization can have several owners;
* the limiter counts successful logins as well (`auth.service.ts:236`,
  `WEEK2_AUTH_SETUP.md:178`), and login answers 401, discover 400, where line 345 has 429 (the
  login page's branch for 429 is never taken); addresses are cut at the last colon, so IPv6
  clients can share a key;
* signup is not atomic (`auth.service.ts:147-163`; `WEEK2_AUTH_SETUP.md:84`) and can end in
  500 where line 83 says that it always returns 202. After a stop between its two commits, the
  next try is answered 202 and gets neither an organization nor a link;
* the signup page sends one key for all its tries (`signup/page.tsx:13`): after a corrected
  address it replays the 202 of the first one and says "We've sent a verification link to your
  email." (line 55). `PromptMeansAccount` is what can be relied on;
* the organization forms derive the slug from the first keystroke of the name only
  (`signup/page.tsx:31-35`, 152-155; `orgs/new/page.tsx:39-43`), and the invitation page's
  hidden password and name default to "", which their schema refuses, so that an invitee with
  an account cannot submit it (`invite/[token]/page.tsx:31-36`, `schemas.ts:50-54`);
* `verifyEmail` activates a suspended account (`auth.service.ts:605`), which
  `SuspensionLiftedByLink` singles out; refresh and accept-invitation do not look at the
  status; `forceSso` (`schema.prisma:210`) is not enforced at login;
* an accepted invitation creates the user and the membership in two transactions
  (`invitations.service.ts:114`), against its header (line 15); `MembershipsAreGranted` shows
  what of the promise survives;
* `role:` and `ent:` keys do not follow the prefix that `queues/index.ts` prescribes.

*Database*

* the generated policies of `users` and `refresh_tokens` name a column `org_id` of `users` that
  `schema.prisma` does not have (`gen-rls.ts:25`): the deployment fails there;
* `013_grants.sql:55` says that future tables must not silently become writable, and its next
  statement's default privileges (57-58) give `qa_app` all four operations on them;
* appending `012_rls_policies.sql` to a second migration makes `CREATE POLICY` fail on the
  policies that are there;
* `organizations`, `plans`, the agent control tables and the `eval_*` tables have no policy.

## 7. What is not modelled

* Cryptography and randomness: hashes are injective, random tokens are fresh, passwords are
  right or wrong as the model chooses.
* The contents of e-mails, names, plans and regions; DTO and form validation; logging; wording.
* The entitlement merge (plan defaults and overrides), which is pure.
* `useLogout`, the createOrg form in the tab, which changes no session state, and several tabs
  that share a cookie. The e-mail step of the login page: a late answer of
  `GET /auth/discover` can bring back the password step of an address the user has left, but
  the address shown and the address sent are set together.
* In `RlsMigration`: sequences, default privileges, passwords, and the files of `ORDER` that
  hold extensions, an index or only a TODO. What a predicate lets through is `TenantContext`'s.
* In `RlsMigration`: the removal of an entry from the generator's maps; between two runs of the
  generator they only grow.
* The reads of `entitlements.service.ts` are one step (`Load`); the cache bound counts from it.
* Redis and API hosts share one clock. Redis keeps what it has acknowledged.
* The storage-key builders (pure strings; every builder puts a validated organization first),
  the queue table, the environment check, support access (which only throws), the health
  endpoint, logger, lint rule, UI kit and deployment files: `PROJECT.json` gives the reason for
  each.

## 8. How the project grew, and what could follow

In this order: `RefreshTokens` with `SessionLifecycle`, `RateLimiter`, `ReadThroughCache`,
`AccessTokens`, `Accounts`, `TenantContext`, `WebSession`; then `PermissionGuard` over the
cache, `RlsMigration`, `SignupPage` over the accounts, the cookie's half of logout in
`AccessTokens`, and `Directory`; with their proofs. Then the proofs that go beyond the runs:
what stays so for ever (sessions, memberships, abandoned counters), the converses
(`OnlyFlawedMapsAreRefused`, `RefusalsHadReason`), the exact reach of the disagreements of
section 6, and what carries over to the compositions with the page and the tab.

What could follow: several tabs over one cookie; the e-mail step of the login page in front of
the limiter of `GET /auth/discover`; an abstract tenant's view that `TenantContext` implements;
storage keys, once something stores an object; and the workers, once they exist.
