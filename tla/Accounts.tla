------------------------------ MODULE Accounts ------------------------------
(***************************************************************************)
(* Users, organizations, memberships and invitations, and the handlers     *)
(* that write them: AuthService.signup, .login, .verifyEmail,              *)
(* .resendVerificationEmail and .createOrg, and                            *)
(* InvitationsService.acceptInvitation.                                    *)
(*                                                                         *)
(* A handler is a sequence of transactions and Redis commands, one action  *)
(* each; others run between them, and a handler can stop anywhere.  The    *)
(* exception is the transaction that creates an organization: it stays     *)
(* open while signup creates the user in a second transaction on another   *)
(* connection, so it is two actions, and its slug is locked in between.    *)
(*                                                                         *)
(* A user is its e-mail address and an organization its slug: both columns *)
(* are unique.  Opening the session is one action here; RefreshTokens has  *)
(* its steps.                                                              *)
(***************************************************************************)
EXTENDS FiniteSets

CONSTANTS
  Emails, Slugs,
  Keys,       \* values of the Idempotency-Key header
  Invites,    \* invitations that can exist
  Offer,      \* Offer[i] : Invitation.role, given once and for all on creation
  Requests,   \* handler executions that can be in flight together
  None

Roles == {"OWNER", "ADMIN", "EDITOR", "VIEWER"}

ASSUME OfferAssumption == Offer \in [Invites -> Roles]
ASSUME NoneAssumption == None \notin Emails \cup Slugs \cup (Emails \X Slugs)

VARIABLES
  account,    \* account[e]   : User.status, "none" without a row
  orgs,       \* committed organizations
  role,       \* role[<<e, s>>]   : Membership.role, "none" without a row
  invite,     \* invite[i]    : the <<address, organization>> invited, or None
  used,       \* invitations with acceptedAt set
  lapsed,     \* invitations whose expiresAt passed before they were used
  cached,     \* cached[k]    : the address whose 202 is cached under k, or None
  links,      \* addresses with an unexpired verification link
  pc,         \* pc[r]        : the next step of request r
  op,         \* op[r]        : its endpoint
  email,      \* email[r]     : the address it is about
  slug,       \* slug[r]      : the organization it is about
  with,       \* with[r]      : its idempotency key or invitation
  held,       \* held[r]      : the slug in r's open transaction, or None
  member,     \* member[r]    : r found a membership when it looked
  out,        \* out[r]       : how r was answered: 202, another 2xx, or an error
  founder     \* founder[s]   : the address whose signup created s (history)

db == <<account, orgs, role, invite, used, lapsed, founder>>
redis == <<cached, links>>
input == <<op, email, slug, with>>
vars == <<db, redis, input, pc, held, member, out>>

Statuses == {"none", "INVITED", "ACTIVE", "SUSPENDED"}
Endpoints == {"none", "signup", "login", "verify", "resend", "createOrg", "accept"}
Answers == {"none", "202", "ok", "refused"}
Steps == {"idle", "idem", "find", "org", "user", "commit", "fetch", "cache", "check",
          "activate", "session", "link", "invite", "invitee", "joinRead",
          "joinWrite", "newUser", "joinNew", "done"}

Types ==
  /\ account \in [Emails -> Statuses]
  /\ orgs \subseteq Slugs
  /\ role \in [Emails \X Slugs -> Roles \cup {"none"}]
  /\ invite \in [Invites -> (Emails \X Slugs) \cup {None}]
  /\ used \subseteq Invites /\ lapsed \subseteq Invites
  /\ cached \in [Keys -> Emails \cup {None}]
  /\ links \subseteq Emails
  /\ pc \in [Requests -> Steps]
  /\ op \in [Requests -> Endpoints]
  /\ email \in [Requests -> Emails \cup {None}]
  /\ slug \in [Requests -> Slugs \cup {None}]
  /\ with \in [Requests -> Keys \cup Invites \cup {None}]
  /\ held \in [Requests -> Slugs \cup {None}]
  /\ member \in [Requests -> BOOLEAN]
  /\ out \in [Requests -> Answers]
  /\ founder \in [Slugs -> Emails \cup {None}]

\* Rows, links and requests refer to rows that are there.
References ==
  /\ \A e \in Emails, s \in Slugs :
       role[<<e, s>>] # "none" => account[e] # "none" /\ s \in orgs
  /\ \A i \in Invites : invite[i] # None => invite[i][2] \in orgs
  /\ \A i \in used : invite[i] # None
  /\ \A e \in links : account[e] # "none"
  /\ \A k \in Keys : cached[k] # None => account[cached[k]] # "none"
  /\ \A r \in Requests : held[r] \notin orgs

TypeOK == Types /\ References

Init ==
  /\ account = [e \in Emails |-> "none"]
  /\ orgs = {} /\ used = {} /\ lapsed = {} /\ links = {}
  /\ role = [p \in Emails \X Slugs |-> "none"]
  /\ invite = [i \in Invites |-> None]
  /\ cached = [k \in Keys |-> None]
  /\ pc = [r \in Requests |-> "idle"]
  /\ op = [r \in Requests |-> "none"]
  /\ email = [r \in Requests |-> None]
  /\ slug = [r \in Requests |-> None]
  /\ with = [r \in Requests |-> None]
  /\ held = [r \in Requests |-> None]
  /\ member = [r \in Requests |-> FALSE]
  /\ out = [r \in Requests |-> "none"]
  /\ founder = [s \in Slugs |-> None]

HasOrg(e) == \E s \in Slugs : role[<<e, s>>] # "none"

(***************************************************************************)
(* Requests arrive                                                         *)
(***************************************************************************)
Arrive(r, endpoint, step, e, s, w) ==
  /\ pc[r] = "idle"
  /\ pc' = [pc EXCEPT ![r] = step]
  /\ op' = [op EXCEPT ![r] = endpoint]
  /\ email' = [email EXCEPT ![r] = e]
  /\ slug' = [slug EXCEPT ![r] = s]
  /\ with' = [with EXCEPT ![r] = w]
  /\ UNCHANGED <<db, redis, held, member, out>>

BeginSignup(r) ==
  \E e \in Emails, s \in Slugs, k \in Keys : Arrive(r, "signup", "idem", e, s, k)

\* With the right password; a wrong one changes nothing.
BeginLogin(r) == \E e \in Emails : Arrive(r, "login", "check", e, None, None)

\* The link can be followed as often as one likes until it expires.
BeginVerify(r) == \E e \in links : Arrive(r, "verify", "activate", e, None, None)

BeginResend(r) == \E e \in Emails : Arrive(r, "resend", "link", e, None, None)

\* Behind both guards: the user is a member of the organization in its token.
BeginCreateOrg(r) ==
  \E e \in Emails, s \in Slugs :
    HasOrg(e) /\ Arrive(r, "createOrg", "org", e, s, None)

BeginAccept(r) ==
  \E i \in Invites :
    /\ invite[i] # None
    /\ Arrive(r, "accept", "invite", invite[i][1], invite[i][2], i)

Begin(r) == BeginSignup(r) \/ BeginLogin(r) \/ BeginVerify(r) \/ BeginResend(r)
              \/ BeginCreateOrg(r) \/ BeginAccept(r)

Goto(r, step) == pc' = [pc EXCEPT ![r] = step] /\ UNCHANGED <<input, out>>

\* What a request was about is over with it.
Forget(r) ==
  /\ op' = [op EXCEPT ![r] = "none"]
  /\ email' = [email EXCEPT ![r] = None]
  /\ slug' = [slug EXCEPT ![r] = None]
  /\ with' = [with EXCEPT ![r] = None]

Answer(r, status) == /\ pc' = [pc EXCEPT ![r] = "done"]
                     /\ out' = [out EXCEPT ![r] = status]
                     /\ Forget(r)

\* The open transaction of r, if any, is rolled back.
Rollback(r) == held' = [held EXCEPT ![r] = None]

(***************************************************************************)
(* AuthService.signup                                                      *)
(***************************************************************************)

\* A mutant: the key is taken before the work is done.
SignupReplayReserving(r) ==
  /\ pc[r] = "idem"
  /\ \/ cached[with[r]] # None /\ Answer(r, "202") /\ UNCHANGED cached
     \/ /\ cached[with[r]] = None /\ Goto(r, "find")
        /\ cached' = [cached EXCEPT ![with[r]] = email[r]]
  /\ UNCHANGED <<db, links, held, member>>

\* A key that was answered before gets the same answer, whatever the body.
SignupReplay(r) ==
  /\ pc[r] = "idem"
  /\ \/ cached[with[r]] # None /\ Answer(r, "202")
     \/ cached[with[r]] = None /\ Goto(r, "find")
  /\ UNCHANGED <<db, redis, held, member>>

\* A mutant: only a verified address counts as known.
SignupFindVerified(r) ==
  /\ pc[r] = "find"
  /\ Goto(r, IF account[email[r]] = "ACTIVE" THEN "cache" ELSE "org")
  /\ UNCHANGED <<db, redis, held, member>>

\* A known address is answered like a new one, after a pause.
SignupFind(r) ==
  /\ pc[r] = "find"
  /\ Goto(r, IF account[email[r]] # "none" THEN "cache" ELSE "org")
  /\ UNCHANGED <<db, redis, held, member>>

\* A mutant: the error is answered while the transaction stays open.
SignupUserLeaking(r) ==
  /\ pc[r] = "user"
  /\ IF account[email[r]] = "none"
       THEN /\ account' = [account EXCEPT ![email[r]] = "INVITED"]
            /\ Goto(r, "commit")
       ELSE Answer(r, "refused") /\ UNCHANGED account
  /\ UNCHANGED <<orgs, role, invite, used, lapsed, founder, redis, held, member>>

\* A mutant: upsert instead of create.
SignupUserUpserting(r) ==
  /\ pc[r] = "user"
  /\ account' = [account EXCEPT ![email[r]] = IF @ = "none" THEN "INVITED" ELSE @]
  /\ Goto(r, "commit")
  /\ UNCHANGED <<orgs, role, invite, used, lapsed, founder, redis, held, member>>

\* user.create commits on its own connection; the unique e-mail column makes
\* the second of two equal signups fail, which rolls its organization back.
SignupUser(r) ==
  /\ pc[r] = "user"
  /\ \/ /\ account[email[r]] = "none"
        /\ account' = [account EXCEPT ![email[r]] = "INVITED"]
        /\ Goto(r, "commit") /\ UNCHANGED held
     \/ /\ account[email[r]] # "none"
        /\ Answer(r, "refused") /\ Rollback(r) /\ UNCHANGED account
  /\ UNCHANGED <<orgs, role, invite, used, lapsed, founder, redis, member>>

\* redis.set of the answer, for 24 hours.
SignupCache(r) ==
  /\ pc[r] = "cache"
  /\ cached' = [cached EXCEPT ![with[r]] = email[r]]
  /\ Answer(r, "202")
  /\ UNCHANGED <<db, links, held, member>>

(***************************************************************************)
(* The transaction that creates an organization: signup and createOrg      *)
(***************************************************************************)

\* organization.create waits while another open transaction has inserted the
\* slug, and fails once it is committed.
InsertOrg(r) ==
  /\ pc[r] = "org"
  /\ \A q \in Requests : held[q] # slug[r]
  /\ \/ slug[r] \in orgs /\ Answer(r, "refused") /\ UNCHANGED held
     \/ /\ slug[r] \notin orgs /\ held' = [held EXCEPT ![r] = slug[r]]
        /\ Goto(r, IF op[r] = "signup" THEN "user" ELSE "commit")
  /\ UNCHANGED <<db, redis, member>>

\* membership.create, auditLog.create and COMMIT; signup then issues the
\* verification link.
CommitOrg(r) ==
  /\ pc[r] = "commit"
  /\ orgs' = orgs \cup {held[r]}
  /\ role' = [role EXCEPT ![<<email[r], held[r]>>] = "OWNER"]
  /\ founder' = IF op[r] = "signup"
                  THEN [founder EXCEPT ![held[r]] = email[r]] ELSE founder
  /\ Rollback(r)
  /\ \/ op[r] = "signup" /\ Goto(r, "cache") /\ links' = links \cup {email[r]}
     \/ op[r] # "signup" /\ Goto(r, "fetch") /\ UNCHANGED links
  /\ UNCHANGED <<account, invite, used, lapsed, cached, member>>

\* createOrg reads the new organization back before it answers.
FetchOrg(r) ==
  /\ pc[r] = "fetch"
  /\ Answer(r, "ok")
  /\ UNCHANGED <<db, redis, held, member>>

(***************************************************************************)
(* AuthService.login, .verifyEmail, .resendVerificationEmail               *)
(***************************************************************************)

\* The stored status is compared with SUSPENDED only, and the domain claim of
\* the address is not looked at.
LoginCheck(r) ==
  /\ pc[r] = "check"
  /\ \/ account[email[r]] \in {"none", "SUSPENDED"} /\ Answer(r, "refused")
     \/ account[email[r]] \in {"INVITED", "ACTIVE"} /\ Goto(r, "session")
  /\ UNCHANGED <<db, redis, held, member>>

\* user.update sets the status whatever it was.
Activate(r) ==
  /\ pc[r] = "activate"
  /\ account' = [account EXCEPT ![email[r]] = "ACTIVE"]
  /\ Goto(r, "session")
  /\ UNCHANGED <<orgs, role, invite, used, lapsed, founder, redis, held, member>>

\* buildLoginResponse wants a membership.
OpenSession(r) ==
  /\ pc[r] = "session"
  /\ Answer(r, IF HasOrg(email[r]) THEN "ok" ELSE "refused")
  /\ UNCHANGED <<db, redis, held, member>>

\* A mutant: a link for whatever address is asked for.
ResendUnchecked(r) ==
  /\ pc[r] = "link"
  /\ links' = links \cup {email[r]}
  /\ Answer(r, "ok")
  /\ UNCHANGED <<db, cached, held, member>>

Resend(r) ==
  /\ pc[r] = "link"
  /\ links' = IF account[email[r]] = "INVITED" THEN links \cup {email[r]} ELSE links
  /\ Answer(r, "ok")
  /\ UNCHANGED <<db, cached, held, member>>

(***************************************************************************)
(* InvitationsService.acceptInvitation                                     *)
(***************************************************************************)

\* A mutant: the invitation is marked as used when it is looked up.
LookupInviteMarking(r) ==
  /\ pc[r] = "invite"
  /\ IF with[r] \in lapsed \cup used
       THEN Answer(r, "refused") /\ UNCHANGED used
       ELSE Goto(r, "invitee") /\ used' = used \cup {with[r]}
  /\ UNCHANGED <<account, orgs, role, invite, lapsed, founder, redis, held, member>>

LookupInvite(r) ==
  /\ pc[r] = "invite"
  /\ IF with[r] \in lapsed \cup used THEN Answer(r, "refused") ELSE Goto(r, "invitee")
  /\ UNCHANGED <<db, redis, held, member>>

\* A new address needs a password and a name in the request.
FindInvitee(r) ==
  /\ pc[r] = "invitee"
  /\ \/ account[email[r]] # "none" /\ Goto(r, "joinRead")
     \/ account[email[r]] = "none" /\ (Goto(r, "newUser") \/ Answer(r, "refused"))
  /\ UNCHANGED <<db, redis, held, member>>

JoinRead(r) ==
  /\ pc[r] = "joinRead"
  /\ member' = [member EXCEPT ![r] = role[<<email[r], slug[r]>>] # "none"]
  /\ Goto(r, "joinWrite")
  /\ UNCHANGED <<db, redis, held>>

\* The rest of the same transaction: it adds a membership with the role of the
\* invitation if it saw none, and fails if there is one by now.
JoinWrite(r) ==
  /\ pc[r] = "joinWrite"
  /\ IF ~member[r] /\ role[<<email[r], slug[r]>>] # "none"
       THEN Answer(r, "refused") /\ UNCHANGED <<role, used, lapsed>>
       ELSE /\ role' = IF member[r] THEN role
                       ELSE [role EXCEPT ![<<email[r], slug[r]>>] = Offer[with[r]]]
            /\ used' = used \cup {with[r]}
            /\ lapsed' = lapsed \ {with[r]}
            /\ Goto(r, "session")
  /\ member' = [member EXCEPT ![r] = FALSE]
  /\ UNCHANGED <<account, orgs, invite, founder, redis, held>>

\* A mutant: upsert instead of create.
NewUserUpserting(r) ==
  /\ pc[r] = "newUser"
  /\ account' = [account EXCEPT ![email[r]] = "ACTIVE"]
  /\ Goto(r, "joinNew")
  /\ UNCHANGED <<orgs, role, invite, used, lapsed, founder, redis, held, member>>

\* user.create in a transaction of its own.
NewUser(r) ==
  /\ pc[r] = "newUser"
  /\ IF account[email[r]] # "none"
       THEN Answer(r, "refused") /\ UNCHANGED account
       ELSE /\ account' = [account EXCEPT ![email[r]] = "ACTIVE"]
            /\ Goto(r, "joinNew")
  /\ UNCHANGED <<orgs, role, invite, used, lapsed, founder, redis, held, member>>

JoinNew(r) ==
  /\ pc[r] = "joinNew"
  /\ IF role[<<email[r], slug[r]>>] # "none"
       THEN Answer(r, "refused") /\ UNCHANGED <<role, used, lapsed>>
       ELSE /\ role' = [role EXCEPT ![<<email[r], slug[r]>>] = Offer[with[r]]]
            /\ used' = used \cup {with[r]}
            /\ lapsed' = lapsed \ {with[r]}
            /\ Goto(r, "session")
  /\ UNCHANGED <<account, orgs, invite, founder, redis, held, member>>

(***************************************************************************)
(* The environment                                                         *)
(***************************************************************************)
Clear(r) ==
  /\ pc' = [pc EXCEPT ![r] = "idle"]
  /\ Forget(r)
  /\ member' = [member EXCEPT ![r] = FALSE]
  /\ out' = [out EXCEPT ![r] = "none"]
  /\ Rollback(r)
  /\ UNCHANGED <<db, redis>>

Leave(r) == pc[r] = "done" /\ Clear(r)

\* The process stops, or a transaction times out.
Fail(r) == pc[r] \notin {"idle", "done"} /\ Clear(r)

\* An administrator or a support engineer suspends a user.
Suspend ==
  /\ \E e \in Emails : /\ account[e] \in {"INVITED", "ACTIVE"}
                       /\ account' = [account EXCEPT ![e] = "SUSPENDED"]
  /\ UNCHANGED <<orgs, role, invite, used, lapsed, founder, redis, input,
                 pc, held, member, out>>

\* An organization invites an address; one invitation per pair.
Invite ==
  /\ \E i \in Invites, p \in Emails \X orgs :
       /\ invite[i] = None /\ \A j \in Invites : invite[j] # p
       /\ invite' = [invite EXCEPT ![i] = p]
  /\ UNCHANGED <<account, orgs, role, used, lapsed, founder, redis, input,
                 pc, held, member, out>>

\* Seven days of an invitation, or the 24 hours of a link or a cached answer,
\* go by.  Once an invitation is used its age no longer matters.
LapseInvite ==
  /\ \E i \in Invites \ (lapsed \cup used) : invite[i] # None /\ lapsed' = lapsed \cup {i}
  /\ UNCHANGED <<account, orgs, role, invite, used, founder, redis, input,
                 pc, held, member, out>>

LapseLink ==
  /\ \E e \in links : links' = links \ {e}
  /\ UNCHANGED <<db, cached, input, pc, held, member, out>>

LapseKey ==
  /\ \E k \in Keys : cached[k] # None /\ cached' = [cached EXCEPT ![k] = None]
  /\ UNCHANGED <<db, links, input, pc, held, member, out>>

Lapse == LapseInvite \/ LapseLink \/ LapseKey

Signup(r) == SignupReplay(r) \/ SignupFind(r) \/ SignupUser(r) \/ SignupCache(r)
Accept(r) == LookupInvite(r) \/ FindInvitee(r) \/ JoinRead(r) \/ JoinWrite(r)
               \/ NewUser(r) \/ JoinNew(r)

Handle(r) == Signup(r) \/ InsertOrg(r) \/ CommitOrg(r) \/ FetchOrg(r)
               \/ LoginCheck(r) \/ Activate(r) \/ OpenSession(r) \/ Resend(r) \/ Accept(r)

Next == \/ \E r \in Requests : Begin(r) \/ Handle(r) \/ Leave(r) \/ Fail(r)
        \/ Suspend \/ Invite \/ Lapse

Spec == Init /\ [][Next]_vars

(***************************************************************************)
(* Properties                                                              *)
(***************************************************************************)

\* However signups of one address overlap, are retried or stop half-way, they
\* create at most one organization (auth.service.ts 104-197).
SignupFoundsOneOrg ==
  \A s, t \in Slugs : founder[s] # None /\ founder[s] = founder[t] => s = t

\* An idempotency key is stored only once its signup has come to an end, so
\* the answer 202 means that the account exists, unless the key holds the
\* answer to another address (auth.service.ts 94-99, 212).
AcceptedSignupHasAccount ==
  [][\A r \in Requests :
       out[r] # "202" /\ out'[r] = "202" =>
         \/ account[email[r]] # "none"
         \/ cached[with[r]] \notin {None, email[r]}]_vars

\* Only a verification link, which sets ACTIVE whatever it finds, lifts a
\* suspension: no signup, login or invitation of the address does, whatever it
\* read before (auth.service.ts 162-173, 275, 605, invitations.service.ts 62-142).
SuspensionLiftedByLink ==
  [][\A e \in Emails : account[e] = "SUSPENDED" /\ account'[e] # "SUSPENDED" =>
       \E r \in Requests : op[r] = "verify" /\ email[r] = e]_vars

\* Membership, organizations and invitations change together: whatever overlaps
\* or stops, the database shows nothing but organizations founded with their
\* owner and invitations redeemed once for the membership they offer, and no
\* role a member already has is changed (auth.service.ts 148-197, 732-768,
\* invitations.service.ts 73-142).
Membership == INSTANCE Directory
MembershipsAreGranted == Membership!Spec
=============================================================================
