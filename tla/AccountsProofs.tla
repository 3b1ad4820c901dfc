--------------------------- MODULE AccountsProofs ---------------------------
(***************************************************************************)
(* What holds of Accounts, alone and behind SignupPage, for any number of  *)
(* addresses, organizations, requests and failures.                        *)
(*                                                                         *)
(* The invariants of Accounts are not inductive: a handler acts on what it *)
(* read some steps ago.  Fits records what a request may still rely on at  *)
(* each step, which is true because rows are never deleted, roles never    *)
(* change, and a slug or an address is inserted once.                      *)
(***************************************************************************)
EXTENDS SignupPage, TLAPS

\* An organization is never visible without an owner, whatever stops while it
\* is being created (auth.service.ts 148-197, 732-768).
EveryOrgHasOwner == \A s \in orgs : \E e \in Emails : role[<<e, s>>] = "OWNER"

\* An invitation is used up only together with the membership it grants
\* (invitations.service.ts 73-101, 127-142).
UsedInvitationGrantsMembership ==
  \A i \in used : role[invite[i]] # "none"

InviteSteps == {"invite", "invitee", "joinRead", "joinWrite", "newUser", "joinNew"}

\* What a request in flight can rely on at the step it is at.
Fits(r) ==
    /\ pc[r] \notin {"idle", "done"} => email[r] \in Emails
    /\ pc[r] \in {"idem", "find", "org", "user", "commit", "cache"} =>
         /\ op[r] \in {"signup", "createOrg"} /\ slug[r] \in Slugs
         /\ op[r] = "signup" => with[r] \in Keys
    /\ pc[r] \in {"idem", "find", "user", "cache"} => op[r] = "signup"
    /\ op[r] = "createOrg" /\ pc[r] \in {"org", "commit"} => account[email[r]] # "none"
    /\ pc[r] \in {"user", "commit"} => held[r] \in Slugs
    /\ pc[r] \in {"commit", "cache"} => account[email[r]] # "none"
    /\ pc[r] \in InviteSteps =>
         /\ with[r] \in Invites
         /\ invite[with[r]] = <<email[r], slug[r]>> /\ slug[r] \in orgs
    /\ pc[r] \in {"joinRead", "joinWrite", "joinNew"} => account[email[r]] # "none"
    /\ pc[r] = "joinWrite" /\ member[r] => role[<<email[r], slug[r]>>] # "none"

StepsFit == \A r \in Requests : Fits(r)

\* A slug is in one open transaction at most.
HoldersDiffer ==
  \A r, q \in Requests : held[r] # None /\ held[r] = held[q] => r = q

\* A signup that is about to commit is the only one of its address, and the first.
FoundersFit ==
  /\ \A s \in Slugs : founder[s] # None => account[founder[s]] # "none" /\ s \in orgs
  /\ \A r \in Requests : op[r] = "signup" /\ pc[r] = "commit" =>
       /\ \A s \in Slugs : founder[s] # email[r]
       /\ \A q \in Requests :
            op[q] = "signup" /\ pc[q] = "commit" /\ email[q] = email[r] => q = r

IInv == /\ Types /\ References /\ StepsFit /\ HoldersDiffer /\ FoundersFit
        /\ EveryOrgHasOwner /\ UsedInvitationGrantsMembership /\ SignupFoundsOneOrg

\* Every variable keeps its type.
LEMMA TypesStep == IInv /\ [Next]_vars => Types'
<1> SUFFICES ASSUME IInv, [Next]_vars PROVE Types'
  OBVIOUS
<1> USE NoneAssumption DEF IInv, db, redis, input, Arrive, Goto, Answer,
    Rollback, Clear, Forget, Types, Answers, Statuses, Roles, Endpoints, Steps
<1>a. ASSUME NEW r \in Requests, Begin(r) PROVE Types'
  <2>1. CASE BeginSignup(r)  BY <2>1 DEF BeginSignup
  <2>2. CASE BeginLogin(r)  BY <2>2 DEF BeginLogin
  <2>3. CASE BeginVerify(r)  BY <2>3 DEF BeginVerify
  <2>4. CASE BeginResend(r)  BY <2>4 DEF BeginResend
  <2>5. CASE BeginCreateOrg(r)  BY <2>5 DEF BeginCreateOrg
  <2>6. CASE BeginAccept(r)  BY <2>6 DEF BeginAccept
  <2> QED  BY <1>a, <2>1, <2>2, <2>3, <2>4, <2>5, <2>6 DEF Begin
<1>b. ASSUME NEW r \in Requests, Handle(r) PROVE Types'
  <2>1. CASE SignupReplay(r)  BY <2>1 DEF SignupReplay
  <2>2. CASE SignupFind(r)  BY <2>2 DEF SignupFind
  <2>3. CASE SignupUser(r)
    <3>1. CASE account[email[r]] = "none"
      <4>1. /\ account' = [account EXCEPT ![email[r]] = "INVITED"]
            /\ Goto(r, "commit") /\ UNCHANGED held
        BY <2>3, <3>1 DEF SignupUser
      <4> QED  BY <2>3, <4>1 DEF SignupUser
    <3>2. CASE ~(account[email[r]] = "none")  BY <2>3, <3>2 DEF SignupUser
    <3> QED  BY <2>3, <3>1, <3>2 DEF SignupUser
  <2>4. CASE SignupCache(r)  BY <2>4 DEF SignupCache
  <2>5. CASE InsertOrg(r)
    <3>1. CASE slug[r] \in orgs  BY <2>5, <3>1 DEF InsertOrg
    <3>2. CASE ~(slug[r] \in orgs)  BY <2>5, <3>2 DEF InsertOrg
    <3> QED  BY <2>5, <3>1, <3>2 DEF InsertOrg
  <2>6. CASE CommitOrg(r)
    <3>1. email[r] \in Emails /\ held[r] \in Slugs
      BY <2>6 DEF CommitOrg, StepsFit, Fits
    <3>2. CASE op[r] = "signup"  BY <2>6, <3>1, <3>2 DEF CommitOrg
    <3>3. CASE op[r] # "signup"  BY <2>6, <3>1, <3>3 DEF CommitOrg
    <3> QED  BY <2>6, <3>1, <3>2, <3>3 DEF CommitOrg
  <2>7. CASE LoginCheck(r)
    <3>1. CASE Goto(r, "session")  BY <2>7, <3>1 DEF LoginCheck
    <3>2. CASE Answer(r, "refused")  BY <2>7, <3>2 DEF LoginCheck
    <3> QED  BY <2>7, <3>1, <3>2 DEF LoginCheck
  <2>8. CASE Activate(r)  BY <2>8 DEF Activate
  <2>9. CASE OpenSession(r)  BY <2>9 DEF OpenSession
  <2>10. CASE Resend(r)
    <3>1. email[r] \in Emails  BY <2>10 DEF Resend, StepsFit, Fits
    <3> QED  BY <2>10, <3>1 DEF Resend
  <2>11. CASE LookupInvite(r)  BY <2>11 DEF LookupInvite
  <2>12. CASE FindInvitee(r)
    <3>1. CASE Goto(r, "joinRead")  BY <2>12, <3>1 DEF FindInvitee
    <3>2. CASE Goto(r, "newUser")  BY <2>12, <3>2 DEF FindInvitee
    <3>3. CASE Answer(r, "refused")  BY <2>12, <3>3 DEF FindInvitee
    <3> QED  BY <2>12, <3>1, <3>2, <3>3 DEF FindInvitee
  <2>13. CASE JoinRead(r)  BY <2>13 DEF JoinRead
  <2>14. CASE JoinWrite(r)
    <3>1. email[r] \in Emails /\ slug[r] \in Slugs /\ Offer[with[r]] \in Roles
      BY <2>14, OfferAssumption DEF JoinWrite, StepsFit, Fits, InviteSteps
    <3>2. CASE Answer(r, "refused") /\ UNCHANGED <<role, used, lapsed>>
      BY <2>14, <3>2 DEF JoinWrite
    <3>3. CASE /\ Goto(r, "session")
               /\ used' = used \cup {with[r]}
               /\ UNCHANGED role
      BY <2>14, <3>1, <3>3 DEF JoinWrite, StepsFit, Fits, InviteSteps
    <3>4. CASE /\ Goto(r, "session")
               /\ used' = used \cup {with[r]}
               /\ role' = [role EXCEPT ![<<email[r], slug[r]>>] = Offer[with[r]]]
      BY <2>14, <3>1, <3>4 DEF JoinWrite, StepsFit, Fits, InviteSteps
    <3> QED  BY <2>14, <3>1, <3>2, <3>3, <3>4 DEF JoinWrite
  <2>15. CASE NewUser(r)
    <3>1. CASE account[email[r]] # "none"  BY <2>15, <3>1 DEF NewUser
    <3>2. CASE account[email[r]] = "none"  BY <2>15, <3>2 DEF NewUser
    <3> QED  BY <3>1, <3>2
  <2>16. CASE JoinNew(r)
    <3>1. email[r] \in Emails /\ slug[r] \in Slugs /\ Offer[with[r]] \in Roles
      BY <2>16, OfferAssumption DEF JoinNew, StepsFit, Fits, InviteSteps
    <3>2. CASE Answer(r, "refused") /\ UNCHANGED <<role, used, lapsed>>
      BY <2>16, <3>2 DEF JoinNew
    <3>3. CASE /\ Goto(r, "session")
               /\ used' = used \cup {with[r]}
               /\ role' = [role EXCEPT ![<<email[r], slug[r]>>] = Offer[with[r]]]
      BY <2>16, <3>1, <3>3 DEF JoinNew, StepsFit, Fits, InviteSteps
    <3> QED  BY <2>16, <3>1, <3>2, <3>3 DEF JoinNew
  <2>17. CASE FetchOrg(r)  BY <2>17 DEF FetchOrg
  <2> QED
    BY <1>b, <2>1, <2>2, <2>3, <2>4, <2>5, <2>6, <2>7, <2>8, <2>9, <2>10, <2>11,
       <2>12, <2>13, <2>14, <2>15, <2>16, <2>17 DEF Handle, Signup, Accept
<1>c. ASSUME NEW r \in Requests, Leave(r) PROVE Types'  BY <1>c DEF Leave
<1>d. ASSUME NEW r \in Requests, Fail(r) PROVE Types'  BY <1>d DEF Fail
<1>e. CASE Suspend  BY <1>e DEF Suspend
<1>f. CASE Invite  BY <1>f DEF Invite
<1>g. CASE Lapse  BY <1>g DEF Lapse, LapseInvite, LapseLink, LapseKey
<1>h. CASE UNCHANGED vars  BY <1>h DEF vars
<1> QED  BY <1>a, <1>b, <1>c, <1>d, <1>e, <1>f, <1>g, <1>h DEF Next

\* Rows are not deleted, and a new row refers to rows that are there.
LEMMA ReferencesStep == IInv /\ [Next]_vars => References'
<1> SUFFICES ASSUME IInv, [Next]_vars PROVE References'
  OBVIOUS
<1> USE NoneAssumption DEF IInv, db, redis, input, Arrive, Goto, Answer,
    Rollback, Clear, Forget, Types, References, StepsFit, Fits, HoldersDiffer,
    InviteSteps, HasOrg
<1>a. ASSUME NEW r \in Requests, Begin(r) PROVE References'
  <2>1. CASE BeginSignup(r)  BY <2>1 DEF BeginSignup
  <2>2. CASE BeginLogin(r)  BY <2>2 DEF BeginLogin
  <2>3. CASE BeginVerify(r)  BY <2>3 DEF BeginVerify
  <2>4. CASE BeginResend(r)  BY <2>4 DEF BeginResend
  <2>5. CASE BeginCreateOrg(r)  BY <2>5 DEF BeginCreateOrg
  <2>6. CASE BeginAccept(r)  BY <2>6 DEF BeginAccept
  <2> QED  BY <1>a, <2>1, <2>2, <2>3, <2>4, <2>5, <2>6 DEF Begin
<1>b. ASSUME NEW r \in Requests, Handle(r) PROVE References'
  <2>1. CASE SignupReplay(r)  BY <2>1 DEF SignupReplay
  <2>2. CASE SignupFind(r)  BY <2>2 DEF SignupFind
  <2>3. CASE SignupUser(r)
    <3>1. CASE account[email[r]] = "none"  BY <2>3, <3>1 DEF SignupUser
    <3>2. CASE ~(account[email[r]] = "none")
      <4>1. UNCHANGED <<account, orgs, role, invite, used, links, cached>>
        BY <2>3, <3>2 DEF SignupUser
      <4>2. held' = [held EXCEPT ![r] = None]
        BY <2>3, <3>2 DEF SignupUser
      <4> HIDE DEF Answer, Forget, Goto, StepsFit, HoldersDiffer
      <4> QED  BY <4>1, <4>2
    <3> QED  BY <2>3, <3>1, <3>2 DEF SignupUser
  <2>4. CASE SignupCache(r)
    <3>1. with[r] \in Keys /\ email[r] \in Emails /\ account[email[r]] # "none"
      BY <2>4 DEF SignupCache
    <3>2. cached' = [cached EXCEPT ![with[r]] = email[r]]
      BY <2>4 DEF SignupCache
    <3>3. UNCHANGED <<account, orgs, role, invite, used, links, held>>
      BY <2>4 DEF SignupCache
    <3> QED  BY <3>1, <3>2, <3>3
  <2>5. CASE InsertOrg(r)
    <3>1. slug[r] \in Slugs  BY <2>5 DEF InsertOrg
    <3>2. UNCHANGED <<account, orgs, role, invite, used, links, cached>>
      BY <2>5 DEF InsertOrg
    <3>3. (UNCHANGED held) \/ (slug[r] \notin orgs /\ held' = [held EXCEPT ![r] = slug[r]])
      <4> HIDE DEF IInv, Types, References, Fits, StepsFit
      <4> QED  BY <2>5, Zenon DEF InsertOrg
    <3> QED  BY <3>1, <3>2, <3>3
  <2>6. CASE CommitOrg(r)
    <3>1. email[r] \in Emails /\ held[r] \in Slugs /\ account[email[r]] # "none"
      BY <2>6 DEF CommitOrg
    <3>2. /\ orgs' = orgs \cup {held[r]}
          /\ role' = [role EXCEPT ![<<email[r], held[r]>>] = "OWNER"]
          /\ UNCHANGED <<account, invite, used, cached>>
      BY <2>6 DEF CommitOrg
    <3>3. links' \subseteq links \cup {email[r]}  BY <2>6 DEF CommitOrg
    <3>4. \A q \in Requests : held'[q] = IF q = r THEN None ELSE held[q]
      BY <2>6 DEF CommitOrg
    <3>5. \A q \in Requests : held'[q] \notin orgs'  BY <3>1, <3>2, <3>4
    <3>6. \A e \in Emails, s \in Slugs : role'[<<e, s>>] # "none" => account[e]
        # "none" /\ s \in orgs'
      BY <3>1, <3>2
    <3> QED  BY <3>1, <3>2, <3>3, <3>5, <3>6
  <2>7. CASE LoginCheck(r)  BY <2>7 DEF LoginCheck
  <2>8. CASE Activate(r)  BY <2>8 DEF Activate
  <2>9. CASE OpenSession(r)  BY <2>9 DEF OpenSession
  <2>10. CASE Resend(r)  BY <2>10 DEF Resend
  <2>11. CASE LookupInvite(r)  BY <2>11 DEF LookupInvite
  <2>12. CASE FindInvitee(r)  BY <2>12 DEF FindInvitee
  <2>13. CASE JoinRead(r)  BY <2>13 DEF JoinRead
  <2>14. CASE JoinWrite(r)
    <3>1. /\ email[r] \in Emails /\ slug[r] \in orgs /\ account[email[r]] # "none"
          /\ invite[with[r]] # None
      BY <2>14 DEF JoinWrite
    <3>2. /\ used' \subseteq used \cup {with[r]}
          /\ UNCHANGED <<account, orgs, invite, links, cached, held>>
      BY <2>14 DEF JoinWrite
    <3>3. \A p \in Emails \X Slugs : p # <<email[r], slug[r]>> => role'[p] = role[p]
      BY <2>14 DEF JoinWrite
    <3>4. \A e \in Emails, s \in Slugs : role'[<<e, s>>] # "none" => account[e]
        # "none" /\ s \in orgs
      BY <3>1, <3>3
    <3> QED  BY <3>1, <3>2, <3>4
  <2>15. CASE NewUser(r)  BY <2>15 DEF NewUser
  <2>16. CASE JoinNew(r)
    <3>1. /\ email[r] \in Emails /\ slug[r] \in orgs /\ account[email[r]] # "none"
          /\ invite[with[r]] # None
      BY <2>16 DEF JoinNew
    <3>2. /\ used' \subseteq used \cup {with[r]}
          /\ UNCHANGED <<account, orgs, invite, links, cached, held>>
      BY <2>16 DEF JoinNew
    <3>3. \A p \in Emails \X Slugs : p # <<email[r], slug[r]>> => role'[p] = role[p]
      BY <2>16 DEF JoinNew
    <3>4. \A e \in Emails, s \in Slugs : role'[<<e, s>>] # "none" => account[e]
        # "none" /\ s \in orgs
      BY <3>1, <3>3
    <3> QED  BY <3>1, <3>2, <3>4
  <2>17. CASE FetchOrg(r)  BY <2>17 DEF FetchOrg
  <2> QED
    BY <1>b, <2>1, <2>2, <2>3, <2>4, <2>5, <2>6, <2>7, <2>8, <2>9, <2>10, <2>11,
       <2>12, <2>13, <2>14, <2>15, <2>16, <2>17 DEF Handle, Signup, Accept
<1>c. ASSUME NEW r \in Requests, Leave(r) PROVE References'  BY <1>c DEF Leave
<1>d. ASSUME NEW r \in Requests, Fail(r) PROVE References'  BY <1>d DEF Fail
<1>e. CASE Suspend  BY <1>e DEF Suspend
<1>f. CASE Invite  BY <1>f DEF Invite
<1>g. CASE Lapse  BY <1>g DEF Lapse, LapseInvite, LapseLink, LapseKey
<1>h. CASE UNCHANGED vars  BY <1>h DEF vars
<1> QED  BY <1>a, <1>b, <1>c, <1>d, <1>e, <1>f, <1>g, <1>h DEF Next

\* What a request has established stays true while others run.
LEMMA StepsFitStep == IInv /\ [Next]_vars => StepsFit'
<1> SUFFICES ASSUME IInv, [Next]_vars PROVE StepsFit'
  OBVIOUS
<1> USE NoneAssumption DEF IInv, db, redis, input, Arrive, Goto, Answer,
    Rollback, Clear, Forget, Types, References, StepsFit, Fits, HasOrg,
    InviteSteps
<1>a. ASSUME NEW r \in Requests, Begin(r) PROVE StepsFit'
  <2>1. CASE BeginSignup(r)  BY <2>1 DEF BeginSignup
  <2>2. CASE BeginLogin(r)  BY <2>2 DEF BeginLogin
  <2>3. CASE BeginVerify(r)  BY <2>3 DEF BeginVerify
  <2>4. CASE BeginResend(r)  BY <2>4 DEF BeginResend
  <2>5. CASE BeginCreateOrg(r)  BY <2>5 DEF BeginCreateOrg
  <2>6. CASE BeginAccept(r)  BY <2>6 DEF BeginAccept
  <2> QED  BY <1>a, <2>1, <2>2, <2>3, <2>4, <2>5, <2>6 DEF Begin
<1>b. ASSUME NEW r \in Requests, Handle(r) PROVE StepsFit'
  <2>1. CASE SignupReplay(r)  BY <2>1 DEF SignupReplay
  <2>2. CASE SignupFind(r)  BY <2>2 DEF SignupFind
  <2>3. CASE SignupUser(r)  BY <2>3 DEF SignupUser
  <2>4. CASE SignupCache(r)  BY <2>4 DEF SignupCache
  <2>5. CASE InsertOrg(r)  BY <2>5 DEF InsertOrg
  <2>6. CASE CommitOrg(r)  BY <2>6 DEF CommitOrg
  <2>7. CASE LoginCheck(r)  BY <2>7 DEF LoginCheck
  <2>8. CASE Activate(r)  BY <2>8 DEF Activate
  <2>9. CASE OpenSession(r)  BY <2>9 DEF OpenSession
  <2>10. CASE Resend(r)  BY <2>10 DEF Resend
  <2>11. CASE LookupInvite(r)  BY <2>11 DEF LookupInvite
  <2>12. CASE FindInvitee(r)  BY <2>12 DEF FindInvitee
  <2>13. CASE JoinRead(r)
    <3>1. /\ member'[r] = (role[<<email[r], slug[r]>>] # "none")
          /\ pc'[r] = "joinWrite"
      BY <2>13 DEF JoinRead
    <3>2. \A q \in Requests \ {r} : member'[q] = member[q] /\ pc'[q] = pc[q]
      BY <2>13 DEF JoinRead
    <3>3. UNCHANGED <<account, orgs, role, invite, input, held>>
      BY <2>13 DEF JoinRead
    <3>4. email[r] \in Emails /\ slug[r] \in orgs /\ pc[r] = "joinRead"
      BY <2>13 DEF JoinRead
    <3>5. Fits(r)'  BY <3>1, <3>3, <3>4 
    <3>6. \A q \in Requests \ {r} : Fits(q)'  BY <3>2, <3>3
    <3> HIDE DEF Fits
    <3> QED  BY <3>5, <3>6
  <2>14. CASE JoinWrite(r)  BY <2>14 DEF JoinWrite
  <2>15. CASE NewUser(r)  BY <2>15 DEF NewUser
  <2>16. CASE JoinNew(r)  BY <2>16 DEF JoinNew
  <2>17. CASE FetchOrg(r)  BY <2>17 DEF FetchOrg
  <2> QED
    BY <1>b, <2>1, <2>2, <2>3, <2>4, <2>5, <2>6, <2>7, <2>8, <2>9, <2>10, <2>11,
       <2>12, <2>13, <2>14, <2>15, <2>16, <2>17 DEF Handle, Signup, Accept
<1>c. ASSUME NEW r \in Requests, Leave(r) PROVE StepsFit'  BY <1>c DEF Leave
<1>d. ASSUME NEW r \in Requests, Fail(r) PROVE StepsFit'  BY <1>d DEF Fail
<1>e. CASE Suspend  BY <1>e DEF Suspend
<1>f. CASE Invite  BY <1>f DEF Invite
<1>g. CASE Lapse  BY <1>g DEF Lapse, LapseInvite, LapseLink, LapseKey
<1>h. CASE UNCHANGED vars  BY <1>h DEF vars
<1> QED  BY <1>a, <1>b, <1>c, <1>d, <1>e, <1>f, <1>g, <1>h DEF Next

\* organization.create waits for the transaction that holds its slug.
LEMMA HoldersStep == IInv /\ [Next]_vars => HoldersDiffer'
<1> SUFFICES ASSUME IInv, [Next]_vars PROVE HoldersDiffer'
  OBVIOUS
<1> USE NoneAssumption DEF IInv, db, redis, input, Arrive, Goto, Answer,
    Rollback, Clear, Forget, Types, HoldersDiffer
<1>a. ASSUME NEW r \in Requests, Begin(r) PROVE HoldersDiffer'
  <2>1. CASE BeginSignup(r)  BY <2>1 DEF BeginSignup
  <2>2. CASE BeginLogin(r)  BY <2>2 DEF BeginLogin
  <2>3. CASE BeginVerify(r)  BY <2>3 DEF BeginVerify
  <2>4. CASE BeginResend(r)  BY <2>4 DEF BeginResend
  <2>5. CASE BeginCreateOrg(r)  BY <2>5 DEF BeginCreateOrg
  <2>6. CASE BeginAccept(r)  BY <2>6 DEF BeginAccept
  <2> QED  BY <1>a, <2>1, <2>2, <2>3, <2>4, <2>5, <2>6 DEF Begin
<1>b. ASSUME NEW r \in Requests, Handle(r) PROVE HoldersDiffer'
  <2>1. CASE SignupReplay(r)  BY <2>1 DEF SignupReplay
  <2>2. CASE SignupFind(r)  BY <2>2 DEF SignupFind
  <2>3. CASE SignupUser(r)  BY <2>3 DEF SignupUser
  <2>4. CASE SignupCache(r)  BY <2>4 DEF SignupCache
  <2>5. CASE InsertOrg(r)  BY <2>5 DEF InsertOrg
  <2>6. CASE CommitOrg(r)  BY <2>6 DEF CommitOrg
  <2>7. CASE LoginCheck(r)  BY <2>7 DEF LoginCheck
  <2>8. CASE Activate(r)  BY <2>8 DEF Activate
  <2>9. CASE OpenSession(r)  BY <2>9 DEF OpenSession
  <2>10. CASE Resend(r)  BY <2>10 DEF Resend
  <2>11. CASE LookupInvite(r)  BY <2>11 DEF LookupInvite
  <2>12. CASE FindInvitee(r)  BY <2>12 DEF FindInvitee
  <2>13. CASE JoinRead(r)  BY <2>13 DEF JoinRead
  <2>14. CASE JoinWrite(r)  BY <2>14 DEF JoinWrite
  <2>15. CASE NewUser(r)  BY <2>15 DEF NewUser
  <2>16. CASE JoinNew(r)  BY <2>16 DEF JoinNew
  <2>17. CASE FetchOrg(r)  BY <2>17 DEF FetchOrg
  <2> QED
    BY <1>b, <2>1, <2>2, <2>3, <2>4, <2>5, <2>6, <2>7, <2>8, <2>9, <2>10, <2>11,
       <2>12, <2>13, <2>14, <2>15, <2>16, <2>17 DEF Handle, Signup, Accept
<1>c. ASSUME NEW r \in Requests, Leave(r) PROVE HoldersDiffer'
  BY <1>c DEF Leave
<1>d. ASSUME NEW r \in Requests, Fail(r) PROVE HoldersDiffer'  BY <1>d DEF Fail
<1>e. CASE Suspend  BY <1>e DEF Suspend
<1>f. CASE Invite  BY <1>f DEF Invite
<1>g. CASE Lapse  BY <1>g DEF Lapse, LapseInvite, LapseLink, LapseKey
<1>h. CASE UNCHANGED vars  BY <1>h DEF vars
<1> QED  BY <1>a, <1>b, <1>c, <1>d, <1>e, <1>f, <1>g, <1>h DEF Next

\* The unique e-mail column lets one signup of an address through to its commit.
LEMMA FoundersStep == IInv /\ [Next]_vars => FoundersFit'
<1> SUFFICES ASSUME IInv, [Next]_vars PROVE FoundersFit'
  OBVIOUS
<1> USE NoneAssumption DEF IInv, db, redis, input, Arrive, Goto, Answer,
    Rollback, Clear, Forget, Types, References, StepsFit, Fits, FoundersFit
<1>a. ASSUME NEW r \in Requests, Begin(r) PROVE FoundersFit'
  <2>1. CASE BeginSignup(r)  BY <2>1 DEF BeginSignup
  <2>2. CASE BeginLogin(r)  BY <2>2 DEF BeginLogin
  <2>3. CASE BeginVerify(r)  BY <2>3 DEF BeginVerify
  <2>4. CASE BeginResend(r)  BY <2>4 DEF BeginResend
  <2>5. CASE BeginCreateOrg(r)  BY <2>5 DEF BeginCreateOrg
  <2>6. CASE BeginAccept(r)  BY <2>6 DEF BeginAccept
  <2> QED  BY <1>a, <2>1, <2>2, <2>3, <2>4, <2>5, <2>6 DEF Begin
<1>b. ASSUME NEW r \in Requests, Handle(r) PROVE FoundersFit'
  <2>1. CASE SignupReplay(r)  BY <2>1 DEF SignupReplay
  <2>2. CASE SignupFind(r)  BY <2>2 DEF SignupFind
  <2>3. CASE SignupUser(r)
    <3>1. CASE ~(account[email[r]] = "none")  BY <2>3, <3>1 DEF SignupUser
    <3>2. ASSUME account[email[r]] = "none" PROVE FoundersFit'
      <4>0. email[r] \in Emails
        BY <2>3 DEF SignupUser
      <4>1. /\ pc'[r] = "commit"
            /\ \A q \in Requests \ {r} : pc'[q] = pc[q]
            /\ account' = [account EXCEPT ![email[r]] = "INVITED"]
            /\ UNCHANGED <<orgs, founder, op, email>>
        BY <2>3, <3>2 DEF SignupUser
      <4>2. \A s \in Slugs : founder[s] # email[r]
        BY <3>2, <4>0, <4>1
      <4>3. \A q \in Requests \ {r} : pc[q] = "commit" => email[q] # email[r]
        BY <3>2, <4>0, <4>1
      <4> QED
        BY <4>0, <4>1, <4>2, <4>3
    <3> QED  BY <2>3, <3>1, <3>2 DEF SignupUser
  <2>4. CASE SignupCache(r)  BY <2>4 DEF SignupCache
  <2>5. CASE InsertOrg(r)  BY <2>5 DEF InsertOrg
  <2>6. CASE CommitOrg(r)
    <3>1. email[r] \in Emails /\ held[r] \in Slugs /\ account[email[r]] # "none"
      BY <2>6 DEF CommitOrg
    <3>2. pc'[r] # "commit" /\ \A q \in Requests \ {r} : pc'[q] = pc[q]
      BY <2>6 DEF CommitOrg
    <3>3. orgs' = orgs \cup {held[r]} /\ UNCHANGED <<account, op, email>>
      BY <2>6 DEF CommitOrg
    <3>4. CASE /\ op[r] = "signup"
               /\ founder' = [founder EXCEPT ![held[r]] = email[r]]
      BY <2>6, <3>1, <3>2, <3>3, <3>4 DEF CommitOrg
    <3>5. CASE UNCHANGED founder  BY <3>2, <3>3, <3>5
    <3> QED  BY <2>6, <3>4, <3>5 DEF CommitOrg
  <2>7. CASE LoginCheck(r)  BY <2>7 DEF LoginCheck
  <2>8. CASE Activate(r)  BY <2>8 DEF Activate
  <2>9. CASE OpenSession(r)  BY <2>9 DEF OpenSession
  <2>10. CASE Resend(r)  BY <2>10 DEF Resend
  <2>11. CASE LookupInvite(r)  BY <2>11 DEF LookupInvite
  <2>12. CASE FindInvitee(r)
    <3>1. UNCHANGED <<db, redis, held, member>>  BY <2>12 DEF FindInvitee
    <3>2. CASE Goto(r, "joinRead") \/ Goto(r, "newUser")  BY <3>1, <3>2
    <3>3. CASE Answer(r, "refused")  BY <3>1, <3>3
    <3> QED  BY <2>12, <3>2, <3>3 DEF FindInvitee
  <2>13. CASE JoinRead(r)  BY <2>13 DEF JoinRead
  <2>14. CASE JoinWrite(r)  BY <2>14 DEF JoinWrite
  <2>15. CASE NewUser(r)
    <3>1. CASE account[email[r]] = "none"  BY <2>15, <3>1 DEF NewUser
    <3>2. CASE ~(account[email[r]] = "none")
      <4>1. UNCHANGED <<db, redis>> /\ Answer(r, "refused")  BY <2>15, <3>2 DEF NewUser
      <4> QED  BY <4>1
    <3> QED  BY <2>15, <3>1, <3>2 DEF NewUser
  <2>16. CASE JoinNew(r)  BY <2>16 DEF JoinNew
  <2>17. CASE FetchOrg(r)  BY <2>17 DEF FetchOrg
  <2> QED
    BY <1>b, <2>1, <2>2, <2>3, <2>4, <2>5, <2>6, <2>7, <2>8, <2>9, <2>10, <2>11,
       <2>12, <2>13, <2>14, <2>15, <2>16, <2>17 DEF Handle, Signup, Accept
<1>c. ASSUME NEW r \in Requests, Leave(r) PROVE FoundersFit'  BY <1>c DEF Leave
<1>d. ASSUME NEW r \in Requests, Fail(r) PROVE FoundersFit'  BY <1>d DEF Fail
<1>e. CASE Suspend  BY <1>e DEF Suspend
<1>f. CASE Invite  BY <1>f DEF Invite
<1>g. CASE Lapse  BY <1>g DEF Lapse, LapseInvite, LapseLink, LapseKey
<1>h. CASE UNCHANGED vars  BY <1>h DEF vars
<1> QED  BY <1>a, <1>b, <1>c, <1>d, <1>e, <1>f, <1>g, <1>h DEF Next

\* An organization and its owner become visible in one step.
LEMMA OwnerStep == IInv /\ [Next]_vars => EveryOrgHasOwner'
<1> SUFFICES ASSUME IInv, [Next]_vars PROVE EveryOrgHasOwner'
  OBVIOUS
<1> USE NoneAssumption DEF IInv, db, redis, input, Arrive, Goto, Answer,
    Rollback, Clear, Forget, Types, StepsFit, Fits, EveryOrgHasOwner,
    InviteSteps
<1>a. ASSUME NEW r \in Requests, Begin(r) PROVE EveryOrgHasOwner'
  <2>1. CASE BeginSignup(r)
    <3>1. UNCHANGED <<orgs, role>>  BY <2>1 DEF BeginSignup
    <3> QED  BY <3>1
  <2>2. CASE BeginLogin(r)  BY <2>2 DEF BeginLogin
  <2>3. CASE BeginVerify(r)  BY <2>3 DEF BeginVerify
  <2>4. CASE BeginResend(r)  BY <2>4 DEF BeginResend
  <2>5. CASE BeginCreateOrg(r)  BY <2>5 DEF BeginCreateOrg
  <2>6. CASE BeginAccept(r)
    <3>1. UNCHANGED <<orgs, role>>  BY <2>6 DEF BeginAccept
    <3> QED  BY <3>1
  <2> QED  BY <1>a, <2>1, <2>2, <2>3, <2>4, <2>5, <2>6 DEF Begin
<1>b. ASSUME NEW r \in Requests, Handle(r) PROVE EveryOrgHasOwner'
  <2>1. CASE SignupReplay(r)  BY <2>1 DEF SignupReplay
  <2>2. CASE SignupFind(r)  BY <2>2 DEF SignupFind
  <2>3. CASE SignupUser(r)  BY <2>3 DEF SignupUser
  <2>4. CASE SignupCache(r)  BY <2>4 DEF SignupCache
  <2>5. CASE InsertOrg(r)  BY <2>5 DEF InsertOrg
  <2>6. CASE CommitOrg(r)  BY <2>6 DEF CommitOrg
  <2>7. CASE LoginCheck(r)  BY <2>7 DEF LoginCheck
  <2>8. CASE Activate(r)  BY <2>8 DEF Activate
  <2>9. CASE OpenSession(r)  BY <2>9 DEF OpenSession
  <2>10. CASE Resend(r)  BY <2>10 DEF Resend
  <2>11. CASE LookupInvite(r)  BY <2>11 DEF LookupInvite
  <2>12. CASE FindInvitee(r)  BY <2>12 DEF FindInvitee
  <2>13. CASE JoinRead(r)  BY <2>13 DEF JoinRead
  <2>14. CASE JoinWrite(r)  BY <2>14 DEF JoinWrite
  <2>15. CASE NewUser(r)  BY <2>15 DEF NewUser
  <2>16. CASE JoinNew(r)
    <3>1. CASE role[<<email[r], slug[r]>>] # "none"  BY <2>16, <3>1 DEF JoinNew
    <3>2. CASE ~(role[<<email[r], slug[r]>>] # "none")
      <4>1. /\ role' = [role EXCEPT ![<<email[r], slug[r]>>] = Offer[with[r]]]
            /\ UNCHANGED orgs
        BY <2>16, <3>2 DEF JoinNew
      <4>2. \A p \in Emails \X Slugs : role[p] = "OWNER" => role'[p] = "OWNER"
        BY <3>2, <4>1
      <4>3. \A e \in Emails, s \in orgs : role[<<e, s>>] = "OWNER" => role'[<<e, s>>] = "OWNER"
        BY <4>2
      <4> HIDE DEF Answer, Forget, Goto, Types, StepsFit
      <4> QED  BY <4>1, <4>3
    <3> QED  BY <3>1, <3>2
  <2>17. CASE FetchOrg(r)  BY <2>17 DEF FetchOrg
  <2> QED
    BY <1>b, <2>1, <2>2, <2>3, <2>4, <2>5, <2>6, <2>7, <2>8, <2>9, <2>10, <2>11,
       <2>12, <2>13, <2>14, <2>15, <2>16, <2>17 DEF Handle, Signup, Accept
<1>c. ASSUME NEW r \in Requests, Leave(r) PROVE EveryOrgHasOwner'
  BY <1>c DEF Leave
<1>d. ASSUME NEW r \in Requests, Fail(r) PROVE EveryOrgHasOwner'
  BY <1>d DEF Fail
<1>e. CASE Suspend  BY <1>e DEF Suspend
<1>f. CASE Invite  BY <1>f DEF Invite
<1>g. CASE Lapse  BY <1>g DEF Lapse, LapseInvite, LapseLink, LapseKey
<1>h. CASE UNCHANGED vars  BY <1>h DEF vars
<1> QED  BY <1>a, <1>b, <1>c, <1>d, <1>e, <1>f, <1>g, <1>h DEF Next

\* An invitation is marked in the step that adds its membership.
LEMMA UsedStep == IInv /\ [Next]_vars => UsedInvitationGrantsMembership'
<1> SUFFICES ASSUME IInv, [Next]_vars PROVE UsedInvitationGrantsMembership'
  OBVIOUS
<1> USE NoneAssumption DEF IInv, db, redis, input, Arrive, Goto, Answer,
    Rollback, Clear, Forget, Types, References, StepsFit, Fits,
    UsedInvitationGrantsMembership, InviteSteps
<1>a. ASSUME NEW r \in Requests, Begin(r) PROVE UsedInvitationGrantsMembership'
  <2>1. CASE BeginSignup(r)  BY <2>1 DEF BeginSignup
  <2>2. CASE BeginLogin(r)  BY <2>2 DEF BeginLogin
  <2>3. CASE BeginVerify(r)  BY <2>3 DEF BeginVerify
  <2>4. CASE BeginResend(r)  BY <2>4 DEF BeginResend
  <2>5. CASE BeginCreateOrg(r)  BY <2>5 DEF BeginCreateOrg
  <2>6. CASE BeginAccept(r)  BY <2>6 DEF BeginAccept
  <2> QED  BY <1>a, <2>1, <2>2, <2>3, <2>4, <2>5, <2>6 DEF Begin
<1>b. ASSUME NEW r \in Requests, Handle(r) PROVE UsedInvitationGrantsMembership'
  <2>1. CASE SignupReplay(r)  BY <2>1 DEF SignupReplay
  <2>2. CASE SignupFind(r)  BY <2>2 DEF SignupFind
  <2>3. CASE SignupUser(r)  BY <2>3 DEF SignupUser
  <2>4. CASE SignupCache(r)  BY <2>4 DEF SignupCache
  <2>5. CASE InsertOrg(r)  BY <2>5 DEF InsertOrg
  <2>6. CASE CommitOrg(r)  BY <2>6 DEF CommitOrg
  <2>7. CASE LoginCheck(r)  BY <2>7 DEF LoginCheck
  <2>8. CASE Activate(r)  BY <2>8 DEF Activate
  <2>9. CASE OpenSession(r)  BY <2>9 DEF OpenSession
  <2>10. CASE Resend(r)  BY <2>10 DEF Resend
  <2>11. CASE LookupInvite(r)  BY <2>11 DEF LookupInvite
  <2>12. CASE FindInvitee(r)  BY <2>12 DEF FindInvitee
  <2>13. CASE JoinRead(r)  BY <2>13 DEF JoinRead
  <2>14. CASE JoinWrite(r)
    <3>1. /\ email[r] \in Emails
          /\ slug[r] \in Slugs
          /\ with[r] \in Invites
          /\ invite[with[r]] = <<email[r], slug[r]>>
      BY <2>14 DEF JoinWrite
    <3>2. UNCHANGED invite /\ used' \subseteq used \cup {with[r]}
      BY <2>14 DEF JoinWrite
    <3>3. member[r] => role[<<email[r], slug[r]>>] # "none"
      BY <2>14 DEF JoinWrite
    <3>4. CASE Answer(r, "refused") /\ UNCHANGED <<role, used, lapsed>>  BY <3>2, <3>4
    <3>5. CASE role' = [role EXCEPT ![<<email[r], slug[r]>>] = Offer[with[r]]]
      BY <3>1, <3>2, <3>5, OfferAssumption DEF Roles
    <3>6. CASE role[<<email[r], slug[r]>>] # "none" /\ UNCHANGED role
      BY <3>1, <3>2, <3>6
    <3> QED  BY <2>14, <3>3, <3>4, <3>5, <3>6 DEF JoinWrite
  <2>15. CASE NewUser(r)  BY <2>15 DEF NewUser
  <2>16. CASE JoinNew(r)
    <3>1. /\ email[r] \in Emails
          /\ slug[r] \in Slugs
          /\ with[r] \in Invites
          /\ invite[with[r]] = <<email[r], slug[r]>>
      BY <2>16 DEF JoinNew
    <3>2. UNCHANGED invite /\ used' \subseteq used \cup {with[r]}
      BY <2>16 DEF JoinNew
    <3>3. CASE Answer(r, "refused") /\ UNCHANGED <<role, used, lapsed>>  BY <3>2, <3>3
    <3>4. CASE role' = [role EXCEPT ![<<email[r], slug[r]>>] = Offer[with[r]]]
      BY <3>1, <3>2, <3>4, OfferAssumption DEF Roles
    <3> QED  BY <2>16, <3>3, <3>4 DEF JoinNew
  <2>17. CASE FetchOrg(r)  BY <2>17 DEF FetchOrg
  <2> QED
    BY <1>b, <2>1, <2>2, <2>3, <2>4, <2>5, <2>6, <2>7, <2>8, <2>9, <2>10, <2>11,
       <2>12, <2>13, <2>14, <2>15, <2>16, <2>17 DEF Handle, Signup, Accept
<1>c. ASSUME NEW r \in Requests, Leave(r) PROVE UsedInvitationGrantsMembership'
  BY <1>c DEF Leave
<1>d. ASSUME NEW r \in Requests, Fail(r) PROVE UsedInvitationGrantsMembership'
  BY <1>d DEF Fail
<1>e. CASE Suspend  BY <1>e DEF Suspend
<1>f. CASE Invite  BY <1>f DEF Invite
<1>g. CASE Lapse  BY <1>g DEF Lapse, LapseInvite, LapseLink, LapseKey
<1>h. CASE UNCHANGED vars  BY <1>h DEF vars
<1> QED  BY <1>a, <1>b, <1>c, <1>d, <1>e, <1>f, <1>g, <1>h DEF Next

\* A second organization would need a second commit of the same address.
LEMMA OneOrgStep == IInv /\ [Next]_vars => SignupFoundsOneOrg'
<1> SUFFICES ASSUME IInv, [Next]_vars PROVE SignupFoundsOneOrg'
  OBVIOUS
<1> USE NoneAssumption DEF IInv, db, redis, input, Arrive, Goto, Answer,
    Rollback, Clear, Forget, Types, StepsFit, Fits, FoundersFit,
    SignupFoundsOneOrg
<1>a. ASSUME NEW r \in Requests, Begin(r) PROVE SignupFoundsOneOrg'
  <2>1. CASE BeginSignup(r)  BY <2>1 DEF BeginSignup
  <2>2. CASE BeginLogin(r)  BY <2>2 DEF BeginLogin
  <2>3. CASE BeginVerify(r)  BY <2>3 DEF BeginVerify
  <2>4. CASE BeginResend(r)  BY <2>4 DEF BeginResend
  <2>5. CASE BeginCreateOrg(r)  BY <2>5 DEF BeginCreateOrg
  <2>6. CASE BeginAccept(r)  BY <2>6 DEF BeginAccept
  <2> QED  BY <1>a, <2>1, <2>2, <2>3, <2>4, <2>5, <2>6 DEF Begin
<1>b. ASSUME NEW r \in Requests, Handle(r) PROVE SignupFoundsOneOrg'
  <2>1. CASE SignupReplay(r)  BY <2>1 DEF SignupReplay
  <2>2. CASE SignupFind(r)  BY <2>2 DEF SignupFind
  <2>3. CASE SignupUser(r)  BY <2>3 DEF SignupUser
  <2>4. CASE SignupCache(r)  BY <2>4 DEF SignupCache
  <2>5. CASE InsertOrg(r)  BY <2>5 DEF InsertOrg
  <2>6. CASE CommitOrg(r)  BY <2>6 DEF CommitOrg
  <2>7. CASE LoginCheck(r)  BY <2>7 DEF LoginCheck
  <2>8. CASE Activate(r)  BY <2>8 DEF Activate
  <2>9. CASE OpenSession(r)  BY <2>9 DEF OpenSession
  <2>10. CASE Resend(r)  BY <2>10 DEF Resend
  <2>11. CASE LookupInvite(r)  BY <2>11 DEF LookupInvite
  <2>12. CASE FindInvitee(r)  BY <2>12 DEF FindInvitee
  <2>13. CASE JoinRead(r)  BY <2>13 DEF JoinRead
  <2>14. CASE JoinWrite(r)  BY <2>14 DEF JoinWrite
  <2>15. CASE NewUser(r)  BY <2>15 DEF NewUser
  <2>16. CASE JoinNew(r)  BY <2>16 DEF JoinNew
  <2>17. CASE FetchOrg(r)  BY <2>17 DEF FetchOrg
  <2> QED
    BY <1>b, <2>1, <2>2, <2>3, <2>4, <2>5, <2>6, <2>7, <2>8, <2>9, <2>10, <2>11,
       <2>12, <2>13, <2>14, <2>15, <2>16, <2>17 DEF Handle, Signup, Accept
<1>c. ASSUME NEW r \in Requests, Leave(r) PROVE SignupFoundsOneOrg'
  BY <1>c DEF Leave
<1>d. ASSUME NEW r \in Requests, Fail(r) PROVE SignupFoundsOneOrg'
  BY <1>d DEF Fail
<1>e. CASE Suspend  BY <1>e DEF Suspend
<1>f. CASE Invite  BY <1>f DEF Invite
<1>g. CASE Lapse  BY <1>g DEF Lapse, LapseInvite, LapseLink, LapseKey
<1>h. CASE UNCHANGED vars  BY <1>h DEF vars
<1> QED  BY <1>a, <1>b, <1>c, <1>d, <1>e, <1>f, <1>g, <1>h DEF Next

LEMMA Invariance == Spec => []IInv
<1>1. Init => IInv

    BY NoneAssumption DEF Init, IInv, Types, References, StepsFit, Fits,
       HoldersDiffer,
     FoundersFit, EveryOrgHasOwner, UsedInvitationGrantsMembership,
     SignupFoundsOneOrg, InviteSteps, Statuses, Roles, Endpoints, Answers, Steps
<1>2. IInv /\ [Next]_vars => IInv'
  BY TypesStep, ReferencesStep, StepsFitStep, HoldersStep, FoundersStep,
     OwnerStep, UsedStep, OneOrgStep DEF IInv
<1> QED
  BY <1>1, <1>2, PTL DEF Spec

\* Every row, link and request is well-formed and refers to rows that exist.
THEOREM TypeCorrect == Spec => []TypeOK
  BY Invariance, PTL DEF IInv, TypeOK

\* No organization is ever without an owner.
THEOREM OrgsHaveOwners == Spec => []EveryOrgHasOwner
  BY Invariance, PTL DEF IInv

\* However its signups overlap or fail, an address founds one organization.
THEOREM SignupsFoundOneOrg == Spec => []SignupFoundsOneOrg
  BY Invariance, PTL DEF IInv

\* An invitation that is used up has made its addressee a member.
THEOREM InvitationsGrantMembership == Spec => []UsedInvitationGrantsMembership
  BY Invariance, PTL DEF IInv

\* What a step does to the membership table and the invitations.
LEMMA MembershipStep ==
  ASSUME IInv, Next
  PROVE  Membership!Next \/ UNCHANGED <<orgs, role, invite, used>>
<1>1. ASSUME NEW r \in Requests, CommitOrg(r) PROVE Membership!Next
  <2>1. email[r] \in Emails /\ held[r] \in Slugs /\ held[r] \notin orgs
    BY <1>1 DEF CommitOrg, IInv, StepsFit, Fits, References
  <2>2. Membership!Found(email[r], held[r])
    BY <1>1, <2>1 DEF CommitOrg, Membership!Found
  <2> QED
    BY <2>1, <2>2 DEF Membership!Next
<1>2. ASSUME NEW r \in Requests, pc[r] \in {"joinWrite", "joinNew"},
             used' = used \cup {with[r]}, UNCHANGED <<orgs, invite>>,
             \/ role[<<email[r], slug[r]>>] # "none" /\ UNCHANGED role
             \/ /\ role[<<email[r], slug[r]>>] = "none"
                /\ role' = [role EXCEPT ![<<email[r], slug[r]>>] = Offer[with[r]]]
      PROVE  Membership!Next \/ UNCHANGED <<orgs, role, invite, used>>
  <2>1. /\ with[r] \in Invites /\ email[r] \in Emails /\ slug[r] \in Slugs
        /\ invite[with[r]] = <<email[r], slug[r]>>
    BY <1>2 DEF IInv, StepsFit, Fits, InviteSteps, Types, References
  <2>2. <<email[r], slug[r]>> # None
    BY <2>1, NoneAssumption
  <2>3. with[r] \in used => role[<<email[r], slug[r]>>] # "none"
    BY <2>1 DEF IInv, UsedInvitationGrantsMembership
  <2>4. CASE with[r] \in used
    BY <1>2, <2>3, <2>4
  <2>5. CASE with[r] \notin used
    <3>1. role' = [role EXCEPT ![invite[with[r]]] =
                               IF @ = "none" THEN Offer[with[r]] ELSE @]
      BY <1>2, <2>1 DEF IInv, Types
    <3>2. Membership!Redeem(with[r])
      BY <1>2, <2>1, <2>2, <2>5, <3>1 DEF Membership!Redeem
    <3> QED
      BY <2>1, <3>2 DEF Membership!Next
  <2> QED
    BY <2>4, <2>5
<1>3. ASSUME NEW r \in Requests, JoinWrite(r)
      PROVE  Membership!Next \/ UNCHANGED <<orgs, role, invite, used>>
  <2>1. member[r] => role[<<email[r], slug[r]>>] # "none"
    BY <1>3 DEF JoinWrite, IInv, StepsFit, Fits
  <2> QED
    BY <1>2, <1>3, <2>1 DEF JoinWrite
<1>4. ASSUME NEW r \in Requests, JoinNew(r)
      PROVE  Membership!Next \/ UNCHANGED <<orgs, role, invite, used>>
  BY <1>2, <1>4 DEF JoinNew
<1>5. CASE Invite
  <2>1. PICK i \in Invites, p \in Emails \X orgs :
          invite[i] = None /\ invite' = [invite EXCEPT ![i] = p]
    BY <1>5 DEF Invite
  <2>2. PICK e \in Emails, s \in orgs : p = <<e, s>>
    OBVIOUS
  <2>3. s \in Slugs
    BY DEF IInv, Types
  <2>4. Membership!Issue(i, e, s)
    BY <1>5, <2>1, <2>2, <2>3 DEF Invite, Membership!Issue
  <2> QED
    BY <2>3, <2>4 DEF Membership!Next
<1>6. ASSUME NEW r \in Requests, Begin(r) \/ Leave(r) \/ Fail(r)
      PROVE  UNCHANGED <<orgs, role, invite, used>>
  BY <1>6 DEF Begin, BeginSignup, BeginLogin, BeginVerify, BeginResend,
              BeginCreateOrg, BeginAccept, Arrive, Leave, Fail, Clear, Forget, db
<1>7. ASSUME NEW r \in Requests, Signup(r) \/ InsertOrg(r) \/ FetchOrg(r)
      PROVE  UNCHANGED <<orgs, role, invite, used>>
  BY <1>7 DEF Signup, SignupReplay, SignupFind, SignupUser, SignupCache, InsertOrg,
              FetchOrg, db
<1>8. ASSUME NEW r \in Requests,
             LoginCheck(r) \/ Activate(r) \/ OpenSession(r) \/ Resend(r)
      PROVE  UNCHANGED <<orgs, role, invite, used>>
  BY <1>8 DEF LoginCheck, Activate, OpenSession, Resend, db
<1>9. ASSUME NEW r \in Requests,
             LookupInvite(r) \/ FindInvitee(r) \/ JoinRead(r) \/ NewUser(r)
      PROVE  UNCHANGED <<orgs, role, invite, used>>
  BY <1>9 DEF LookupInvite, FindInvitee, JoinRead, NewUser, db
<1>10. CASE Suspend \/ Lapse
  BY <1>10 DEF Suspend, Lapse, LapseInvite, LapseLink, LapseKey, db
<1> QED
  BY <1>1, <1>3, <1>4, <1>5, <1>6, <1>7, <1>8, <1>9, <1>10
     DEF Next, Handle, Accept

\* The handlers implement Directory: a membership comes from founding an
\* organization or from redeeming an invitation once, in one step.
THEOREM MembershipsFollowDirectory == Spec => MembershipsAreGranted
<1>1. Init => Membership!Init
  BY DEF Init, Membership!Init
<1>2. IInv /\ [Next]_vars => [Membership!Next]_<<orgs, role, invite, used>>
  BY MembershipStep DEF vars, db
<1> QED
  BY <1>1, <1>2, Invariance, PTL DEF Spec, MembershipsAreGranted, Membership!Spec

\* The address was offered the role it has in the organization, and redeemed that.
Invited(e, s) == \E i \in used : invite[i] = <<e, s>> /\ Offer[i] = role[<<e, s>>]

\* A membership is founded or invited: whoever has redeemed no invitation that
\* offers its role is an owner, there is at most one of these in an organization,
\* and the address that signed up with an organization owns it.  An invitation
\* can offer any role, so that an organization may come to have several owners.
MembershipOrigin ==
  /\ \A e \in Emails, s \in Slugs :
       role[<<e, s>>] \notin {"none", "OWNER"} => Invited(e, s)
  /\ \A d, e \in Emails, s \in Slugs :
       /\ role[<<d, s>>] # "none" /\ ~Invited(d, s)
       /\ role[<<e, s>>] # "none" /\ ~Invited(e, s)
       => d = e
  /\ \A s \in Slugs : founder[s] # None => role[<<founder[s], s>>] = "OWNER"

\* The tables only grow, and a new membership is the founding of a new
\* organization or uses up an invitation of exactly this address to it, with
\* the role that invitation offers.
GrantsOnly ==
  /\ orgs \subseteq orgs' /\ used \subseteq used'
  /\ \A i \in Invites : invite[i] # None => invite'[i] = invite[i]
  /\ \A e \in Emails, s \in Slugs :
       /\ role[<<e, s>>] # "none" => role'[<<e, s>>] = role[<<e, s>>]
       /\ role[<<e, s>>] = "none" /\ role'[<<e, s>>] # "none" =>
            \/ role'[<<e, s>>] = "OWNER" /\ s \in orgs' \ orgs
            \/ \E i \in used' \ used : invite[i] = <<e, s>> /\ role'[<<e, s>>] = Offer[i]

\* What each step of Directory does to one membership.
LEMMA GrantStep ==
  ASSUME IInv, Membership!Next \/ UNCHANGED <<orgs, role, invite, used>>
  PROVE  GrantsOnly
<1> USE DEF IInv, Types, References, GrantsOnly
<1>1. ASSUME NEW e \in Emails, NEW s \in Slugs, Membership!Found(e, s) PROVE GrantsOnly
  BY <1>1 DEF Membership!Found
<1>2. ASSUME NEW i \in Invites, NEW e \in Emails, NEW s \in Slugs, Membership!Issue(i, e, s)
      PROVE  GrantsOnly
  BY <1>2 DEF Membership!Issue
<1>3. ASSUME NEW i \in Invites, Membership!Redeem(i) PROVE GrantsOnly
  <2>1. PICK e \in Emails, s \in Slugs : invite[i] = <<e, s>>
    BY <1>3 DEF Membership!Redeem
  <2>2. /\ used' = used \cup {i} /\ i \notin used /\ UNCHANGED <<orgs, invite>>
        /\ role' = [role EXCEPT ![<<e, s>>] =
                      IF role[<<e, s>>] = "none" THEN Offer[i] ELSE role[<<e, s>>]]
    BY <1>3, <2>1 DEF Membership!Redeem
  <2> QED
    BY <2>1, <2>2
<1>4. CASE UNCHANGED <<orgs, role, invite, used>>
  BY <1>4
<1> QED
  BY <1>1, <1>2, <1>3, <1>4 DEF Membership!Next

\* Only the transaction of a signup makes a founder.
LEMMA FounderChange ==
  ASSUME Next
  PROVE  UNCHANGED founder \/ \E r \in Requests : CommitOrg(r)
<1>1. ASSUME NEW r \in Requests, Begin(r) \/ Leave(r) \/ Fail(r) PROVE UNCHANGED founder
  BY <1>1 DEF Begin, BeginSignup, BeginLogin, BeginVerify, BeginResend,
              BeginCreateOrg, BeginAccept, Arrive, Leave, Fail, Clear, db
<1>2. ASSUME NEW r \in Requests, Handle(r) PROVE UNCHANGED founder \/ CommitOrg(r)
  <2>1. Signup(r) => UNCHANGED founder
    BY DEF Signup, SignupReplay, SignupFind, SignupUser, SignupCache, db
  <2>2. InsertOrg(r) \/ FetchOrg(r) => UNCHANGED founder
    BY DEF InsertOrg, FetchOrg, db
  <2>3. LoginCheck(r) \/ Activate(r) \/ OpenSession(r) \/ Resend(r) => UNCHANGED founder
    BY DEF LoginCheck, Activate, OpenSession, Resend, db
  <2>4. Accept(r) => UNCHANGED founder
    BY DEF Accept, LookupInvite, FindInvitee, JoinRead, JoinWrite, NewUser, JoinNew, db
  <2> QED
    BY <1>2, <2>1, <2>2, <2>3, <2>4 DEF Handle
<1>3. Suspend \/ Invite \/ Lapse => UNCHANGED founder
  BY DEF Suspend, Invite, Lapse, LapseInvite, LapseLink, LapseKey, db
<1> QED
  BY <1>1, <1>2, <1>3 DEF Next

LEMMA OriginStep == IInv /\ MembershipOrigin /\ [Next]_vars => MembershipOrigin'
<1> SUFFICES ASSUME IInv, MembershipOrigin, [Next]_vars PROVE MembershipOrigin'
  OBVIOUS
<1>1. GrantsOnly
  BY MembershipStep, GrantStep DEF vars, db
<1>2. ASSUME NEW e \in Emails, NEW s \in Slugs, NEW i \in used',
             invite[i] = <<e, s>>, Offer[i] = role'[<<e, s>>]
      PROVE  Invited(e, s)'
  <2>1. i \in Invites /\ <<e, s>> # None
    BY <1>2, TypesStep, NoneAssumption DEF Types
  <2>2. invite'[i] = <<e, s>>
    BY <1>1, <1>2, <2>1 DEF GrantsOnly
  <2> QED
    BY <1>2, <2>2 DEF Invited
<1>3. ASSUME NEW e \in Emails, NEW s \in Slugs, Invited(e, s), role[<<e, s>>] # "none"
      PROVE  Invited(e, s)'
  <2>1. PICK i \in used : invite[i] = <<e, s>> /\ Offer[i] = role[<<e, s>>]
    BY <1>3 DEF Invited
  <2>2. i \in used' /\ role'[<<e, s>>] = role[<<e, s>>]
    BY <1>1, <1>3 DEF GrantsOnly
  <2> QED
    BY <1>2, <2>1, <2>2
<1>4. ASSUME NEW e \in Emails, NEW s \in Slugs, role'[<<e, s>>] # "none", ~Invited(e, s)'
      PROVE  \/ /\ role[<<e, s>>] # "none" /\ ~Invited(e, s)
                /\ role'[<<e, s>>] = role[<<e, s>>]
             \/ /\ role[<<e, s>>] = "none" /\ role'[<<e, s>>] = "OWNER"
                /\ s \in orgs' \ orgs
  <2>1. CASE role[<<e, s>>] # "none"
    BY <1>1, <1>3, <1>4, <2>1 DEF GrantsOnly
  <2>2. CASE role[<<e, s>>] = "none"
    <3>1. ASSUME NEW i \in used' \ used, invite[i] = <<e, s>>, role'[<<e, s>>] = Offer[i]
          PROVE  FALSE
      BY <1>2, <1>4, <3>1
    <3> QED
      BY <1>1, <1>4, <2>2, <3>1 DEF GrantsOnly
  <2> QED
    BY <2>1, <2>2
<1>5. ASSUME NEW e \in Emails, NEW s \in Slugs, role'[<<e, s>>] \notin {"none", "OWNER"}
      PROVE  Invited(e, s)'
  BY <1>4, <1>5 DEF MembershipOrigin
<1>6. ASSUME NEW d \in Emails, NEW e \in Emails, NEW s \in Slugs,
             role'[<<d, s>>] # "none", ~Invited(d, s)',
             role'[<<e, s>>] # "none", ~Invited(e, s)'
      PROVE  d = e
  <2>1. CASE s \in orgs
    BY <1>4, <1>6, <2>1 DEF MembershipOrigin
  <2>2. CASE s \notin orgs
    <3>1. role[<<d, s>>] = "none" /\ role[<<e, s>>] = "none"
      BY <2>2 DEF IInv, Types, References
    <3>2. PICK c \in Emails, t \in Slugs : Membership!Found(c, t)
      <4>1. s \in orgs' \ orgs
        BY <1>4, <1>6, <3>1
      <4>2. ASSUME NEW i \in Invites, Membership!Redeem(i) PROVE FALSE
        BY <4>1, <4>2 DEF Membership!Redeem
      <4>3. ASSUME NEW i \in Invites, NEW c \in Emails, NEW t \in Slugs,
                   Membership!Issue(i, c, t)
            PROVE  FALSE
        BY <4>1, <4>3 DEF Membership!Issue
      <4> QED
        BY <4>1, <4>2, <4>3, MembershipStep DEF Membership!Next, vars, db
    <3>3. \A p \in Emails \X Slugs : p # <<c, t>> => role'[p] = role[p]
      BY <3>2 DEF Membership!Found, IInv, Types
    <3> QED
      BY <1>6, <3>1, <3>3
  <2> QED
    BY <2>1, <2>2
<1>7. ASSUME NEW s \in Slugs, founder'[s] # None PROVE role'[<<founder'[s], s>>] = "OWNER"
  <2>1. CASE UNCHANGED founder
    BY <1>1, <1>7, <2>1 DEF GrantsOnly, MembershipOrigin, IInv, Types
  <2>2. ASSUME NEW r \in Requests, CommitOrg(r) PROVE role'[<<founder'[s], s>>] = "OWNER"
    <3>1. email[r] \in Emails /\ held[r] \in Slugs
      BY <2>2 DEF CommitOrg, IInv, StepsFit, Fits
    <3>2. /\ role' = [role EXCEPT ![<<email[r], held[r]>>] = "OWNER"]
          /\ \/ UNCHANGED founder \/ founder' = [founder EXCEPT ![held[r]] = email[r]]
      BY <2>2 DEF CommitOrg
    <3>3. CASE UNCHANGED founder
      BY <1>1, <1>7, <3>3 DEF GrantsOnly, MembershipOrigin, IInv, Types
    <3>4. CASE founder' = [founder EXCEPT ![held[r]] = email[r]]
      BY <1>1, <1>7, <3>1, <3>2, <3>4 DEF GrantsOnly, MembershipOrigin, IInv, Types
    <3> QED
      BY <3>2, <3>3, <3>4
  <2> QED
    BY <2>1, <2>2, FounderChange DEF vars, db
<1> QED
  BY <1>5, <1>6, <1>7 DEF MembershipOrigin

\* Every membership has been founded or was offered by an invitation that is used
\* up, however requests overlap and wherever they stop.
THEOREM MembershipsHaveOrigin == Spec => []MembershipOrigin
<1>1. Init => MembershipOrigin
  BY DEF Init, MembershipOrigin
<1> QED
  BY <1>1, OriginStep, Invariance, PTL DEF Spec

\* No step takes a membership, an organization or an invitation away, changes a
\* role, or adds a membership that nothing but this step accounts for.
THEOREM RolesAreKept == Spec => [][GrantsOnly]_vars
<1>1. IInv /\ [Next]_vars => [GrantsOnly]_vars
  BY MembershipStep, GrantStep
<1> QED
  BY <1>1, Invariance, PTL DEF Spec

\* The answer 202 means that the account exists, unless the idempotency key
\* holds the answer to another address.
THEOREM AcceptedSignupsHaveAccounts == Spec => AcceptedSignupHasAccount
<1>1. IInv /\ [Next]_vars =>
        [\A r \in Requests :
           out[r] # "202" /\ out'[r] = "202" =>
             \/ account[email[r]] # "none"
             \/ cached[with[r]] \notin {None, email[r]}]_vars
  <2> SUFFICES ASSUME IInv, Next,
                      NEW r \in Requests, out[r] # "202", out'[r] = "202"
               PROVE  account[email[r]] # "none" \/ cached[with[r]] \notin {None, email[r]}
    BY DEF vars
  <2>1. ASSUME NEW q \in Requests, SignupReplay(q), out'[q] = "202", q = r
        PROVE  account[email[r]] # "none" \/ cached[with[r]] \notin {None, email[r]}
    <3>1. with[r] \in Keys /\ cached[with[r]] # None
      BY <2>1 DEF SignupReplay, Goto, IInv, StepsFit, Fits
    <3> QED
      BY <3>1 DEF IInv, References
  <2>2. ASSUME NEW q \in Requests, SignupCache(q), q = r
        PROVE  account[email[r]] # "none" \/ cached[with[r]] \notin {None, email[r]}
    BY <2>2 DEF SignupCache, IInv, StepsFit, Fits
  <2>3. \E q \in Requests : q = r /\ (SignupReplay(q) \/ SignupCache(q))
    <3> USE DEF Answer, Forget, Goto, IInv, Types, db, redis, input
    <3>1. ASSUME NEW q \in Requests, Begin(q) PROVE FALSE
      BY <3>1 DEF Begin, BeginSignup, BeginLogin, BeginVerify, BeginResend,
                  BeginCreateOrg, BeginAccept, Arrive
    <3>2. ASSUME NEW q \in Requests, Leave(q) \/ Fail(q) PROVE FALSE
      BY <3>2 DEF Leave, Fail, Clear, Forget
    <3>3. CASE Suspend \/ Invite \/ Lapse
      BY <3>3 DEF Suspend, Invite, Lapse, LapseInvite, LapseLink, LapseKey
    <3>4. ASSUME NEW q \in Requests, Handle(q)
          PROVE  q = r /\ (SignupReplay(q) \/ SignupCache(q))
      <4>1. SignupFind(q) \/ SignupUser(q) \/ InsertOrg(q)
              \/ CommitOrg(q) \/ FetchOrg(q) => FALSE
        BY DEF SignupFind, SignupUser, InsertOrg, CommitOrg, FetchOrg
      <4>2. LoginCheck(q) \/ Activate(q) \/ OpenSession(q) \/ Resend(q) => FALSE
        BY DEF LoginCheck, Activate, OpenSession, Resend
      <4>3. Accept(q) => FALSE
          BY DEF Accept, LookupInvite, FindInvitee, JoinRead, JoinWrite,
             NewUser, JoinNew
      <4>4. SignupReplay(q) \/ SignupCache(q) => q = r
        BY DEF SignupReplay, SignupCache
      <4> QED
        BY <3>4, <4>1, <4>2, <4>3, <4>4 DEF Handle, Signup
    <3> QED
      BY <3>1, <3>2, <3>3, <3>4 DEF Next
  <2> QED
    BY <2>1, <2>2, <2>3
<1> QED
  BY <1>1, Invariance, PTL DEF Spec, AcceptedSignupHasAccount

\* A handler keeps its input until it answers, no account goes away, and only the two places
\* that answer a signup answer 202.
LEMMA HandleEffect ==
  ASSUME IInv, NEW r \in Requests, Handle(r)
  PROVE  /\ UNCHANGED input \/ (Forget(r) /\ pc'[r] = "done")
         /\ pc[r] \notin {"idle", "done"}
         /\ \A e \in Emails : account[e] # "none" => account'[e] # "none"
         /\ \A q \in Requests \ {r} : pc'[q] = pc[q] /\ out'[q] = out[q]
         /\ UNCHANGED cached \/ SignupCache(r)
         /\ pc'[r] = "done" /\ out'[r] = "202" => SignupReplay(r) \/ SignupCache(r)
<1>1. /\ pc[r] \notin {"idle", "done"}
      /\ \/ \E step \in Steps \ {"done"} : Goto(r, step)
         \/ \E status \in Answers \ {"202"} : Answer(r, status)
         \/ (SignupReplay(r) \/ SignupCache(r)) /\ Answer(r, "202")
  <2> USE DEF Steps, Answers
  <2>1. CASE Signup(r)
    BY <2>1 DEF Signup, SignupReplay, SignupFind, SignupUser, SignupCache
  <2>2. CASE InsertOrg(r) \/ CommitOrg(r) \/ FetchOrg(r)
    BY <2>2 DEF InsertOrg, CommitOrg, FetchOrg, IInv, StepsFit, Fits
  <2>3. CASE LoginCheck(r) \/ Activate(r) \/ OpenSession(r) \/ Resend(r)
    BY <2>3 DEF LoginCheck, Activate, OpenSession, Resend
  <2>4. CASE LookupInvite(r) \/ FindInvitee(r) \/ JoinRead(r)
    BY <2>4 DEF LookupInvite, FindInvitee, JoinRead
  <2>5. CASE JoinWrite(r) \/ NewUser(r) \/ JoinNew(r)
    BY <2>5 DEF JoinWrite, NewUser, JoinNew
  <2> QED
    BY <2>1, <2>2, <2>3, <2>4, <2>5 DEF Handle, Accept
<1>2. \A step \in Steps \ {"done"} : Goto(r, step) =>
        /\ UNCHANGED input /\ pc'[r] # "done"
        /\ \A q \in Requests \ {r} : pc'[q] = pc[q] /\ out'[q] = out[q]
  BY DEF Goto, IInv, Types
<1>3. \A status : Answer(r, status) =>
        /\ Forget(r) /\ pc'[r] = "done" /\ out'[r] = status
        /\ \A q \in Requests \ {r} : pc'[q] = pc[q] /\ out'[q] = out[q]
  BY DEF Answer, IInv, Types
<1>4. \A e \in Emails : account[e] # "none" => account'[e] # "none"
  <2> USE DEF IInv, Types
  <2>1. CASE SignupUser(r) \/ Activate(r) \/ NewUser(r)
    BY <2>1 DEF SignupUser, Activate, NewUser
  <2>2. CASE ~(SignupUser(r) \/ Activate(r) \/ NewUser(r))
    <3>1. UNCHANGED account
      BY <2>2 DEF Handle, Signup, Accept, SignupReplay, SignupFind, SignupCache,
                  InsertOrg, CommitOrg, FetchOrg, LoginCheck, OpenSession, Resend,
                  LookupInvite, FindInvitee, JoinRead, JoinWrite, JoinNew, db
    <3> QED
      BY <3>1
  <2> QED
    BY <2>1, <2>2
<1>5. UNCHANGED cached \/ SignupCache(r)
  BY DEF Handle, Signup, Accept, SignupReplay, SignupFind, SignupUser, InsertOrg,
         CommitOrg, FetchOrg, LoginCheck, Activate, OpenSession, Resend, LookupInvite,
         FindInvitee, JoinRead, JoinWrite, NewUser, JoinNew, redis
<1>6. CASE \E step \in Steps \ {"done"} : Goto(r, step)
  BY <1>1, <1>2, <1>4, <1>5, <1>6
<1>7. CASE \E status \in Answers : Answer(r, status)
  <2>1. PICK status \in Answers : Answer(r, status)
    BY <1>7
  <2>2. status = "202" => SignupReplay(r) \/ SignupCache(r)
    <3>1. ASSUME NEW other \in Answers \ {"202"}, Answer(r, other) PROVE status # "202"
      BY <1>3, <2>1, <3>1
    <3>2. ASSUME NEW step \in Steps \ {"done"}, Goto(r, step) PROVE FALSE
      BY <1>2, <1>3, <2>1, <3>2
    <3> QED
      BY <1>1, <3>1, <3>2
  <2> QED
    BY <1>1, <1>3, <1>4, <1>5, <2>1, <2>2
<1> QED
  BY <1>1, <1>6, <1>7 DEF Answers

\* A request that activates an account came from a verification link.
VerifyFits == \A r \in Requests : pc[r] = "activate" => op[r] = "verify" /\ email[r] \in Emails

LEMMA VerifyInvariance == Spec => []VerifyFits
<1>1. Init => VerifyFits
  BY DEF Init, VerifyFits
<1>2. IInv /\ VerifyFits /\ [Next]_vars => VerifyFits'
  <2> SUFFICES ASSUME IInv, VerifyFits, [Next]_vars PROVE VerifyFits'
    OBVIOUS
  <2> USE DEF IInv, Types, VerifyFits, db, redis, input
  <2>1. ASSUME NEW r \in Requests, Begin(r) PROVE VerifyFits'
    BY <2>1 DEF Begin, BeginSignup, BeginLogin, BeginVerify, BeginResend,
                BeginCreateOrg, BeginAccept, Arrive
  <2>2. ASSUME NEW r \in Requests, Handle(r) PROVE VerifyFits'
    <3>1. pc'[r] # "activate"
      BY <2>2 DEF Handle, Signup, Accept, SignupReplay, SignupFind, SignupUser, SignupCache,
                  InsertOrg, CommitOrg, FetchOrg, LoginCheck, Activate, OpenSession,
                  Resend, LookupInvite, FindInvitee, JoinRead, JoinWrite, NewUser, JoinNew,
                  Goto, Answer, Forget
    <3> QED
      BY <2>2, <3>1, HandleEffect DEF Forget
  <2>3. ASSUME NEW r \in Requests, Leave(r) \/ Fail(r) PROVE VerifyFits'
    BY <2>3 DEF Leave, Fail, Clear, Forget
  <2>4. CASE Suspend \/ Invite \/ Lapse \/ UNCHANGED vars
    BY <2>4 DEF Suspend, Invite, Lapse, LapseInvite, LapseLink, LapseKey, vars
  <2> QED
    BY <2>1, <2>2, <2>3, <2>4 DEF Next
<1> QED
  BY <1>1, <1>2, Invariance, PTL DEF Spec

\* Nothing but a verification link ends a suspension.
THEOREM SuspensionsAreKept == Spec => SuspensionLiftedByLink
<1>1. IInv /\ VerifyFits /\ [Next]_vars =>
        [\A e \in Emails : account[e] = "SUSPENDED" /\ account'[e] # "SUSPENDED" =>
           \E r \in Requests : op[r] = "verify" /\ email[r] = e]_vars
  <2> SUFFICES ASSUME IInv, VerifyFits, Next, NEW e \in Emails,
                      account[e] = "SUSPENDED", account'[e] # "SUSPENDED"
               PROVE  \E r \in Requests : op[r] = "verify" /\ email[r] = e
    BY DEF vars
  <2> USE DEF IInv, Types
  <2>1. ASSUME NEW r \in Requests, SignupUser(r) \/ NewUser(r) PROVE FALSE
    BY <2>1 DEF SignupUser, NewUser
  <2>2. ASSUME NEW r \in Requests, Activate(r) PROVE op[r] = "verify" /\ email[r] = e
    BY <2>2 DEF Activate, VerifyFits
  <2>3. \/ UNCHANGED account \/ Suspend
        \/ \E r \in Requests : SignupUser(r) \/ NewUser(r) \/ Activate(r)
    <3>1. ASSUME NEW r \in Requests, Begin(r) PROVE UNCHANGED account
      BY <3>1 DEF Begin, BeginSignup, BeginLogin, BeginVerify, BeginResend,
                  BeginCreateOrg, BeginAccept, Arrive, db
    <3>2. ASSUME NEW r \in Requests, Handle(r)
          PROVE  UNCHANGED account \/ SignupUser(r) \/ NewUser(r) \/ Activate(r)
      <4>1. Signup(r) => UNCHANGED account \/ SignupUser(r)
        BY DEF Signup, SignupReplay, SignupFind, SignupCache, db
      <4>2. InsertOrg(r) \/ CommitOrg(r) \/ FetchOrg(r) => UNCHANGED account
        BY DEF InsertOrg, CommitOrg, FetchOrg, db
      <4>3. LoginCheck(r) \/ OpenSession(r) \/ Resend(r) => UNCHANGED account
        BY DEF LoginCheck, OpenSession, Resend, db
      <4>4. Accept(r) => UNCHANGED account \/ NewUser(r)
        BY DEF Accept, LookupInvite, FindInvitee, JoinRead, JoinWrite, JoinNew, db
      <4> QED
        BY <3>2, <4>1, <4>2, <4>3, <4>4 DEF Handle
    <3>3. ASSUME NEW r \in Requests, Leave(r) \/ Fail(r) PROVE UNCHANGED account
      BY <3>3 DEF Leave, Fail, Clear, Forget, db
    <3>4. Invite \/ Lapse => UNCHANGED account
      BY DEF Invite, Lapse, LapseInvite, LapseLink, LapseKey, db
    <3> QED
      BY <3>1, <3>2, <3>3, <3>4 DEF Next
  <2>4. CASE Suspend
    BY <2>4 DEF Suspend
  <2> QED
    BY <2>1, <2>2, <2>3, <2>4
<1> QED
  BY <1>1, Invariance, VerifyInvariance, PTL DEF Spec, SuspensionLiftedByLink

(***************************************************************************)
(* Behind the page                                                         *)
(***************************************************************************)

\* An address that was submitted since the page was loaded has an account.
SomeAccount == \E e \in sent : account[e] # "none"

OfPage(r) == op[r] = "signup" /\ with[r] = PageKey

\* The key of the page leads to addresses the page has sent, whether by way of
\* the cache or of a handler that is running.
PageInv ==
  /\ asked \in Requests \cup {None} /\ prompt \in BOOLEAN /\ sent \subseteq Emails
  /\ asked # None => ~prompt /\ sent # {}
  /\ prompt => SomeAccount
  /\ cached[PageKey] # None => cached[PageKey] \in sent
  /\ \A r \in Requests : OfPage(r) /\ pc[r] # "idle" => email[r] \in sent
  /\ \A r \in Requests : asked = r =>
       /\ pc[r] \notin {"idle", "done"} => OfPage(r)
       /\ pc[r] = "done" /\ out[r] = "202" => SomeAccount

\* What the page and its server do are steps of Accounts.
LEMMA PageStepsAreSteps == [PageNext]_pageVars => [Next]_vars
<1>1. ASSUME NEW r \in Requests, Submit(r) \/ Others(r) PROVE Begin(r)
  BY <1>1, PageKeyAssumption DEF Submit, Others, Begin, BeginSignup
<1>2. ASSUME NEW r \in Requests, Answered(r) \/ Orphan(r) \/ Serve(r)
      PROVE  Leave(r) \/ Handle(r) \/ Fail(r)
  BY <1>2 DEF Answered, Orphan, Serve
<1>3. Broken \/ Back \/ UNCHANGED pageVars => UNCHANGED vars
  BY DEF Broken, Back, pageVars
<1>4. Expire => Lapse
  BY DEF Expire, Lapse
<1> QED
  BY <1>1, <1>2, <1>3, <1>4 DEF PageNext, Next

LEMMA PageStep == IInv /\ PageInv /\ [PageNext]_pageVars => PageInv'
<1> SUFFICES ASSUME IInv, PageInv, [PageNext]_pageVars PROVE PageInv'
  OBVIOUS
<1> USE NoneAssumption, PageKeyAssumption DEF IInv, Types
<1>1. ASSUME NEW r \in Requests, Submit(r) PROVE PageInv'
  BY <1>1 DEF Submit, Arrive, PageInv, OfPage, SomeAccount, db, redis
<1>2. ASSUME NEW r \in Requests, Answered(r) PROVE PageInv'
  BY <1>2 DEF Answered, Leave, Clear, Forget, PageInv, OfPage, SomeAccount, db, redis
<1>3. ASSUME NEW r \in Requests, Others(r) PROVE PageInv'
  BY <1>3 DEF Others, BeginSignup, Arrive, PageInv, OfPage, SomeAccount, page, db, redis
<1>4. ASSUME NEW r \in Requests, Handle(r), UNCHANGED page PROVE PageInv'
  <2>1. SomeAccount => SomeAccount'
    BY <1>4, HandleEffect DEF SomeAccount, PageInv, page
  <2>2. \A q \in Requests :
          /\ OfPage(q)' => OfPage(q) /\ email'[q] = email[q]
          /\ OfPage(q) => OfPage(q)' \/ pc'[q] = "done"
    BY <1>4, HandleEffect DEF OfPage, input, Forget
  <2>3. cached'[PageKey] # None => cached'[PageKey] \in sent
    <3>1. CASE SignupCache(r)
      <4>1. op[r] = "signup" /\ with[r] \in Keys
        BY <3>1 DEF SignupCache, StepsFit, Fits
      <4>2. CASE with[r] = PageKey
        BY <3>1, <4>1, <4>2 DEF SignupCache, PageInv, OfPage
      <4>3. CASE with[r] # PageKey
        BY <3>1, <4>1, <4>3 DEF SignupCache, PageInv
      <4> QED
        BY <4>2, <4>3
    <3> QED
      BY <1>4, <3>1, HandleEffect DEF PageInv
  <2>4. ASSUME asked = r, pc'[r] = "done", out'[r] = "202" PROVE SomeAccount
    <3>0. OfPage(r)
      BY <1>4, <2>4, HandleEffect DEF PageInv
    <3>1. CASE SignupReplay(r)
      <4>1. cached[PageKey] # None
        BY <2>4, <3>0, <3>1 DEF SignupReplay, OfPage, Goto
      <4> QED
        BY <4>1 DEF PageInv, SomeAccount, References
    <3>2. CASE SignupCache(r)
      BY <3>0, <3>2 DEF SignupCache, PageInv, SomeAccount, StepsFit, Fits
    <3> QED
      BY <1>4, <2>4, <3>1, <3>2, HandleEffect
  <2> QED
    BY <1>4, <2>1, <2>2, <2>3, <2>4, HandleEffect DEF PageInv, page
<1>5. ASSUME NEW r \in Requests, Fail(r) \/ Leave(r), UNCHANGED page PROVE PageInv'
  <2>1. /\ UNCHANGED <<page, account, cached>> /\ pc'[r] = "idle" /\ op'[r] = "none"
        /\ \A q \in Requests \ {r} :
             /\ pc'[q] = pc[q] /\ out'[q] = out[q] /\ op'[q] = op[q]
             /\ email'[q] = email[q] /\ with'[q] = with[q]
    BY <1>5 DEF Fail, Leave, Clear, Forget, db, redis
  <2> QED
    BY <2>1 DEF PageInv, OfPage, SomeAccount, page
<1>6. CASE Broken
  BY <1>6 DEF Broken, PageInv, OfPage, SomeAccount, vars, db, redis, input
<1>7. CASE Back
  BY <1>7 DEF Back, PageInv, OfPage, SomeAccount, vars, db, redis, input
<1>8. CASE Expire
  BY <1>8 DEF Expire, LapseKey, PageInv, OfPage, SomeAccount, page, db, input
<1>9. CASE UNCHANGED pageVars
  BY <1>9 DEF pageVars, page, PageInv, OfPage, SomeAccount, vars, db, redis, input
<1> QED
  BY <1>1, <1>2, <1>3, <1>4, <1>5, <1>6, <1>7, <1>8, <1>9 DEF PageNext, Serve, Orphan

LEMMA PageInvariance == PageSpec => [](IInv /\ PageInv)
<1>1. PageInit => IInv /\ PageInv
  <2>1. Init => IInv
    BY NoneAssumption DEF Init, IInv, Types, References, StepsFit, Fits, HoldersDiffer,
       FoundersFit, EveryOrgHasOwner, UsedInvitationGrantsMembership,
       SignupFoundsOneOrg, InviteSteps, Statuses, Roles, Endpoints, Answers, Steps
  <2>2. ASSUME PageInit PROVE PageInv
    <3>1. cached[PageKey] = None /\ \A r \in Requests : pc[r] = "idle"
      BY <2>2, PageKeyAssumption DEF PageInit, Init
    <3> QED
      BY <2>2, <3>1, PageKeyAssumption DEF PageInit, PageInv
  <2> QED
    BY <2>1, <2>2 DEF PageInit
<1>2. IInv /\ PageInv /\ [PageNext]_pageVars => (IInv /\ PageInv)'
  BY PageStep, PageStepsAreSteps, TypesStep, ReferencesStep, StepsFitStep, HoldersStep,
     FoundersStep, OwnerStep, UsedStep, OneOrgStep DEF IInv
<1> QED
  BY <1>1, <1>2, PTL DEF PageSpec

\* The page and what it can still hear from the server are well-formed.
THEOREM PageTypeCorrect == PageSpec => []PageTypeOK
<1>1. IInv /\ PageInv => PageTypeOK
  BY DEF IInv, PageInv, PageTypeOK
<1> QED
  BY <1>1, PageInvariance, PTL

\* "Check your email" means that an address sent from the page has an account.
THEOREM PromptsMeanAccounts == PageSpec => []PromptMeansAccount
<1>1. IInv /\ PageInv => PromptMeansAccount
  BY DEF PageInv, PromptMeansAccount, SomeAccount
<1> QED
  BY <1>1, PageInvariance, PTL

\* Retries from the page, too, found one organization per address.
THEOREM PageFoundsOneOrg == PageSpec => []SignupFoundsOneOrg
<1>1. IInv => SignupFoundsOneOrg
  BY DEF IInv
<1> QED
  BY <1>1, PageInvariance, PTL

\* A page in front of the handlers only restricts them: what holds of every
\* behaviour of Accounts holds behind the page.
LEMMA PageImplements == PageSpec => Spec
<1>1. PageInit => Init
  BY DEF PageInit
<1> QED
  BY <1>1, PageStepsAreSteps, PTL DEF PageSpec, Spec

\* Behind the page, too, memberships are founded or redeemed, the answer 202
\* means that the account exists, and nothing but a link ends a suspension.
THEOREM PageKeepsPromises ==
  PageSpec => /\ MembershipsAreGranted /\ AcceptedSignupHasAccount /\ SuspensionLiftedByLink
              /\ []EveryOrgHasOwner /\ []MembershipOrigin /\ [][GrantsOnly]_vars
  BY PageImplements, MembershipsFollowDirectory, AcceptedSignupsHaveAccounts,
     SuspensionsAreKept, OrgsHaveOwners, MembershipsHaveOrigin, RolesAreKept, PTL
=============================================================================
