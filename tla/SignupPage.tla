----------------------------- MODULE SignupPage -----------------------------
(***************************************************************************)
(* The signup page of the web client in front of the handlers of Accounts: *)
(* SignupPage, useSignup and the request that carries it.                  *)
(*                                                                         *)
(* One load of the page draws one idempotency key and sends it with every  *)
(* submission, also after an error, a corrected address or the way back    *)
(* from its prompt.  A submission can be answered, refused or cut off; the *)
(* handler of one that is cut off goes on, so that the next submission can *)
(* overlap with it.  Others, among them earlier loads of this page, sign   *)
(* up meanwhile with the same addresses and slugs but keys of their own.   *)
(***************************************************************************)
EXTENDS Accounts

CONSTANT PageKey   \* idempotencyKey, drawn when the page is loaded

ASSUME PageKeyAssumption == PageKey \in Keys /\ None \notin Keys \cup Requests

VARIABLES
  asked,    \* the request whose answer onSubmit awaits, or None
  prompt,   \* showVerificationPrompt
  sent      \* addresses submitted since the page was loaded (history)

page     == <<asked, prompt, sent>>
pageVars == <<vars, page>>

PageTypeOK ==
  /\ Types
  /\ asked \in Requests \cup {None}
  /\ asked # None => ~prompt /\ sent # {}
  /\ prompt \in BOOLEAN
  /\ sent \subseteq Emails

PageInit ==
  /\ Init
  /\ asked = None /\ prompt = FALSE /\ sent = {}

(***************************************************************************)
(* The page                                                                *)
(***************************************************************************)

\* The button is disabled while a submission runs, and the prompt has none.
Submit(r) ==
  /\ ~prompt /\ asked = None
  /\ \E e \in Emails, s \in Slugs :
       Arrive(r, "signup", "idem", e, s, PageKey) /\ sent' = sent \cup {e}
  /\ asked' = r
  /\ UNCHANGED prompt

\* A mutant: the submission still counts as running.
AnsweredPending(r) ==
  /\ asked = r /\ Leave(r)
  /\ prompt' = (out[r] = "202")
  /\ UNCHANGED <<asked, sent>>

\* mutateAsync resolves on 202 and throws on every other status.
Answered(r) ==
  /\ asked = r /\ Leave(r)
  /\ asked' = None
  /\ prompt' = (out[r] = "202")
  /\ UNCHANGED sent

\* fetch throws: the connection broke, or the server stopped.
Broken ==
  /\ asked # None
  /\ asked' = None
  /\ UNCHANGED <<vars, prompt, sent>>

\* "Back to signup": the form is as it was, and so is the key.
Back ==
  /\ prompt
  /\ prompt' = FALSE
  /\ UNCHANGED <<vars, asked, sent>>

(***************************************************************************)
(* The server and its other clients                                        *)
(***************************************************************************)
Others(r) ==
  /\ r # asked /\ BeginSignup(r) /\ with'[r] # PageKey
  /\ UNCHANGED page

Serve(r) == (Handle(r) \/ Fail(r)) /\ UNCHANGED page

\* A handler whose client is gone ends.
Orphan(r) == r # asked /\ Leave(r) /\ UNCHANGED page

Expire == LapseKey /\ UNCHANGED page

PageNext ==
  \/ \E r \in Requests : Submit(r) \/ Answered(r) \/ Others(r) \/ Serve(r) \/ Orphan(r)
  \/ Broken \/ Back \/ Expire

PageSpec == PageInit /\ [][PageNext]_pageVars

Stop == Broken \/ \E r \in Requests : Fail(r)

\* Handlers go on, an answer reaches the page, and one day nothing breaks any
\* more.  Whether the user submits again is left open.
FairPageSpec ==
  /\ PageSpec
  /\ \A r \in Requests : WF_pageVars(Handle(r) /\ UNCHANGED page) /\ WF_pageVars(Answered(r))
  /\ WF_pageVars(Broken /\ \E r \in Requests : asked = r /\ pc[r] = "idle")
  /\ <>[][~Stop]_pageVars

(***************************************************************************)
(* Properties                                                              *)
(***************************************************************************)

\* "Check your email" is shown only if an address that was submitted since the
\* page was loaded has an account, although a key brings back the answer to
\* another address and submissions are cut off anywhere (signup/page.tsx 37-69,
\* auth.service.ts 94-116, 212).
PromptMeansAccount ==
  prompt => \E e \in sent : account[e] # "none"

\* The page does not wait forever, although a handler can wait for a slug that
\* another one holds in an open transaction (auth.service.ts 148-175).
SubmissionEnds == asked # None ~> asked = None

\* A user who submits again and again, a slug that is free each time, is
\* prompted in the end: a try that stopped half-way, with the account but not
\* the organization, does not block the ones after it (auth.service.ts 103-116,
\* 162-209, signup/page.tsx 37-47).
PersistencePays ==
  []<>(\E r \in Requests : asked = r /\ pc[r] = "idem" /\ slug[r] \notin orgs) => <>prompt
=============================================================================
