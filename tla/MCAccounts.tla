------------------------------ MODULE MCAccounts -------------------------------
(* Starts with an account, with a sign-up whose code was sent, with one that is  *)
(* verified and with one that is completed.                                      *)
EXTENDS Accounts, TLC

CONSTANTS u1, e1, p1, s1, d1, h1, x1, jpg

WithPassword == [NoUser EXCEPT !.email = e1, !.phone = p1, !.password = TRUE,
                   !.emailOK = TRUE, !.phoneOK = TRUE, !.active = TRUE]
WithProviders == [NoUser EXCEPT !.email = e1, !.emailOK = TRUE, !.active = TRUE,
                    !.links = [p \in Providers |-> e1]]
Staged == [NoSignup EXCEPT !.email = e1, !.phone = p1, !.password = TRUE]
Verified == [Staged EXCEPT !.emailOK = TRUE, !.phoneOK = TRUE]
At(user, row, sent, request) ==
  [part |-> "accounts", pages |-> [u \in Users |-> NoPage],
   users |-> [u \in Users |-> IF u = u1 THEN user ELSE NoUser],
   signups |-> [i \in Signups |-> IF i = s1 THEN row ELSE NoSignup],
   sent |-> [i \in Signups |-> IF i = s1 /\ sent THEN [id |-> s1, to |-> e1, n |-> 1] ELSE None],
   texted |-> [i \in Signups |-> IF i = s1 /\ sent THEN p1 ELSE None],
   docs |-> [d \in Documents |-> IF user # NoUser /\ d = d1
                                 THEN [owner |-> u1, row |-> TRUE, object |-> TRUE, late |-> FALSE]
                                 ELSE NoDocument],
   requests |-> [q \in Requests |-> request]]
Unrequested == [owner |-> None, status |-> "none"]
\* On the directory's page: somebody who confirmed the address, and somebody who did not.
Listed(user) ==
  [At(user, NoSignup, FALSE, Unrequested) EXCEPT !.part = "directory", !.docs = [d \in Documents |-> NoDocument]]
WithPage == [photo |-> jpg, languages |-> {x1}, shares |-> {h1}]
AtSignup == At(NoUser, Staged, TRUE, Unrequested)
AtVerified == At(NoUser, Verified, FALSE, Unrequested)
AtProviders == At(WithProviders, NoSignup, FALSE, Unrequested)
AtCompleted == At(WithPassword, [Verified EXCEPT !.done = u1], FALSE, [owner |-> u1, status |-> "underway"])
AtPage == [Listed(WithPassword) EXCEPT !.requests = [q \in Requests |-> [owner |-> u1, status |-> "underway"]]]
AtKept == [AtPage EXCEPT !.pages = [@ EXCEPT ![u1] = WithPage]]
AtUnconfirmed == Listed([WithPassword EXCEPT !.emailOK = FALSE])
MCStarts == {AtSignup, AtVerified, AtProviders, AtCompleted, AtKept, AtUnconfirmed}
Symmetric == Permutations(Calls)
================================================================================
