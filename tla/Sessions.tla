------------------------------- MODULE Sessions --------------------------------
(* Sessions of an account: refresh tokens rotated within a family, the tokens    *)
(* that reset a password, passwords and linked providers, and the suspensions    *)
(* of an administrator.                                                          *)
EXTENDS AccountRecords

Allowed(u) == Found(u) /\ users[u].active

Begin(c, pc, u) ==
  /\ Idle(c)
  /\ call' = [call EXCEPT ![c] = [Blank EXCEPT !.pc = pc, !.who = u, !.view = users[u]]]
  /\ UNCHANGED <<users, signupVars, sessionVars, careerVars>>

BeginLogin(c, u) ==
  /\ Allowed(u) /\ users[u].password /\ users[u].emailOK
  /\ Begin(c, "mint", u)
\* complete_google_callback for a linked identity.
BeginGoogleLogin(c, e) == \E u \in Linked(Google, e) : Allowed(u) /\ Begin(c, "mint", u)

\* The one commit of the calls that sign in.
IssueTokens(c) ==
  /\ call[c].pc = "mint"
  /\ Mint(call[c].who)
  /\ Finish(c)
  /\ UNCHANGED <<users, signupVars, resets, reused, raced, careerVars>>

BeginRefresh(c, t) ==
  /\ Idle(c) /\ tokens[t].live
  /\ Allowed(tokens[t].user) /\ users[tokens[t].user].emailOK
  /\ call' = [call EXCEPT ![c] =
       [Blank EXCEPT !.pc = "refresh", !.tok = t, !.who = tokens[t].user,
                     !.early = tokens[t].family \notin reused]]
  /\ UNCHANGED <<users, signupVars, sessionVars, careerVars>>

\* The presented row is revoked by its key, whatever became of it, and the next
\* row of the family is added.
Rotate(c) ==
  /\ call[c].pc = "refresh"
  /\ FreeTokens # {}
  /\ LET old == call[c].tok
         next == CHOOSE t \in FreeTokens : TRUE
         family == tokens[old].family
         stray == family \in reused /\ (call[c].early \/ tokens[old].stray) IN
     /\ tokens' = [tokens EXCEPT
          ![old].live = FALSE,
          ![next] = [user |-> call[c].who, family |-> family, live |-> TRUE, stray |-> stray]]
  /\ Finish(c)
  /\ UNCHANGED <<users, signupVars, resets, reused, raced, careerVars>>

\* revoke_family, when a revoked token is presented again.
PresentedOnly(t) == {t}
FamilyOf(t) == {s \in Tokens : tokens[s].family = tokens[t].family}
Revoked(S) == [t \in Tokens |-> IF t \in S THEN [tokens[t] EXCEPT !.live = FALSE] ELSE tokens[t]]
RefuseReused(t) ==
  /\ tokens[t].user # None /\ ~tokens[t].live
  /\ tokens' = Revoked(FamilyOf(t))
  /\ reused' = reused \cup {tokens[t].family}
  /\ UNCHANGED <<users, signupVars, resets, raced, careerVars, call>>

\* logout; revoke_session of the account and of the administrator.
RevokeSession(t) ==
  /\ tokens[t].live
  /\ tokens' = Revoked({t})
  /\ UNCHANGED <<users, signupVars, resets, reused, raced, careerVars, call>>
\* revoke_all_sessions, sparing the family of the caller or none.
RevokeAllSessions(u, spared) ==
  /\ Found(u) /\ spared \in {None} \cup {tokens[t].family : t \in {s \in Tokens : tokens[s].user = u}}
  /\ tokens' = Revoked({t \in Tokens : tokens[t].user = u /\ tokens[t].family # spared})
  /\ tokens' # tokens
  /\ UNCHANGED <<users, signupVars, resets, reused, raced, careerVars, call>>

\* forgot_password uses up the active tokens it sees, then waits for the mailer.
BeginForgot(c, u) ==
  /\ Idle(c) /\ Allowed(u) /\ users[u].emailOK
  /\ call' = [call EXCEPT ![c] =
       [Blank EXCEPT !.pc = "forgot", !.who = u,
          !.gone = {k \in Resets : resets[k].user = u /\ ~resets[k].used}]]
  /\ UNCHANGED <<users, signupVars, sessionVars, careerVars>>
CreateReset(c) ==
  /\ call[c].pc = "forgot"
  /\ \E x \in Resets : resets[x] = NoReset
  /\ LET k == CHOOSE x \in Resets : resets[x] = NoReset IN
       resets' = [x \in Resets |->
                    IF x = k THEN [user |-> call[c].who, used |-> FALSE]
                    ELSE IF x \in call[c].gone THEN [resets[x] EXCEPT !.used = TRUE]
                    ELSE resets[x]]
  /\ Finish(c)
  /\ UNCHANGED <<users, signupVars, tokens, reused, raced, careerVars>>

BeginReset(c, k) ==
  /\ Idle(c) /\ resets[k] # NoReset /\ ~resets[k].used /\ Allowed(resets[k].user)
  /\ call' = [call EXCEPT ![c] = [Blank EXCEPT !.pc = "reset", !.tok = k, !.who = resets[k].user]]
  /\ UNCHANGED <<users, signupVars, sessionVars, careerVars>>
ResetPassword(c) ==
  /\ call[c].pc = "reset"
  /\ LET u == call[c].who IN
     /\ users' = [users EXCEPT ![u].password = TRUE]
     /\ resets' = [k \in Resets |-> IF resets[k].user = u THEN [resets[k] EXCEPT !.used = TRUE]
                                    ELSE resets[k]]
     /\ tokens' = Revoked({t \in Tokens : tokens[t].user = u})
  /\ Finish(c)
  /\ UNCHANGED <<signupVars, reused, raced, careerVars>>

\* set_password on an account without one, change_password on one with one.
BeginPassword(c, u) == Allowed(u) /\ Begin(c, "password", u)
SavePassword(c) ==
  /\ call[c].pc = "password"
  /\ users' = [users EXCEPT ![call[c].who].password = TRUE]
  /\ Finish(c)
  /\ UNCHANGED <<signupVars, sessionVars, careerVars>>

\* oauth_callback of another provider: an account is found, linked or made.
BeginOAuthLogin(c, p, e) ==
  /\ p # Google
  /\ \E u \in Linked(p, e) : Allowed(u) /\ Begin(c, "mint", u)
BeginOAuthLink(c, p, e) ==
  /\ Idle(c) /\ p # Google /\ Linked(p, e) = {}
  /\ \A u \in ByEmail(e) : users[u].active
  /\ call' = [call EXCEPT ![c] =
       [Blank EXCEPT !.pc = "oauth", !.prov = p, !.email = e,
          !.who = IF ByEmail(e) = {} THEN None ELSE CHOOSE u \in ByEmail(e) : TRUE]]
  /\ UNCHANGED <<users, signupVars, sessionVars, careerVars>>
FinishOAuth(c) ==
  /\ call[c].pc = "oauth"
  /\ call[c].who # None \/ FreeUsers # {}
  /\ LET k == call[c]
         u == IF k.who # None THEN k.who ELSE CHOOSE x \in FreeUsers : TRUE
         base == IF k.who # None THEN users[u]
                 ELSE [NoUser EXCEPT !.email = k.email, !.active = TRUE]
         row == [base EXCEPT !.emailOK = TRUE, !.links[k.prov] = k.email] IN
     /\ base.links[k.prov] = None
     /\ ~UserClash(u, row) /\ ~LinkClash(u, row)
     /\ users' = [users EXCEPT ![u] = row]
     /\ Mint(u)
  /\ Finish(c)
  /\ UNCHANGED <<signupVars, resets, reused, raced, careerVars>>

BeginLink(c, u, p, e) ==
  /\ Idle(c) /\ Allowed(u) /\ p # Google
  /\ users[u].links[p] = None /\ Linked(p, e) = {}
  /\ call' = [call EXCEPT ![c] = [Blank EXCEPT !.pc = "link", !.who = u, !.prov = p, !.email = e]]
  /\ UNCHANGED <<users, signupVars, sessionVars, careerVars>>
FinishLink(c) ==
  /\ call[c].pc = "link"
  /\ LET u == call[c].who
         row == [users[u] EXCEPT !.links[call[c].prov] = call[c].email] IN
     /\ users[u].links[call[c].prov] = None /\ ~LinkClash(u, row)
     /\ users' = [users EXCEPT ![u] = row]
  /\ Finish(c)
  /\ UNCHANGED <<signupVars, sessionVars, careerVars>>

\* A provider goes only when a password or another provider remains.
Removable(row) == row.password \/ Cardinality({p \in Providers : row.links[p] # None}) > 1
BeginUnlink(c, u, p) ==
  /\ Idle(c) /\ Allowed(u) /\ users[u].links[p] # None
  /\ Removable(users[u])
  /\ call' = [call EXCEPT ![c] = [Blank EXCEPT !.pc = "unlink", !.who = u, !.prov = p,
                                    !.view = users[u]]]
  /\ UNCHANGED <<users, signupVars, sessionVars, careerVars>>
FinishUnlink(c) ==
  /\ call[c].pc = "unlink"
  /\ LET u == call[c].who IN
     /\ users' = [users EXCEPT ![u].links[call[c].prov] = None]
     /\ raced' = IF users[u].links = call[c].view.links THEN raced ELSE raced \cup {u}
  /\ Finish(c)
  /\ UNCHANGED <<signupVars, tokens, resets, reused, careerVars>>

\* update_profile with a phone: a new number is to be verified again.
BeginProfile(c, u, p) ==
  /\ Idle(c) /\ Allowed(u) /\ ByPhone(p) \subseteq {u}
  /\ call' = [call EXCEPT ![c] = [Blank EXCEPT !.pc = "profile", !.who = u, !.phone = p,
                                    !.view = users[u]]]
  /\ UNCHANGED <<users, signupVars, sessionVars, careerVars>>
SaveProfile(c) ==
  /\ call[c].pc = "profile"
  /\ LET u == call[c].who
         view == call[c].view
         new == [view EXCEPT !.phone = call[c].phone,
                             !.phoneOK = @ /\ view.phone = call[c].phone]
         row == Written(users[u], view, new) IN
     /\ ~UserClash(u, row)
     /\ users' = [users EXCEPT ![u] = row]
  /\ Finish(c)
  /\ UNCHANGED <<signupVars, sessionVars, careerVars>>

\* suspend_user ends the sessions it sees; restore_user brings none back.
BeginSuspend(c, u) == Found(u) /\ users[u].active /\ Begin(c, "suspend", u)
BeginRestore(c, u) == Found(u) /\ ~users[u].active /\ Begin(c, "restore", u)
FinishSuspend(c) ==
  /\ call[c].pc = "suspend"
  /\ users' = [users EXCEPT ![call[c].who].active = FALSE]
  /\ tokens' = Revoked({t \in Tokens : tokens[t].user = call[c].who})
  /\ Finish(c)
  /\ UNCHANGED <<signupVars, resets, reused, raced, careerVars>>
FinishRestore(c) ==
  /\ call[c].pc = "restore"
  /\ users' = [users EXCEPT ![call[c].who].active = TRUE]
  /\ Finish(c)
  /\ UNCHANGED <<signupVars, sessionVars, careerVars>>

SessionsNext ==
  \/ \E c \in Calls :
       \/ IssueTokens(c) \/ Rotate(c) \/ CreateReset(c) \/ ResetPassword(c) \/ SavePassword(c)
       \/ FinishOAuth(c) \/ FinishLink(c) \/ FinishUnlink(c) \/ SaveProfile(c)
       \/ FinishSuspend(c) \/ FinishRestore(c)
       \/ \E u \in Users : \/ BeginLogin(c, u) \/ BeginForgot(c, u) \/ BeginPassword(c, u)
                            \/ BeginSuspend(c, u) \/ BeginRestore(c, u)
       \/ \E e \in Emails : BeginGoogleLogin(c, e)
       \/ \E e \in Emails, p \in Providers : BeginOAuthLogin(c, p, e) \/ BeginOAuthLink(c, p, e)
       \/ \E u \in Users, p \in Providers : BeginUnlink(c, u, p)
       \/ \E u \in Users, p \in Providers, e \in Emails : BeginLink(c, u, p, e)
       \/ \E u \in Users, p \in Phones : BeginProfile(c, u, p)
       \/ \E t \in Tokens : BeginRefresh(c, t)
       \/ \E k \in Resets : BeginReset(c, k)
  \/ \E t \in Tokens : RefuseReused(t) \/ RevokeSession(t)
  \/ \E u \in Users, f \in Tokens \cup {None} : RevokeAllSessions(u, f)

(* Presenting a revoked token ends its whole family: what is live in it          *)
(* afterwards comes from a rotation that had read its token before.              *)
ReusedFamilyDies ==
  \A t \in Tokens : tokens[t].live /\ tokens[t].family \in reused => tokens[t].stray

(* An account keeps a way to sign in, a password or a provider, unless a provider *)
(* was unlinked by a call whose view of the linked ones was stale.               *)
KeepsLoginMethod ==
  \A u \in Users : Found(u) /\ u \notin raced =>
    users[u].password \/ \E p \in Providers : users[u].links[p] # None
================================================================================
