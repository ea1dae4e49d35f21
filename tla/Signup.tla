-------------------------------- MODULE Signup ---------------------------------
(* Staged sign-up: a pending row whose e-mail (and phone, for candidates) must be *)
(* verified by a code before an account is made of it. Candidates and members of *)
(* organizations sign up with an e-mail, and candidates through Google. Phones   *)
(* are verified by MSG91, e-mails by codes kept in Redis.                        *)
EXTENDS AccountRecords

Cleared == [email |-> None, phone |-> None]
There(i) == signups[i].email # None
SignupClash(rows, i, row) ==
  \E j \in Signups \ {i} : \/ rows[j].email = row.email
                           \/ row.phone # None /\ rows[j].phone = row.phone
IsOK(row, ch) == IF ch = "email" THEN row.emailOK ELSE row.phoneOK
TriesOf(row, ch) == IF ch = "email" THEN row.emailTries ELSE row.phoneTries

(* A completed sign-up is never started over, a pending one of another kind      *)
(* neither, and only one row may answer for both the e-mail and the phone.       *)
Restartable(kept, kind) ==
  /\ \A i \in kept : signups[i].done = None /\ signups[i].kind = kind
  /\ Cardinality(kept) <= 1

\* start_signup, start_organization_signup: read, and clear the codes of the rows.
StartSignup(c, e, p, kind) ==
  /\ Idle(c)
  /\ kind = "organization" <=> p = None
  /\ ByEmail(e) \cup ByPhone(p) = {}
  /\ LET rows == {i \in Signups : \/ signups[i].email = e
                                  \/ p # None /\ signups[i].phone = p}
         gone == {i \in rows : signups[i].done = None /\ signups[i].expired}
         kept == rows \ gone
         new == [NoSignup EXCEPT !.email = e, !.phone = p, !.kind = kind, !.password = TRUE,
                                 !.google = \E i \in kept : signups[i].google]
     IN /\ Restartable(kept, kind)
        /\ otp' = [i \in Signups |-> IF i \in rows THEN Cleared ELSE otp[i]]
        /\ call' = [call EXCEPT ![c] =
             [Blank EXCEPT !.pc = "start", !.gone = gone, !.new = new,
                !.id = IF kept = {} THEN None ELSE CHOOSE i \in kept : TRUE,
                !.seen = IF kept = {} THEN NoSignup ELSE signups[CHOOSE i \in kept : TRUE]]]
  /\ UNCHANGED <<users, signups, sends, mail, accepted, restarted, sessionVars, careerVars>>

\* The row of a fresh key, or the row read before with its changed columns; a unique
\* index or a row deleted meanwhile fails the call.
FreeSignups ==
  {i \in Signups : /\ signups[i].email = None /\ otp[i] = Cleared
                  /\ \A d \in Calls : call[d].id # i /\ i \notin call[d].gone}
SavedWhole(c) ==
  [i \in Signups |-> IF i = call[c].id THEN call[c].new ELSE IF i \in call[c].gone THEN NoSignup ELSE signups[i]]
Saved(c) ==
  LET k == call[c]
      left == [i \in Signups |-> IF i \in k.gone THEN NoSignup ELSE signups[i]]
      i == IF k.id # None \/ FreeSignups = {} THEN k.id ELSE CHOOSE j \in FreeSignups : TRUE
      row == IF k.id = None THEN k.new
             ELSE [Written(left[i], k.seen, k.new) EXCEPT !.expired = @ /\ k.pc # "start"]
  IN IF \/ i = None
        \/ k.id # None /\ left[i].email = None
        \/ SignupClash(left, i, row)
     THEN signups ELSE [left EXCEPT ![i] = row]
Completing(d, i) == call[d].pc = "complete" /\ call[d].id = i
SaveSignup(c) ==
  /\ call[c].pc \in {"start", "google", "googlephone"}
  /\ signups' = Saved(c)
  /\ restarted' = restarted \cup {i \in Signups : i = call[c].id /\ \E d \in Calls : Completing(d, i)}
  /\ Finish(c)
  /\ UNCHANGED <<users, otp, sends, mail, accepted, sessionVars, careerVars>>

Expire(i) ==
  /\ There(i) /\ ~signups[i].expired
  /\ signups' = [signups EXCEPT ![i].expired = TRUE]
  /\ UNCHANGED <<users, otp, sends, mail, accepted, restarted, sessionVars, careerVars, call>>

\* _load_active_pending on an expired row, completed or not.
DropExpired(i) ==
  /\ There(i) /\ signups[i].expired
  /\ signups' = [signups EXCEPT ![i] = NoSignup]
  /\ otp' = [otp EXCEPT ![i] = Cleared]
  /\ UNCHANGED <<users, sends, mail, accepted, restarted, sessionVars, careerVars, call>>

Active(i) == There(i) /\ ~signups[i].expired

\* send_*_otp, resend_*_otp up to the hourly cap, counted in Redis.
BeginSend(c, i, ch) ==
  /\ Idle(c) /\ Active(i)
  /\ ~IsOK(signups[i], ch) /\ (ch = "phone" => signups[i].phone # None)
  /\ sends[i][ch] < MaxSends
  /\ sends' = [sends EXCEPT ![i][ch] = @ + 1]
  /\ call' = [call EXCEPT ![c] = [Blank EXCEPT !.pc = "send", !.id = i, !.chan = ch,
                                    !.seen = signups[i], !.n = sends[i][ch] + 1]]
  /\ UNCHANGED <<users, signups, otp, mail, accepted, restarted, sessionVars, careerVars>>

\* The code is stored and sent to the address read before; the commit that follows
\* writes only the counts and times the cooldown uses.
DispatchCode(c) ==
  /\ call[c].pc = "send"
  /\ LET k == call[c]
         code == [id |-> k.id, to |-> k.seen.email, n |-> k.n] IN
     IF k.chan = "email"
     THEN /\ otp' = [otp EXCEPT ![k.id].email = code]
          /\ mail' = mail \cup {code}
     ELSE /\ otp' = [otp EXCEPT ![k.id].phone = k.seen.phone]
          /\ UNCHANGED mail
  /\ Finish(c)
  /\ UNCHANGED <<users, signups, sends, accepted, restarted, sessionVars, careerVars>>

AnyTries(row, ch) == TRUE
TriesLeft(row, ch) == TriesOf(row, ch) < MaxTries
BeginVerify(c, i, ch) ==
  /\ Idle(c) /\ Active(i)
  /\ TriesLeft(signups[i], ch) /\ ~IsOK(signups[i], ch)
  /\ call' = [call EXCEPT ![c] = [Blank EXCEPT !.pc = "check", !.id = i, !.chan = ch,
                                    !.seen = signups[i]]]
  /\ UNCHANGED <<users, signupVars, sessionVars, careerVars>>

(* verify_and_consume: one script compares and deletes the stored code.          *)
Consumed(i) == [otp EXCEPT ![i].email = None]
CheckEmailCode(c, code) ==
  /\ call[c].pc = "check" /\ call[c].chan = "email"
  /\ LET i == call[c].id
         hit == code # None /\ otp[i].email = code IN
     /\ otp' = IF hit THEN Consumed(i) ELSE otp
     /\ accepted' = IF hit THEN accepted \cup {<<code, c>>} ELSE accepted
     /\ call' = [call EXCEPT ![c].pc = IF hit THEN "verified" ELSE "missed"]
  /\ UNCHANGED <<users, signups, sends, mail, restarted, sessionVars, careerVars>>

\* MSG91 answers; a state kept for another phone, or none, never reaches it.
CheckPhoneCode(c, right) ==
  /\ call[c].pc = "check" /\ call[c].chan = "phone"
  /\ LET i == call[c].id
         hit == right /\ otp[i].phone # None /\ otp[i].phone = call[c].seen.phone IN
     /\ otp' = IF hit THEN [otp EXCEPT ![i].phone = None] ELSE otp
     /\ call' = [call EXCEPT ![c].pc = IF hit THEN "verified" ELSE "missed"]
  /\ UNCHANGED <<users, signups, sends, mail, accepted, restarted, sessionVars, careerVars>>

Judged(k) ==
  IF k.pc = "verified"
  THEN IF k.chan = "email" THEN [k.seen EXCEPT !.emailOK = TRUE]
                           ELSE [k.seen EXCEPT !.phoneOK = TRUE]
  ELSE IF k.chan = "email" THEN [k.seen EXCEPT !.emailTries = @ + 1]
                           ELSE [k.seen EXCEPT !.phoneTries = @ + 1]
RecordVerify(c) ==
  /\ call[c].pc \in {"verified", "missed"}
  /\ LET i == call[c].id IN
     signups' = IF There(i)
                THEN [signups EXCEPT ![i] = Written(@, call[c].seen, Judged(call[c]))]
                ELSE signups
  /\ Finish(c)
  /\ UNCHANGED <<users, otp, sends, mail, accepted, restarted, sessionVars, careerVars>>

\* complete_signup, complete_organization_signup; completed before, it signs in again.
BeginComplete(c, i) ==
  /\ Idle(c) /\ There(i)
  /\ LET row == signups[i] IN
     \/ /\ row.done # None /\ Found(row.done)
        /\ call' = [call EXCEPT ![c] = [Blank EXCEPT !.pc = "mint", !.who = row.done]]
     \/ /\ row.done = None /\ ~row.expired
        /\ row.emailOK /\ (row.kind = "candidate" => row.phoneOK)
        /\ call' = [call EXCEPT ![c] = [Blank EXCEPT !.pc = "complete", !.id = i, !.seen = row]]
  /\ UNCHANGED <<users, signupVars, sessionVars, careerVars>>

NewAccount(row) ==
  [email |-> row.email, phone |-> row.phone, password |-> row.password,
   emailOK |-> TRUE, phoneOK |-> row.phoneOK /\ row.kind = "candidate", active |-> TRUE, deleted |-> FALSE,
   links |-> [p \in Providers |-> IF p = Google /\ row.google THEN row.email ELSE None]]
\* The account made meanwhile of the same e-mail and phone.
Adoptable(row) ==
  {u \in ByEmail(row.email) : row.phone = None \/ users[u].phone = row.phone}

CompleteSignup(c) ==
  /\ call[c].pc = "complete"
  /\ LET i == call[c].id
         row == call[c].seen
         account == NewAccount(row) IN
     \/ /\ There(i) /\ FreeUsers # {}
        /\ LET u == CHOOSE x \in FreeUsers : TRUE IN
           /\ ~UserClash(u, account) /\ ~LinkClash(u, account)
           /\ users' = [users EXCEPT ![u] = account]
           /\ signups' = [signups EXCEPT ![i].done = u,
                                         ![i].google = IF row.google THEN FALSE ELSE @]
           /\ Mint(u)
     \/ /\ There(i) /\ ~row.google
        /\ \E u \in Adoptable(row) :
             /\ signups' = [signups EXCEPT ![i].done = IF @ = None THEN u ELSE @]
             /\ Mint(u)
        /\ UNCHANGED users
  /\ otp' = [otp EXCEPT ![call[c].id] = Cleared]
  /\ Finish(c)
  /\ UNCHANGED <<sends, mail, accepted, restarted, resets, reused, raced, careerVars>>

\* complete_google_callback for an address that has no account and no usable row.
BeginGoogleSignup(c, e) ==
  /\ Idle(c)
  /\ Linked(Google, e) = {} /\ ByEmail(e) = {}
  /\ \A i \in Signups : signups[i].email = e => signups[i].expired
  /\ call' = [call EXCEPT ![c] =
       [Blank EXCEPT !.pc = "google", !.gone = {i \in Signups : signups[i].email = e},
          !.new = [NoSignup EXCEPT !.email = e, !.google = TRUE, !.emailOK = TRUE]]]
  /\ UNCHANGED <<users, signupVars, sessionVars, careerVars>>

\* start_google_phone_verification.
BeginGooglePhone(c, i, p) ==
  /\ Idle(c) /\ Active(i)
  /\ signups[i].google /\ signups[i].emailOK /\ signups[i].kind = "candidate"
  /\ ByPhone(p) = {} /\ \A j \in Signups \ {i} : signups[j].phone # p
  /\ call' = [call EXCEPT ![c] =
       [Blank EXCEPT !.pc = "googlephone", !.id = i, !.seen = signups[i],
          !.new = [signups[i] EXCEPT !.phone = p, !.phoneOK = FALSE]]]
  /\ UNCHANGED <<users, signupVars, sessionVars, careerVars>>

SignupNext ==
  \/ \E c \in Calls :
       \/ \E e \in Emails, p \in Phones \cup {None}, k \in Kinds : StartSignup(c, e, p, k)
       \/ SaveSignup(c) \/ DispatchCode(c) \/ RecordVerify(c) \/ CompleteSignup(c)
       \/ \E i \in Signups, ch \in Channels : BeginSend(c, i, ch) \/ BeginVerify(c, i, ch)
       \/ \E code \in mail \cup {None} : CheckEmailCode(c, code)
       \/ \E right \in BOOLEAN : CheckPhoneCode(c, right)
       \/ \E i \in Signups : BeginComplete(c, i)
       \/ \E e \in Emails : BeginGoogleSignup(c, e)
       \/ \E i \in Signups, p \in Phones : BeginGooglePhone(c, i, p)
  \/ \E i \in Signups : Expire(i) \/ DropExpired(i)

(* A code verifies one call: two calls that present it at once do not both pass. *)
CodeUsedOnce == \A x, y \in accepted : x[1] = y[1] => x[2] = y[2]

(* A completed sign-up keeps the account it made, whatever a start, a second     *)
(* completion or a verification that read it before goes on to write; only the   *)
(* deletion of the row ends it.                                                  *)
CompletedStays ==
  [][\A i \in Signups \ restarted : signups[i].done # None =>
       signups'[i].done = signups[i].done \/ signups'[i].email = None]_vars
================================================================================
