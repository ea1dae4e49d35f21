---------------------------- MODULE AccountRecords -----------------------------
(* The rows and Redis keys that sign-up, sessions and account erasure share, and *)
(* the calls in flight. A call reads, keeps what it read, and commits in a later *)
(* step; none of these services locks a row, so calls interleave between the two.*)
EXTENDS Naturals, FiniteSets

CONSTANTS None,
          Users, Emails, Phones, Providers, Google,
          Signups,    \* staged sign-ups
          Tokens,     \* refresh token rows: a bound on the tokens issued
          Resets,     \* password reset token rows, a bound likewise
          Documents,  \* uploaded documents
          Requests,   \* verification requests on the claims of the users
          Calls,      \* API calls, each made at most once
          MaxTries,   \* signup_otp_max_verify_attempts
          MaxSends    \* signup_otp_max_sends_per_hour

ASSUME AccountAssumption ==
  /\ Google \in Providers
  /\ {MaxTries, MaxSends} \subseteq Nat
  /\ None \notin Users \cup Emails \cup Phones \cup Signups \cup Tokens
  /\ IsFiniteSet(Signups) /\ IsFiniteSet(Requests)

VARIABLES users, signups, otp, sends, mail, tokens, resets, docs, claims, requests,
          call,
          accepted,   \* ghost: which call each code verified
          reused,     \* ghost: families in which a revoked token was presented
          restarted,  \* ghost: sign-ups a start was saved to while they were completed
          raced       \* ghost: users whose provider was unlinked on a stale view

signupVars == <<signups, otp, sends, mail, accepted, restarted>>
sessionVars == <<tokens, resets, reused, raced>>
careerVars == <<docs, claims, requests>>
vars == <<users, signupVars, sessionVars, careerVars, call>>

Channels == {"email", "phone"}
Kinds == {"candidate", "organization"}

\* A user row; one without an e-mail is absent, or erased when deleted is set.
User == [email: Emails \cup {None}, phone: Phones \cup {None}, password: BOOLEAN,
         emailOK: BOOLEAN, phoneOK: BOOLEAN, active: BOOLEAN, deleted: BOOLEAN,
         links: [Providers -> Emails \cup {None}]]
NoUser == [email |-> None, phone |-> None, password |-> FALSE, emailOK |-> FALSE,
           phoneOK |-> FALSE, active |-> FALSE, deleted |-> FALSE,
           links |-> [p \in Providers |-> None]]

Signup == [email: Emails \cup {None}, phone: Phones \cup {None}, kind: Kinds,
           password: BOOLEAN, google: BOOLEAN, emailOK: BOOLEAN, phoneOK: BOOLEAN,
           emailTries: 0..MaxTries, phoneTries: 0..MaxTries,
           done: Users \cup {None}, expired: BOOLEAN]
NoSignup == [email |-> None, phone |-> None, kind |-> "candidate", password |-> FALSE,
             google |-> FALSE, emailOK |-> FALSE, phoneOK |-> FALSE,
             emailTries |-> 0, phoneTries |-> 0, done |-> None, expired |-> FALSE]

\* A code is known by the sign-up and the send it belongs to.
Code == [id: Signups, to: Emails, n: 1..MaxSends]
ASSUME CodeAssumption == None \notin Code

\* A deleted row keeps its family, so that its key is not used again. stray: issued by a refresh that the detected reuse of its family did not see.
Token == [user: Users \cup {None}, family: Tokens \cup {None}, live: BOOLEAN, stray: BOOLEAN]
NoToken == [user |-> None, family |-> None, live |-> FALSE, stray |-> FALSE]
Reset == [user: Users \cup {None}, used: BOOLEAN]
NoReset == [user |-> None, used |-> FALSE]
\* late: stored when the erasure of its owner was under way or over.
Document == [owner: Users \cup {None}, row: BOOLEAN, object: BOOLEAN, late: BOOLEAN]
NoDocument == [owner |-> None, row |-> FALSE, object |-> FALSE, late |-> FALSE]
Request == [owner: Users \cup {None}, status: {"none", "purgeable", "underway"}]
ClaimState == {"none", "kept", "retired"}

\* seen and view are the sign-up and the user as the call read them, gone the rows
\* its snapshot wants deleted.
StepNames == {"idle", "done", "start", "send", "check", "verified", "missed", "complete",
              "google", "googlephone", "oauth", "mint", "refresh", "forgot", "reset",
              "password", "link", "unlink", "profile", "suspend", "restore",
              "erase", "objects", "share", "photo", "unphoto", "look", "page", "note"}
Call == [pc: StepNames,
         id: Signups \cup {None}, who: Users \cup {None}, seen: Signup, new: Signup, view: User,
         chan: Channels, email: Emails \cup {None}, phone: Phones \cup {None},
         prov: Providers, n: 0..MaxSends, tok: Tokens \cup Resets \cup {None},
         early: BOOLEAN, gone: SUBSET (Signups \cup Resets \cup Requests),
         retain: BOOLEAN, listed: SUBSET Documents]
Blank == [pc |-> "idle", id |-> None, who |-> None, seen |-> NoSignup, new |-> NoSignup,
          view |-> NoUser, chan |-> "email", email |-> None, phone |-> None,
          prov |-> Google, n |-> 0, tok |-> None, early |-> FALSE, gone |-> {},
          retain |-> FALSE, listed |-> {}]
Done == [Blank EXCEPT !.pc = "done"]

Idle(c) == call[c].pc = "idle"
Finish(c) == call' = [call EXCEPT ![c] = Done]

(* An ORM update writes the columns whose value differs from the one it loaded.  *)
Written(current, seen, new) ==
  [f \in DOMAIN current |-> IF new[f] # seen[f] THEN new[f] ELSE current[f]]

(* Lookups skip erased rows; the unique indexes do not.                          *)
Found(u) == users[u].email # None /\ ~users[u].deleted
ByEmail(e) == {u \in Users : Found(u) /\ users[u].email = e}
ByPhone(p) == {u \in Users : p # None /\ ~users[u].deleted /\ users[u].phone = p}
Linked(p, e) == {u \in Users : users[u].links[p] = e}
UserClash(u, row) ==
  \E v \in Users \ {u} : \/ row.email # None /\ users[v].email = row.email
                         \/ row.phone # None /\ users[v].phone = row.phone
LinkClash(u, row) ==
  \E v \in Users \ {u}, p \in Providers : row.links[p] # None /\ users[v].links[p] = row.links[p]
FreeUsers == {u \in Users : users[u] = NoUser}

(* _issue_tokens: a new row at the head of a family of its own.                  *)
FreeTokens == {t \in Tokens : tokens[t] = NoToken}
Mint(u) ==
  /\ FreeTokens # {}
  /\ LET t == CHOOSE x \in FreeTokens : TRUE IN
     tokens' = [tokens EXCEPT ![t] = [user |-> u, family |-> t, live |-> TRUE, stray |-> FALSE]]

\* A crash, or an unexpected error that rolls the transaction back.
Crash(c) ==
  /\ call[c].pc \notin {"idle", "done"}
  /\ Finish(c)
  /\ UNCHANGED <<users, signupVars, sessionVars, careerVars>>

RecordsTyped ==
  /\ users \in [Users -> User]
  /\ signups \in [Signups -> Signup]
  /\ otp \in [Signups -> [email: Code \cup {None}, phone: Phones \cup {None}]]
  /\ sends \in [Signups -> [Channels -> 0..MaxSends]]
  /\ mail \subseteq Code
  /\ tokens \in [Tokens -> Token] /\ resets \in [Resets -> Reset]
  /\ docs \in [Documents -> Document] /\ requests \in [Requests -> Request]
  /\ claims \in [Users -> ClaimState]
  /\ call \in [Calls -> Call]
  /\ accepted \subseteq Code \X Calls
  /\ reused \subseteq Tokens /\ restarted \subseteq Signups /\ raced \subseteq Users
================================================================================
