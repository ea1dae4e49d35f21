----------------------------- MODULE AccountsProofs -----------------------------
(* What is proved of sign-up, sessions and erasure, for every set of rows, tokens *)
(* and calls. Both parts of Accounts take the same steps over these rows (Moves), *)
(* and the invariant says of each call in flight which of what it read still holds.*)
EXTENDS Accounts, FiniteSetTheorems, TLAPS

--------------------------------------------------------------------------------
(* The steps over the rows, whichever part takes them.                           *)

\* Calls that read a user's row and nothing else, and those that end with nothing written.
Asking == {"mint", "password", "suspend", "restore", "share", "photo", "unphoto", "look", "page", "note"}
Asked(c) == \E u \in Users, pc \in Asking : users[u] # NoUser /\ ~users[u].deleted /\ Begin(c, pc, u)
Closed(c) == Finish(c) /\ UNCHANGED <<users, signupVars, sessionVars, careerVars>>
\* Tokens revoked by hand.
Ending ==
  /\ \E S \in SUBSET Tokens : tokens' = Revoked(S)
  /\ call' = call \/ \E c \in Calls : Idle(c) /\ Finish(c)
  /\ UNCHANGED <<users, signupVars, resets, reused, raced, careerVars>>

Begins(c) ==
  \/ \E e \in Emails, p \in Phones \cup {None}, k \in Kinds : StartSignup(c, e, p, k)
  \/ \E i \in Signups, ch \in Channels : BeginSend(c, i, ch) \/ BeginVerify(c, i, ch)
  \/ \E i \in Signups : BeginComplete(c, i)
  \/ \E e \in Emails : BeginGoogleSignup(c, e)
  \/ \E i \in Signups, p \in Phones : BeginGooglePhone(c, i, p)
  \/ Asked(c)
  \/ \E u \in Users : BeginForgot(c, u) \/ BeginErase(c, u)
  \/ \E t \in Tokens : BeginRefresh(c, t)
  \/ \E k \in Resets : BeginReset(c, k)
  \/ \E e \in Emails, p \in Providers : BeginOAuthLink(c, p, e)
  \/ \E u \in Users, p \in Providers : BeginUnlink(c, u, p)
  \/ \E u \in Users, p \in Providers, e \in Emails : BeginLink(c, u, p, e)
  \/ \E u \in Users, p \in Phones : BeginProfile(c, u, p)
SignupEnds(c) ==
  \/ SaveSignup(c) \/ DispatchCode(c) \/ RecordVerify(c) \/ CompleteSignup(c)
  \/ \E code \in mail \cup {None} : CheckEmailCode(c, code)
  \/ \E right \in BOOLEAN : CheckPhoneCode(c, right)
SessionEnds(c) ==
  \/ IssueTokens(c) \/ Rotate(c) \/ CreateReset(c) \/ ResetPassword(c) \/ SavePassword(c)
  \/ FinishOAuth(c) \/ FinishLink(c) \/ FinishUnlink(c) \/ SaveProfile(c)
  \/ FinishSuspend(c) \/ FinishRestore(c)
Clock ==
  \/ \E i \in Signups : Expire(i) \/ DropExpired(i)
  \/ \E t \in Tokens : RefuseReused(t)
  \/ Ending
  \/ \E u \in Users, d \in Documents : CreateUpload(u, d)
  \/ \E d \in Documents : PutObject(d)
  \/ \E u \in Users, q \in Requests : OpenRequest(u, q)
  \/ \E q \in Requests : DispatchRequest(q)
Moves ==
  \/ \E c \in Calls : Begins(c) \/ SignupEnds(c) \/ SessionEnds(c) \/ EraseObjects(c) \/ CommitErase(c) \/ Closed(c)
  \/ Clock
  \/ UNCHANGED vars

LEMMA BeginAsks ==
  ASSUME NEW c \in Calls, NEW u \in Users, NEW pc \in Asking, users[u] # NoUser, ~users[u].deleted, Begin(c, pc, u)
  PROVE Asked(c)
  BY DEF Asked

LEMMA FoundIs == \A u \in Users : Found(u) => users[u] # NoUser /\ ~users[u].deleted
  BY DEF Found, NoUser

LEMMA SessionsMove == ASSUME SessionsNext PROVE Moves
<1>1. ASSUME NEW c \in Calls, SessionEnds(c) PROVE Moves
  BY <1>1 DEF Moves
<1>2. ASSUME NEW c \in Calls, NEW u \in Users,
             BeginLogin(c, u) \/ BeginPassword(c, u) \/ BeginSuspend(c, u) \/ BeginRestore(c, u)
      PROVE Moves
  <2>1. Found(u)
    BY <1>2 DEF BeginLogin, BeginPassword, BeginSuspend, BeginRestore, Allowed
  <2>2. \E pc \in Asking : Begin(c, pc, u)
    BY <1>2 DEF BeginLogin, BeginPassword, BeginSuspend, BeginRestore, Asking
  <2>. QED
    BY <2>1, <2>2, FoundIs, BeginAsks DEF Moves, Begins
<1>3. ASSUME NEW c \in Calls, NEW e \in Emails, NEW p \in Providers, BeginGoogleLogin(c, e) \/ BeginOAuthLogin(c, p, e)
      PROVE Moves
  <2>1. PICK u \in Users : Allowed(u) /\ Begin(c, "mint", u)
    BY <1>3 DEF BeginGoogleLogin, BeginOAuthLogin, Linked
  <2>. QED
    BY <2>1, FoundIs, BeginAsks DEF Moves, Begins, Allowed, Asking
<1>3a. ASSUME NEW c \in Calls, NEW e \in Emails, BeginGoogleLogin(c, e) PROVE Moves
  BY <1>3, <1>3a, AccountAssumption
<1>4. ASSUME NEW c \in Calls, Begins(c) PROVE Moves
  BY <1>4 DEF Moves
<1>5. ASSUME NEW t \in Tokens, RevokeSession(t) PROVE Moves
  BY <1>5 DEF Moves, Clock, Ending, RevokeSession
<1>6. ASSUME NEW u \in Users, NEW f \in Tokens \cup {None}, RevokeAllSessions(u, f) PROVE Moves
  <2>1. {t \in Tokens : tokens[t].user = u /\ tokens[t].family # f} \in SUBSET Tokens
    OBVIOUS
  <2>. QED
    BY <1>6, <2>1 DEF Moves, Clock, Ending, RevokeAllSessions
<1>7. ASSUME NEW t \in Tokens, RefuseReused(t) PROVE Moves
  BY <1>7 DEF Moves, Clock
<1>8. CASE \E c \in Calls : SessionEnds(c)
  BY <1>8, <1>1
<1>9. ASSUME NEW c \in Calls,
        \/ \E u \in Users : BeginForgot(c, u)
        \/ \E e \in Emails, p \in Providers : BeginOAuthLink(c, p, e)
        \/ \E u \in Users, p \in Providers : BeginUnlink(c, u, p)
        \/ \E u \in Users, p \in Providers, e \in Emails : BeginLink(c, u, p, e)
        \/ \E u \in Users, p \in Phones : BeginProfile(c, u, p)
        \/ \E t \in Tokens : BeginRefresh(c, t)
        \/ \E k \in Resets : BeginReset(c, k)
      PROVE Moves
  BY <1>9, <1>4 DEF Begins
<1>. QED
  BY <1>1, <1>2, <1>3, <1>3a, <1>5, <1>6, <1>7, <1>9 DEF SessionsNext, SessionEnds

LEMMA SignupErasureMove == ASSUME SignupNext \/ ErasureNext PROVE Moves
<1>1. ASSUME NEW c \in Calls, SignupEnds(c) \/ Begins(c) PROVE Moves
  BY <1>1 DEF Moves
<1>2. CASE SignupNext
  BY <1>2, <1>1 DEF SignupNext, SignupEnds, Begins, Moves, Clock
<1>3. CASE ErasureNext
  BY <1>3, <1>1 DEF ErasureNext, Begins, Moves, Clock
<1>. QED
  BY <1>2, <1>3

LEMMA DirectoryMoves == ASSUME DirectoryNext PROVE Moves
<1>1. ASSUME NEW c \in Calls, Closed(c) PROVE Moves
  BY <1>1 DEF Moves
<1>2. ASSUME NEW c \in Calls, SessionEnds(c) \/ EraseObjects(c) \/ CommitErase(c) \/ Begins(c) PROVE Moves
  BY <1>2 DEF Moves
<1>3. ASSUME NEW c \in Calls, NEW u \in Users, NEW pc \in Asking, NEW p, Found(u) \/ (Candidate(u) /\ ~users[u].deleted), Ask(c, pc, u, p) \/ Begin(c, pc, u)
      PROVE Moves
  BY <1>3, FoundIs, BeginAsks, <1>2 DEF Ask, Candidate, Begins
<1>4. ASSUME NEW c \in Calls, NEW t \in Tokens, RevokeUserSession(c, t) PROVE Moves
  BY <1>4 DEF RevokeUserSession, Moves, Clock, Ending
<1>5. ASSUME NEW c \in Calls, NEW u \in Users, RevokeUserSessions(c, u) PROVE Moves
  <2>1. {t \in Tokens : tokens[t].user = u} \in SUBSET Tokens
    OBVIOUS
  <2>. QED
    BY <1>5, <2>1 DEF RevokeUserSessions, Moves, Clock, Ending
<1>6. ASSUME NEW c \in Calls, CommitShare(c) \/ CommitAvatar(c) \/ FinishAvatar(c) \/ DeleteAvatar(c) \/ CommitLanguage(c)
                              \/ CommitNote(c) \/ ResetUnsent(c)
      PROVE Moves
  <2>1. Closed(c)
    BY <1>6 DEF CommitShare, CommitAvatar, FinishAvatar, DeleteAvatar, CommitLanguage, CommitNote, ResetUnsent, Answered, Closed
  <2>. QED
    BY <2>1, <1>1
<1>7. ASSUME NEW c \in Calls, CommitSuspension(c) \/ CommitRestoration(c) \/ CommitReset(c) \/ EraseStored(c) \/ FinishErase(c)
                              \/ IssueTokens(c) \/ ResetPassword(c)
      PROVE Moves
  BY <1>7, <1>2 DEF CommitSuspension, CommitRestoration, CommitReset, EraseStored, FinishErase, SessionEnds
<1>8. ASSUME NEW c \in Calls, NEW u \in Users,
        CreateShare(c, u) \/ CompleteAvatar(c, u) \/ RemoveAvatar(c, u) \/ AddNote(c, u) \/ SuspendUser(c, u)
        \/ RestoreUser(c, u) \/ ListLanguage(c, u) \/ \E f \in Formats : AvatarIntent(c, u, f)
      PROVE Moves
  <2>1. Found(u) \/ (Candidate(u) /\ ~users[u].deleted)
    BY Zenon, <1>8 DEF CreateShare, CompleteAvatar, RemoveAvatar, AddNote, SuspendUser, RestoreUser, ListLanguage, AvatarIntent,
         Signed, Allowed, Status
  <2>2. \E pc \in Asking : \E p : Ask(c, pc, u, p) \/ Begin(c, pc, u)
    BY Zenon, <1>8 DEF CreateShare, CompleteAvatar, RemoveAvatar, AddNote, SuspendUser, RestoreUser, ListLanguage, AvatarIntent, Asking
  <2>. QED
    BY <2>1, <2>2, <1>3
<1>9. ASSUME NEW c \in Calls, NEW u \in Users, SendReset(c, u) \/ StartLogin(c, u) \/ StartForgot(c, u) \/ StartErase(c, u)
      PROVE Moves
  <2>1. CASE StartLogin(c, u)
    BY <2>1, <1>3 DEF StartLogin, BeginLogin, Allowed, Asking
  <2>2. CASE SendReset(c, u) \/ StartForgot(c, u) \/ StartErase(c, u)
    BY <2>2, <1>2 DEF SendReset, StartForgot, StartErase, Begins
  <2>. QED
    BY <1>9, <2>1, <2>2
<1>10. ASSUME NEW c \in Calls, NEW k \in Resets, StartReset(c, k) PROVE Moves
  BY <1>10, <1>2 DEF StartReset, Begins
<1>11. ASSUME ShareLapses \/ \E u \in Users : PutPhoto(u) PROVE Moves
  BY <1>11 DEF ShareLapses, PutPhoto, Moves
<1>. QED
  BY <1>4, <1>5, <1>6, <1>7, <1>8, <1>9, <1>10, <1>11 DEF DirectoryNext

LEMMA NextMoves == ASSUME [Next]_accountVars PROVE Moves
<1>1. ASSUME NEW c \in Calls, Crash(c) PROVE Moves
  BY <1>1 DEF Crash, Closed, Moves
<1>2. CASE UNCHANGED accountVars
  BY <1>2 DEF accountVars, Moves
<1>. QED
  BY <1>1, <1>2, SessionsMove, SignupErasureMove, DirectoryMoves DEF Next

--------------------------------------------------------------------------------
(* Types, and what a call's step says of what it carries.                        *)
Told == Asking \cup {"refresh", "forgot", "reset", "link", "unlink", "profile", "erase", "objects"}
CallIs(k) ==
  /\ k.pc \in {"send", "check", "verified", "missed", "complete"} => k.id \in Signups /\ k.seen.email \in Emails
  /\ k.pc = "send" => k.n >= 1
  /\ k.pc \in {"check", "verified", "missed"} => TriesLeft(k.seen, k.chan)
  /\ k.pc \in Told => k.who \in Users
  /\ k.pc = "refresh" => k.tok \in Tokens
  /\ k.pc \in {"oauth", "link"} => k.email \in Emails
TokenIs(t) == tokens[t].user # None \/ tokens[t].live => tokens[t].user # None /\ tokens[t].family # None
SignupRowsTyped ==
  /\ signups \in [Signups -> Signup]
  /\ otp \in [Signups -> [email: Code \cup {None}, phone: Phones \cup {None}]]
  /\ sends \in [Signups -> [Channels -> 0..MaxSends]]
  /\ mail \subseteq Code /\ accepted \subseteq Code \X Calls /\ restarted \subseteq Signups
SessionRowsTyped ==
  /\ tokens \in [Tokens -> Token] /\ (\A t \in Tokens : TokenIs(t))
  /\ resets \in [Resets -> Reset]
  /\ reused \subseteq Tokens /\ raced \subseteq Users
CareerRowsTyped ==
  docs \in [Documents -> Document] /\ requests \in [Requests -> Request] /\ claims \in [Users -> ClaimState]
RowsTyped == users \in [Users -> User] /\ SignupRowsTyped /\ SessionRowsTyped /\ CareerRowsTyped
CallsTyped == call \in [Calls -> Call] /\ \A c \in Calls : CallIs(call[c])
Typed == RowsTyped /\ CallsTyped

LEMMA TypedRecords == Typed => RecordsTyped
  BY DEF Typed, RowsTyped, SignupRowsTyped, SessionRowsTyped, CareerRowsTyped, CallsTyped, RecordsTyped

LEMMA BlankRows == NoSignup \in Signup /\ NoUser \in User /\ NoToken \in Token /\ NoReset \in Reset
  BY AccountAssumption DEF NoSignup, Signup, NoUser, User, Kinds, NoToken, Token, NoReset, Reset
LEMMA StepsNamed ==
  /\ "start" \in StepNames /\ "send" \in StepNames /\ "check" \in StepNames /\ "complete" \in StepNames
  /\ "google" \in StepNames /\ "googlephone" \in StepNames /\ "oauth" \in StepNames /\ "mint" \in StepNames
  /\ "refresh" \in StepNames /\ "forgot" \in StepNames /\ "reset" \in StepNames /\ "link" \in StepNames
  /\ "unlink" \in StepNames /\ "profile" \in StepNames /\ "erase" \in StepNames /\ "objects" \in StepNames
  /\ "verified" \in StepNames /\ "missed" \in StepNames /\ "done" \in StepNames /\ "idle" \in StepNames
  BY DEF StepNames
LEMMA BlankCall == Blank \in Call /\ Done \in Call
<1>1. 0 \in 0..MaxSends
  BY AccountAssumption
<1>2. Blank \in Call
  BY <1>1, BlankRows, AccountAssumption DEF Blank, Call, StepNames, Channels
<1>. QED
  BY <1>2 DEF Done, Call, StepNames
LEMMA DoneIs == Done.pc = "done" /\ CallIs(Done)
  BY BlankCall DEF Done, Call, CallIs, Told, Asking

LEMMA CheckedCall ==
  ASSUME NEW k \in Call, CallIs(k), k.pc = "check", NEW pc \in {"verified", "missed"}
  PROVE [k EXCEPT !.pc = pc] \in Call /\ CallIs([k EXCEPT !.pc = pc])
<1>. DEFINE l == [k EXCEPT !.pc = pc]
<1>1. l \in Call
  BY StepsNamed DEF Call
<1>2. l.pc = pc /\ l.id = k.id /\ l.seen = k.seen /\ l.chan = k.chan
  BY DEF Call
<1>. HIDE DEF l
<1>3. CallIs(l)
  BY <1>2 DEF CallIs, Told, Asking
<1>. QED
  BY <1>1, <1>3 DEF l

\* One call steps on.
LEMMA Called ==
  ASSUME CallsTyped, NEW c \in Calls, NEW k \in Call, CallIs(k), call' = [call EXCEPT ![c] = k]
  PROVE CallsTyped'
  BY DEF CallsTyped, CallIs, TriesLeft, TriesOf
LEMMA Finished == ASSUME CallsTyped, NEW c \in Calls, Finish(c) PROVE CallsTyped'
  BY Called, BlankCall, DoneIs DEF Finish

LEMMA WrittenUser == ASSUME NEW a \in User, NEW b \in User, NEW d \in User PROVE Written(a, b, d) \in User
  BY DEF Written, User
LEMMA WrittenSignup == ASSUME NEW a \in Signup, NEW b \in Signup, NEW d \in Signup PROVE Written(a, b, d) \in Signup
  BY DEF Written, Signup
LEMMA TokensRevoked == ASSUME SessionRowsTyped, NEW S \in SUBSET Tokens PROVE
    /\ Revoked(S) \in [Tokens -> Token]
    /\ \A t \in Tokens : /\ Revoked(S)[t].user = tokens[t].user /\ Revoked(S)[t].family = tokens[t].family
                         /\ Revoked(S)[t].stray = tokens[t].stray
                         /\ Revoked(S)[t].live = (tokens[t].live /\ t \notin S)
  BY DEF SessionRowsTyped, Revoked, Token
LEMMA Minted == ASSUME SessionRowsTyped, NEW u \in Users, Mint(u)
  PROVE \E t \in Tokens : /\ tokens[t] = NoToken
                          /\ tokens' = [tokens EXCEPT ![t] = [user |-> u, family |-> t, live |-> TRUE, stray |-> FALSE]]
  BY DEF Mint, FreeTokens

\* What a call starts with.
LEMMA BeginTyped == ASSUME Typed, NEW c \in Calls, Begins(c) PROVE Typed'
<1>. USE BlankCall, BlankRows DEF Typed, CallsTyped
<1>0. users \in [Users -> User] /\ signups \in [Signups -> Signup] /\ tokens \in [Tokens -> Token] /\ resets \in [Resets -> Reset]
  BY DEF RowsTyped, SignupRowsTyped, SessionRowsTyped
<1>a. ASSUME NEW k \in Call, CallIs(k), call' = [call EXCEPT ![c] = k], UNCHANGED <<users, signupVars, sessionVars, careerVars>>
      PROVE Typed'
  <2>1. CallsTyped'
    BY <1>a, Called
  <2>2. RowsTyped'
    BY <1>a DEF RowsTyped, SignupRowsTyped, SessionRowsTyped, CareerRowsTyped, TokenIs, signupVars, sessionVars, careerVars
  <2>. QED
    BY <2>1, <2>2
<1>1. ASSUME NEW e \in Emails, NEW p \in Phones \cup {None}, NEW kind \in Kinds, StartSignup(c, e, p, kind) PROVE Typed'
  <2>. DEFINE rows == {i \in Signups : signups[i].email = e \/ (p # None /\ signups[i].phone = p)}
              gone == {i \in rows : signups[i].done = None /\ signups[i].expired}
              kept == rows \ gone
              new == [NoSignup EXCEPT !.email = e, !.phone = p, !.kind = kind, !.password = TRUE,
                                      !.google = \E i \in kept : signups[i].google]
              id == IF kept = {} THEN None ELSE CHOOSE i \in kept : TRUE
              seen == IF kept = {} THEN NoSignup ELSE signups[CHOOSE i \in kept : TRUE]
              k == [Blank EXCEPT !.pc = "start", !.gone = gone, !.new = new, !.id = id, !.seen = seen]
  <2>1. new \in Signup
    BY DEF Signup
  <2>2. kept # {} => (CHOOSE i \in kept : TRUE) \in Signups
    OBVIOUS
  <2>3. gone \subseteq Signups
    OBVIOUS
  <2>3a. id \in Signups \cup {None}
    BY <2>2
  <2>3b. seen \in Signup
    BY <2>2, <1>0
  <2>4. k \in Call /\ k.pc = "start"
    <3>. HIDE DEF new, gone, id, seen
    <3>. QED
      BY <2>1, <2>3, <2>3a, <2>3b, StepsNamed DEF Call
  <2>5. CallIs(k)
    BY <2>4 DEF CallIs, Told, Asking
  <2>6. call' = [call EXCEPT ![c] = k] /\ otp' = [i \in Signups |-> IF i \in rows THEN Cleared ELSE otp[i]]
    BY <1>1 DEF StartSignup
  <2>7. CallsTyped'
    <3>. HIDE DEF k
    <3>. QED
      BY <2>4, <2>5, <2>6, Called
  <2>8. RowsTyped'
    BY <1>1, <2>6 DEF StartSignup, RowsTyped, SignupRowsTyped, SessionRowsTyped, CareerRowsTyped, TokenIs, sessionVars, careerVars, Cleared
  <2>. QED
    BY <2>7, <2>8
<1>2. ASSUME NEW i \in Signups, NEW ch \in Channels, BeginSend(c, i, ch) PROVE Typed'
  <2>. DEFINE n == sends[i][ch] + 1
              k == [Blank EXCEPT !.pc = "send", !.id = i, !.chan = ch, !.seen = signups[i], !.n = n]
  <2>0. sends[i][ch] \in 0..MaxSends /\ sends[i][ch] < MaxSends /\ MaxSends \in Nat
    BY <1>2, AccountAssumption DEF BeginSend, RowsTyped, SignupRowsTyped
  <2>0a. n \in 1..MaxSends /\ n \in 0..MaxSends
    BY <2>0
  <2>1. k \in Call /\ k.pc = "send" /\ k.id = i /\ k.seen = signups[i] /\ k.n = n
    <3>. HIDE DEF n
    <3>. QED
      BY <1>0, <2>0a, StepsNamed DEF Call
  <2>2. signups[i].email \in Emails
    BY <1>2, <1>0 DEF BeginSend, Active, There, Signup
  <2>3. CallIs(k)
    BY <2>0a, <2>1, <2>2 DEF CallIs, Told, Asking
  <2>4. call' = [call EXCEPT ![c] = k] /\ sends' = [sends EXCEPT ![i][ch] = @ + 1]
    BY <1>2 DEF BeginSend
  <2>5. CallsTyped'
    <3>. HIDE DEF k
    <3>. QED
      BY <2>1, <2>3, <2>4, Called
  <2>6. sends' \in [Signups -> [Channels -> 0..MaxSends]]
    BY <2>0, <2>4 DEF RowsTyped, SignupRowsTyped
  <2>7. RowsTyped'
    BY <1>2, <2>6 DEF BeginSend, RowsTyped, SignupRowsTyped, SessionRowsTyped, CareerRowsTyped, TokenIs, sessionVars, careerVars
  <2>. QED
    BY <2>5, <2>7
<1>3. ASSUME NEW i \in Signups, NEW ch \in Channels, BeginVerify(c, i, ch) PROVE Typed'
  <2>. DEFINE k == [Blank EXCEPT !.pc = "check", !.id = i, !.chan = ch, !.seen = signups[i]]
  <2>1. k \in Call /\ k.pc = "check" /\ k.id = i /\ k.seen = signups[i] /\ k.chan = ch
    BY <1>0, StepsNamed DEF Call
  <2>2. signups[i].email \in Emails /\ TriesLeft(signups[i], ch)
    BY <1>3, <1>0 DEF BeginVerify, Active, There, Signup
  <2>3. CallIs(k)
    BY <2>1, <2>2 DEF CallIs, Told, Asking
  <2>4. call' = [call EXCEPT ![c] = k] /\ UNCHANGED <<users, signupVars, sessionVars, careerVars>>
    BY <1>3 DEF BeginVerify
  <2>. HIDE DEF k
  <2>. QED
    BY <2>1, <2>3, <2>4, <1>a
<1>4. ASSUME NEW i \in Signups, BeginComplete(c, i) PROVE Typed'
  <2>. DEFINE k == [Blank EXCEPT !.pc = "mint", !.who = signups[i].done]
              l == [Blank EXCEPT !.pc = "complete", !.id = i, !.seen = signups[i]]
  <2>1. CASE signups[i].done # None /\ call' = [call EXCEPT ![c] = k]
    <3>0. signups[i].done \in Users
      BY <2>1, <1>0 DEF Signup
    <3>1. k \in Call /\ k.pc = "mint" /\ k.who \in Users
      BY <3>0, StepsNamed DEF Call
    <3>2. CallIs(k)
      BY <3>1 DEF CallIs, Told, Asking
    <3>. HIDE DEF k
    <3>. QED
      BY <3>1, <3>2, <2>1, <1>a, <1>4 DEF BeginComplete
  <2>2. CASE call' = [call EXCEPT ![c] = l]
    <3>1. l \in Call /\ l.pc = "complete" /\ l.id = i /\ l.seen = signups[i]
      BY <1>0, StepsNamed DEF Call
    <3>2. CallIs(l)
      BY <3>1, <1>4, <1>0 DEF CallIs, Told, Asking, BeginComplete, There, Signup
    <3>. HIDE DEF l
    <3>. QED
      BY <3>1, <3>2, <2>2, <1>a, <1>4 DEF BeginComplete
  <2>. QED
    BY <1>4, <2>1, <2>2 DEF BeginComplete
<1>5. ASSUME NEW e \in Emails, BeginGoogleSignup(c, e) PROVE Typed'
  <2>. DEFINE new == [NoSignup EXCEPT !.email = e, !.google = TRUE, !.emailOK = TRUE]
              gone == {i \in Signups : signups[i].email = e}
              k == [Blank EXCEPT !.pc = "google", !.gone = gone, !.new = new]
  <2>1. new \in Signup
    BY DEF Signup
  <2>2. k \in Call /\ k.pc = "google"
    <3>1. gone \subseteq Signups
      OBVIOUS
    <3>. HIDE DEF new, gone
    <3>. QED
      BY <2>1, <3>1, StepsNamed DEF Call
  <2>3. CallIs(k)
    BY <2>2 DEF CallIs, Told, Asking
  <2>4. call' = [call EXCEPT ![c] = k]
    BY <1>5 DEF BeginGoogleSignup
  <2>. HIDE DEF k
  <2>. QED
    BY Zenon, <2>2, <2>3, <2>4, <1>a, <1>5 DEF BeginGoogleSignup
<1>6. ASSUME NEW i \in Signups, NEW p \in Phones, BeginGooglePhone(c, i, p) PROVE Typed'
  <2>. DEFINE new == [signups[i] EXCEPT !.phone = p, !.phoneOK = FALSE]
              k == [Blank EXCEPT !.pc = "googlephone", !.id = i, !.seen = signups[i], !.new = new]
  <2>1. new \in Signup
    BY <1>0 DEF Signup
  <2>2. k \in Call /\ k.pc = "googlephone"
    BY <2>1, <1>0, StepsNamed DEF Call
  <2>3. CallIs(k)
    BY <2>2 DEF CallIs, Told, Asking
  <2>4. call' = [call EXCEPT ![c] = k]
    BY <1>6 DEF BeginGooglePhone
  <2>. HIDE DEF k
  <2>. QED
    BY <2>2, <2>3, <2>4, <1>a, <1>6 DEF BeginGooglePhone
<1>7. ASSUME Asked(c) PROVE Typed'
  <2>1. PICK u \in Users, pc \in Asking : Begin(c, pc, u)
    BY <1>7 DEF Asked
  <2>. DEFINE k == [Blank EXCEPT !.pc = pc, !.who = u, !.view = users[u]]
  <2>1a. pc \in StepNames
    BY DEF Asking, StepNames
  <2>2. k \in Call /\ k.pc = pc /\ k.who = u
    BY <1>0, <2>1a DEF Call
  <2>3. CallIs(k)
    BY <2>2 DEF CallIs, Told, Asking
  <2>4. call' = [call EXCEPT ![c] = k] /\ UNCHANGED <<users, signupVars, sessionVars, careerVars>>
    BY <2>1 DEF Begin
  <2>. HIDE DEF k
  <2>. QED
    BY <2>2, <2>3, <2>4, <1>a
<1>8. ASSUME NEW u \in Users, BeginForgot(c, u) PROVE Typed'
  <2>. DEFINE gone == {x \in Resets : resets[x].user = u /\ ~resets[x].used}
              k == [Blank EXCEPT !.pc = "forgot", !.who = u, !.gone = gone]
  <2>1. gone \subseteq Resets
    OBVIOUS
  <2>2. k \in Call /\ k.pc = "forgot" /\ k.who = u
    <3>. HIDE DEF gone
    <3>. QED
      BY <2>1, StepsNamed DEF Call
  <2>3. CallIs(k)
    BY <2>2 DEF CallIs, Told, Asking
  <2>4. call' = [call EXCEPT ![c] = k]
    BY <1>8 DEF BeginForgot
  <2>. HIDE DEF k
  <2>. QED
    BY Zenon, <2>2, <2>3, <2>4, <1>a, <1>8 DEF BeginForgot
<1>9. ASSUME NEW u \in Users, BeginErase(c, u) PROVE Typed'
  <2>. DEFINE gone == Purgeable(u)
              retain == RequestsOf(u) # Purgeable(u)
              listing == {d \in Documents : docs[d].owner = u /\ docs[d].row}
              k == [Blank EXCEPT !.pc = "erase", !.who = u, !.view = users[u], !.gone = gone, !.retain = retain, !.listed = listing]
  <2>1. gone \subseteq Requests /\ retain \in BOOLEAN /\ listing \subseteq Documents
    BY DEF Purgeable, RequestsOf
  <2>2. k \in Call /\ k.pc = "erase" /\ k.who = u
    <3>. HIDE DEF gone, retain, listing
    <3>. QED
      BY <2>1, <1>0, StepsNamed DEF Call
  <2>3. CallIs(k)
    BY <2>2 DEF CallIs, Told, Asking
  <2>4. call' = [call EXCEPT ![c] = k]
    BY <1>9 DEF BeginErase
  <2>. HIDE DEF k
  <2>. QED
    BY Zenon, <2>2, <2>3, <2>4, <1>a, <1>9 DEF BeginErase
<1>10. ASSUME NEW t \in Tokens, BeginRefresh(c, t) PROVE Typed'
  <2>. DEFINE early == tokens[t].family \notin reused
              who == tokens[t].user
              k == [Blank EXCEPT !.pc = "refresh", !.tok = t, !.who = who, !.early = early]
  <2>1. who \in Users
    BY <1>10, <1>0 DEF BeginRefresh, RowsTyped, SessionRowsTyped, TokenIs, Token
  <2>1a. early \in BOOLEAN
    OBVIOUS
  <2>2. k \in Call /\ k.pc = "refresh" /\ k.who = who /\ k.tok = t
    <3>. HIDE DEF early, who
    <3>1. "refresh" \in StepNames
      BY DEF StepNames
    <3>2. [Blank EXCEPT !.pc = "refresh", !.tok = t, !.who = who, !.early = TRUE] \in Call
      BY <2>1, <3>1 DEF Call
    <3>3. [Blank EXCEPT !.pc = "refresh", !.tok = t, !.who = who, !.early = FALSE] \in Call
      BY <2>1, <3>1 DEF Call
    <3>4. k \in Call
      BY <3>2, <3>3, <2>1a
    <3>5. k.pc = "refresh" /\ k.who = who /\ k.tok = t
      BY DEF Call
    <3>. QED
      BY <3>4, <3>5
  <2>3. CallIs(k)
    BY <2>2, <2>1 DEF CallIs, Told, Asking
  <2>4. call' = [call EXCEPT ![c] = k]
    BY <1>10 DEF BeginRefresh
  <2>. HIDE DEF k
  <2>. QED
    BY <2>2, <2>3, <2>4, <1>a, <1>10 DEF BeginRefresh
<1>11. ASSUME NEW x \in Resets, BeginReset(c, x) PROVE Typed'
  <2>. DEFINE k == [Blank EXCEPT !.pc = "reset", !.tok = x, !.who = resets[x].user]
  <2>1. k \in Call /\ k.pc = "reset" /\ k.who = resets[x].user
    BY <1>0, StepsNamed DEF Call, Reset
  <2>2. k.who \in Users
    BY <1>11, <2>1, <1>0 DEF BeginReset, Reset, NoReset
  <2>3. CallIs(k)
    BY <2>1, <2>2 DEF CallIs, Told, Asking
  <2>4. call' = [call EXCEPT ![c] = k]
    BY <1>11 DEF BeginReset
  <2>. HIDE DEF k
  <2>. QED
    BY <2>1, <2>3, <2>4, <1>a, <1>11 DEF BeginReset
<1>12. ASSUME NEW e \in Emails, NEW p \in Providers, BeginOAuthLink(c, p, e) PROVE Typed'
  <2>. DEFINE who == IF ByEmail(e) = {} THEN None ELSE CHOOSE u \in ByEmail(e) : TRUE
              k == [Blank EXCEPT !.pc = "oauth", !.prov = p, !.email = e, !.who = who]
  <2>1. who \in Users \cup {None}
    BY DEF ByEmail
  <2>2. k \in Call /\ k.pc = "oauth" /\ k.email = e
    <3>. HIDE DEF who
    <3>. QED
      BY <2>1, StepsNamed DEF Call
  <2>3. CallIs(k)
    BY <2>2 DEF CallIs, Told, Asking
  <2>4. call' = [call EXCEPT ![c] = k]
    BY <1>12 DEF BeginOAuthLink
  <2>. HIDE DEF k
  <2>. QED
    BY Zenon, <2>2, <2>3, <2>4, <1>a, <1>12 DEF BeginOAuthLink
<1>13. ASSUME NEW u \in Users, NEW p \in Providers, BeginUnlink(c, u, p) PROVE Typed'
  <2>. DEFINE k == [Blank EXCEPT !.pc = "unlink", !.who = u, !.prov = p, !.view = users[u]]
  <2>2. k \in Call /\ k.pc = "unlink" /\ k.who = u
    BY <1>0, StepsNamed DEF Call
  <2>3. CallIs(k)
    BY <2>2 DEF CallIs, Told, Asking
  <2>4. call' = [call EXCEPT ![c] = k]
    BY <1>13 DEF BeginUnlink
  <2>. HIDE DEF k
  <2>. QED
    BY <2>2, <2>3, <2>4, <1>a, <1>13 DEF BeginUnlink
<1>14. ASSUME NEW u \in Users, NEW p \in Providers, NEW e \in Emails, BeginLink(c, u, p, e) PROVE Typed'
  <2>. DEFINE k == [Blank EXCEPT !.pc = "link", !.who = u, !.prov = p, !.email = e]
  <2>2. k \in Call /\ k.pc = "link" /\ k.who = u /\ k.email = e
    BY StepsNamed DEF Call
  <2>3. CallIs(k)
    BY <2>2 DEF CallIs, Told, Asking
  <2>4. call' = [call EXCEPT ![c] = k]
    BY <1>14 DEF BeginLink
  <2>. HIDE DEF k
  <2>. QED
    BY <2>2, <2>3, <2>4, <1>a, <1>14 DEF BeginLink
<1>15. ASSUME NEW u \in Users, NEW p \in Phones, BeginProfile(c, u, p) PROVE Typed'
  <2>. DEFINE k == [Blank EXCEPT !.pc = "profile", !.who = u, !.phone = p, !.view = users[u]]
  <2>2. k \in Call /\ k.pc = "profile" /\ k.who = u
    BY <1>0, StepsNamed DEF Call
  <2>3. CallIs(k)
    BY <2>2 DEF CallIs, Told, Asking
  <2>4. call' = [call EXCEPT ![c] = k]
    BY <1>15 DEF BeginProfile
  <2>. HIDE DEF k
  <2>. QED
    BY <2>2, <2>3, <2>4, <1>a, <1>15 DEF BeginProfile
<1>. QED
  BY <1>1, <1>2, <1>3, <1>4, <1>5, <1>6, <1>7, <1>8, <1>9, <1>10, <1>11, <1>12, <1>13, <1>14, <1>15 DEF Begins

LEMMA SavedTyped == ASSUME Typed, NEW c \in Calls PROVE Saved(c) \in [Signups -> Signup]
<1>. USE BlankRows DEF Typed, CallsTyped
<1>0. signups \in [Signups -> Signup] /\ call[c] \in Call
  BY DEF RowsTyped, SignupRowsTyped
<1>. DEFINE k == call[c]
            left == [i \in Signups |-> IF i \in k.gone THEN NoSignup ELSE signups[i]]
            i == IF k.id # None \/ FreeSignups = {} THEN k.id ELSE CHOOSE j \in FreeSignups : TRUE
            w == Written(left[i], k.seen, k.new)
            row == IF k.id = None THEN k.new ELSE [w EXCEPT !.expired = @ /\ k.pc # "start"]
<1>1. left \in [Signups -> Signup] /\ k.seen \in Signup /\ k.new \in Signup
  BY <1>0 DEF Call
<1>2. i \in Signups \cup {None}
  BY <1>0 DEF Call, FreeSignups
<1>3. i # None => row \in Signup
  <2>. SUFFICES ASSUME i \in Signups PROVE row \in Signup
    BY <1>2
  <2>1. w \in Signup
    <3>. HIDE DEF left, i, k
    <3>. QED
      BY <1>1, WrittenSignup
  <2>2. [w EXCEPT !.expired = @ /\ k.pc # "start"] \in Signup
    <3>. DEFINE b == w.expired /\ k.pc # "start"
    <3>1. b \in BOOLEAN /\ [w EXCEPT !.expired = @ /\ k.pc # "start"] = [w EXCEPT !.expired = b]
      OBVIOUS
    <3>. HIDE DEF w, b
    <3>. QED
      BY <2>1, <3>1 DEF Signup
  <2>. QED
    BY <1>1, <2>2
<1>4. Saved(c) = IF i = None \/ (k.id # None /\ left[i].email = None) \/ SignupClash(left, i, row) THEN signups
                 ELSE [left EXCEPT ![i] = row]
  BY DEF Saved
<1>. HIDE DEF k, left, i, row
<1>. QED
  BY <1>0, <1>1, <1>2, <1>3, <1>4

LEMMA SignupEndsTyped == ASSUME Typed, NEW c \in Calls, SignupEnds(c) PROVE Typed'
<1>. USE BlankCall, BlankRows DEF Typed, CallsTyped
<1>0. /\ users \in [Users -> User] /\ signups \in [Signups -> Signup] /\ tokens \in [Tokens -> Token] /\ resets \in [Resets -> Reset]
      /\ call[c] \in Call /\ CallIs(call[c])
  BY DEF RowsTyped, SignupRowsTyped, SessionRowsTyped
<1>a. ASSUME UNCHANGED <<users, sessionVars, careerVars>>, SignupRowsTyped', CallsTyped'
      PROVE Typed'
  BY <1>a DEF RowsTyped, SessionRowsTyped, CareerRowsTyped, TokenIs, sessionVars, careerVars
<1>1. ASSUME SaveSignup(c) PROVE Typed'
  <2>1. CallsTyped' /\ signups' \in [Signups -> Signup]
    BY <1>1, Finished, SavedTyped DEF SaveSignup
  <2>2. SignupRowsTyped'
    BY <1>1, <2>1 DEF SaveSignup, RowsTyped, SignupRowsTyped
  <2>. QED
    BY <1>1, <1>a, <2>1, <2>2 DEF SaveSignup
<1>2. ASSUME DispatchCode(c) PROVE Typed'
  <2>1. CallsTyped'
    BY <1>2, Finished DEF DispatchCode
  <2>2. [id |-> call[c].id, to |-> call[c].seen.email, n |-> call[c].n] \in Code /\ call[c].id \in Signups
    <3>1. call[c].n \in 1..MaxSends
      BY <1>0, <1>2, AccountAssumption DEF DispatchCode, CallIs, Call
    <3>. QED
      BY <1>0, <1>2, <3>1 DEF DispatchCode, CallIs, Code
  <2>3. call[c].seen.phone \in Phones \cup {None}
    BY <1>0 DEF Call, Signup
  <2>4. otp' \in [Signups -> [email: Code \cup {None}, phone: Phones \cup {None}]] /\ mail' \subseteq Code
    <3>. DEFINE code == [id |-> call[c].id, to |-> call[c].seen.email, n |-> call[c].n]
    <3>1. code \in Code
      BY <2>2
    <3>2. CASE call[c].chan = "email"
      <4>1. otp' = [otp EXCEPT ![call[c].id].email = code] /\ mail' = mail \cup {code}
        BY <1>2, <3>2 DEF DispatchCode
      <4>. HIDE DEF code
      <4>. QED
        BY <3>1, <4>1 DEF RowsTyped, SignupRowsTyped
    <3>3. CASE call[c].chan # "email"
      <4>1. otp' = [otp EXCEPT ![call[c].id].phone = call[c].seen.phone] /\ mail' = mail
        BY <1>2, <3>3 DEF DispatchCode
      <4>. QED
        BY <2>3, <4>1 DEF RowsTyped, SignupRowsTyped
    <3>. QED
      BY <3>2, <3>3
  <2>5. SignupRowsTyped'
    BY <1>2, <2>4 DEF DispatchCode, RowsTyped, SignupRowsTyped
  <2>. QED
    BY <1>2, <1>a, <2>1, <2>5 DEF DispatchCode
<1>3. ASSUME RecordVerify(c) PROVE Typed'
  <2>1. CallsTyped'
    BY <1>3, Finished DEF RecordVerify
  <2>2. call[c].seen \in Signup /\ TriesLeft(call[c].seen, call[c].chan) /\ call[c].chan \in Channels
    BY <1>0, <1>3 DEF RecordVerify, CallIs, Call
  <2>3. Judged(call[c]) \in Signup
    <3>1. call[c].chan = "email" => call[c].seen.emailTries + 1 \in 0..MaxTries
      BY <2>2, AccountAssumption DEF TriesLeft, TriesOf, Signup
    <3>2. call[c].chan # "email" => call[c].seen.phoneTries + 1 \in 0..MaxTries
      BY <2>2, AccountAssumption DEF TriesLeft, TriesOf, Signup
    <3>. QED
      BY <2>2, <3>1, <3>2 DEF Judged, Signup
  <2>4. ASSUME NEW i \in Signups PROVE Written(signups[i], call[c].seen, Judged(call[c])) \in Signup
    BY <2>2, <2>3, <1>0, WrittenSignup
  <2>5. signups' \in [Signups -> Signup]
    BY <1>3, <2>4, <1>0 DEF RecordVerify
  <2>6. SignupRowsTyped'
    BY <1>3, <2>5 DEF RecordVerify, RowsTyped, SignupRowsTyped
  <2>. QED
    BY <1>3, <1>a, <2>1, <2>6 DEF RecordVerify
<1>4. ASSUME CompleteSignup(c) PROVE Typed'
  <2>1. CallsTyped'
    BY <1>4, Finished DEF CompleteSignup
  <2>2. call[c].seen \in Signup /\ call[c].id \in Signups
    BY <1>0, <1>4 DEF CompleteSignup, CallIs, Call
  <2>3. NewAccount(call[c].seen) \in User
    <3>1. call[c].seen.email \in Emails \cup {None}
      BY <2>2 DEF Signup
    <3>. DEFINE row == call[c].seen
                links == [p \in Providers |-> IF p = Google /\ row.google THEN row.email ELSE None]
                ok == row.phoneOK /\ row.kind = "candidate"
    <3>3. links \in [Providers -> Emails \cup {None}] /\ ok \in BOOLEAN
      BY <2>2, <3>1 DEF Signup
    <3>4. NewAccount(row) = [email |-> row.email, phone |-> row.phone, password |-> row.password, emailOK |-> TRUE,
                             phoneOK |-> ok, active |-> TRUE, deleted |-> FALSE, links |-> links]
      BY DEF NewAccount
    <3>. HIDE DEF links, ok
    <3>. QED
      BY <2>2, <3>1, <3>3, <3>4 DEF Signup, User
  <2>4. PICK u \in Users : /\ signups' \in [Signups -> Signup] /\ users' \in [Users -> User] /\ Mint(u)
    <3>1. CASE /\ \E u \in Adoptable(call[c].seen) :
                    signups' = [signups EXCEPT ![call[c].id].done = IF @ = None THEN u ELSE @] /\ Mint(u)
               /\ users' = users
      <4>1. PICK u \in Adoptable(call[c].seen) :
               signups' = [signups EXCEPT ![call[c].id].done = IF @ = None THEN u ELSE @] /\ Mint(u)
        BY <3>1
      <4>2. u \in Users
        BY DEF Adoptable, ByEmail
      <4>. QED
        BY <4>1, <4>2, <3>1, <1>0, <2>2 DEF Signup
    <3>2. CASE FreeUsers # {} /\ LET u == CHOOSE x \in FreeUsers : TRUE IN
                  /\ users' = [users EXCEPT ![u] = NewAccount(call[c].seen)]
                  /\ signups' = [signups EXCEPT ![call[c].id].done = u,
                                                ![call[c].id].google = IF call[c].seen.google THEN FALSE ELSE @]
                  /\ Mint(u)
      <4>. DEFINE u == CHOOSE x \in FreeUsers : TRUE
      <4>1. u \in Users
        BY <3>2 DEF FreeUsers
      <4>2. users' = [users EXCEPT ![u] = NewAccount(call[c].seen)] /\ Mint(u)
            /\ signups' = [signups EXCEPT ![call[c].id].done = u, ![call[c].id].google = IF call[c].seen.google THEN FALSE ELSE @]
        BY <3>2
      <4>. HIDE DEF u
      <4>. QED
        BY <4>1, <4>2, <1>0, <2>2, <2>3 DEF Signup
    <3>. QED
      BY <1>4, <3>1, <3>2 DEF CompleteSignup
  <2>5. PICK t \in Tokens : /\ tokens[t] = NoToken
                            /\ tokens' = [tokens EXCEPT ![t] = [user |-> u, family |-> t, live |-> TRUE, stray |-> FALSE]]
    BY <2>4, Minted DEF RowsTyped
  <2>6. SessionRowsTyped'
    BY <1>4, <2>5, AccountAssumption DEF CompleteSignup, RowsTyped, SessionRowsTyped, TokenIs, Token, careerVars
  <2>7. SignupRowsTyped'
    BY <1>4, <2>4, <2>2 DEF CompleteSignup, RowsTyped, SignupRowsTyped, Cleared
  <2>. QED
    BY <1>4, <2>1, <2>4, <2>6, <2>7 DEF CompleteSignup, RowsTyped, CareerRowsTyped, careerVars
<1>5. ASSUME NEW code \in mail \cup {None}, CheckEmailCode(c, code) PROVE Typed'
  <2>0. call[c].id \in Signups /\ code \in Code \cup {None}
    BY <1>0, <1>5 DEF CheckEmailCode, CallIs, RowsTyped, SignupRowsTyped
  <2>. DEFINE hit == code # None /\ otp[call[c].id].email = code
              k == [call[c] EXCEPT !.pc = IF hit THEN "verified" ELSE "missed"]
  <2>1. k \in Call /\ CallIs(k)
    <3>. DEFINE pc == IF hit THEN "verified" ELSE "missed"
    <3>1. pc \in {"verified", "missed"}
      OBVIOUS
    <3>2. call[c].pc = "check" /\ CallIs(call[c]) /\ call[c] \in Call
      BY <1>0, <1>5 DEF CheckEmailCode
    <3>. HIDE DEF pc
    <3>. QED
      BY <3>1, <3>2, CheckedCall
  <2>2. call' = [call EXCEPT ![c] = k]
    BY <1>5 DEF CheckEmailCode
  <2>3. CallsTyped'
    <3>. HIDE DEF k
    <3>. QED
      BY <2>1, <2>2, Called
  <2>4. otp' \in [Signups -> [email: Code \cup {None}, phone: Phones \cup {None}]] /\ accepted' \subseteq Code \X Calls
    <3>1. otp' = IF hit THEN [otp EXCEPT ![call[c].id].email = None] ELSE otp
      BY <1>5 DEF CheckEmailCode, Consumed
    <3>2. accepted' = IF hit THEN accepted \cup {<<code, c>>} ELSE accepted
      BY <1>5 DEF CheckEmailCode
    <3>3. hit => <<code, c>> \in Code \X Calls
      BY <2>0
    <3>. HIDE DEF hit
    <3>4. accepted' \subseteq Code \X Calls
      BY <3>2, <3>3 DEF RowsTyped, SignupRowsTyped
    <3>. QED
      BY <3>1, <3>4 DEF RowsTyped, SignupRowsTyped
  <2>5. SignupRowsTyped'
    BY <1>5, <2>4 DEF CheckEmailCode, RowsTyped, SignupRowsTyped
  <2>. QED
    BY <1>5, <1>a, <2>3, <2>5 DEF CheckEmailCode
<1>6. ASSUME NEW right \in BOOLEAN, CheckPhoneCode(c, right) PROVE Typed'
  <2>0. call[c].id \in Signups
    BY <1>0, <1>6 DEF CheckPhoneCode, CallIs
  <2>. DEFINE hit == right /\ otp[call[c].id].phone # None /\ otp[call[c].id].phone = call[c].seen.phone
              k == [call[c] EXCEPT !.pc = IF hit THEN "verified" ELSE "missed"]
  <2>1. k \in Call /\ CallIs(k)
    <3>. DEFINE pc == IF hit THEN "verified" ELSE "missed"
    <3>1. pc \in {"verified", "missed"}
      OBVIOUS
    <3>2. call[c].pc = "check" /\ CallIs(call[c]) /\ call[c] \in Call
      BY <1>0, <1>6 DEF CheckPhoneCode
    <3>. HIDE DEF pc
    <3>. QED
      BY <3>1, <3>2, CheckedCall
  <2>2. call' = [call EXCEPT ![c] = k]
    BY <1>6 DEF CheckPhoneCode
  <2>3. CallsTyped'
    <3>. HIDE DEF k
    <3>. QED
      BY <2>1, <2>2, Called
  <2>4. otp' \in [Signups -> [email: Code \cup {None}, phone: Phones \cup {None}]]
    BY <1>6, <2>0 DEF CheckPhoneCode, RowsTyped, SignupRowsTyped
  <2>5. SignupRowsTyped'
    BY <1>6, <2>4 DEF CheckPhoneCode, RowsTyped, SignupRowsTyped
  <2>. QED
    BY <1>6, <1>a, <2>3, <2>5 DEF CheckPhoneCode
<1>. QED
  BY <1>1, <1>2, <1>3, <1>4, <1>5, <1>6 DEF SignupEnds

\* A family is known by its first token. Who refreshes after the reuse of a family was seen holds a stray of it.
FamiliesIs ==
  /\ \A t \in Tokens : tokens[t].family # None => tokens[tokens[t].family].family # None
  /\ \A f \in reused : tokens[f].family # None
  /\ \A c \in Calls : call[c].pc = "refresh" =>
       /\ tokens[call[c].tok].family # None
       /\ ~call[c].early => tokens[call[c].tok].family \in reused /\ tokens[call[c].tok].stray

\* A token issued or revoked leaves the tokens typed.
LEMMA MintTyped ==
  ASSUME SessionRowsTyped, NEW u \in Users, Mint(u), UNCHANGED <<resets, reused, raced>>
  PROVE SessionRowsTyped'
<1>1. PICK t \in Tokens : tokens' = [tokens EXCEPT ![t] = [user |-> u, family |-> t, live |-> TRUE, stray |-> FALSE]]
  BY Minted
<1>. QED
  BY <1>1, AccountAssumption DEF SessionRowsTyped, TokenIs, Token
LEMMA RevokedTyped ==
  ASSUME SessionRowsTyped, NEW S \in SUBSET Tokens, tokens' = Revoked(S),
         resets' \in [Resets -> Reset], reused' \subseteq Tokens, raced' = raced
  PROVE SessionRowsTyped'
<1>1. tokens' \in [Tokens -> Token]
  BY TokensRevoked
<1>2. ASSUME NEW t \in Tokens PROVE TokenIs(t)'
  <2>1. /\ tokens'[t].user = tokens[t].user /\ tokens'[t].family = tokens[t].family
        /\ tokens'[t].live => tokens[t].live
    BY TokensRevoked
  <2>. QED
    BY <2>1 DEF SessionRowsTyped, TokenIs
<1>. QED
  BY <1>1, <1>2 DEF SessionRowsTyped

LEMMA SessionEndsTyped == ASSUME Typed, FamiliesIs, NEW c \in Calls, SessionEnds(c) PROVE Typed'
<1>. USE BlankCall, BlankRows DEF Typed, CallsTyped
<1>0. /\ users \in [Users -> User] /\ tokens \in [Tokens -> Token] /\ resets \in [Resets -> Reset]
      /\ call[c] \in Call /\ CallIs(call[c])
  BY DEF RowsTyped, SessionRowsTyped
<1>a. ASSUME Finish(c), UNCHANGED <<signupVars, careerVars>>, users' \in [Users -> User], SessionRowsTyped'
      PROVE Typed'
  BY <1>a, Finished DEF RowsTyped, SignupRowsTyped, CareerRowsTyped, signupVars, careerVars
<1>b. ASSUME UNCHANGED sessionVars PROVE SessionRowsTyped'
  BY <1>b DEF RowsTyped, SessionRowsTyped, TokenIs, sessionVars
<1>c. ASSUME call[c].pc \in Told PROVE call[c].who \in Users
  BY <1>c, <1>0 DEF CallIs
<1>1. ASSUME IssueTokens(c) PROVE Typed'
  <2>1. SessionRowsTyped'
    BY <1>1, <1>c, MintTyped DEF IssueTokens, RowsTyped, Told, Asking
  <2>. QED
    BY <1>1, <2>1, <1>a, <1>0 DEF IssueTokens, careerVars
<1>2. ASSUME Rotate(c) PROVE Typed'
  <2>. DEFINE old == call[c].tok
              family == tokens[old].family
              stray == family \in reused /\ (call[c].early \/ tokens[old].stray)
  <2>1. PICK next \in Tokens : tokens[next] = NoToken /\ tokens' = [tokens EXCEPT ![old].live = FALSE,
          ![next] = [user |-> call[c].who, family |-> family, live |-> TRUE, stray |-> stray]]
    BY <1>2 DEF Rotate, FreeTokens
  <2>2. old \in Tokens /\ call[c].who \in Users
    BY <1>0, <1>2 DEF Rotate, CallIs, Told
  <2>3. family \in Tokens /\ stray \in BOOLEAN
    <3>1. family # None
      BY <1>2 DEF Rotate, FamiliesIs
    <3>. QED
      BY <3>1, <2>2, <1>0 DEF Token, Call
  <2>. DEFINE row == [user |-> call[c].who, family |-> family, live |-> TRUE, stray |-> stray]
  <2>3a. row \in Token
    BY <2>2, <2>3 DEF Token
  <2>4. SessionRowsTyped'
    <3>. HIDE DEF old
    <3>1. row.user # None /\ row.family # None
      BY <2>2, <2>3, AccountAssumption
    <3>2. tokens' = [tokens EXCEPT ![old].live = FALSE, ![next] = row]
      BY <2>1
    <3>. HIDE DEF row
    <3>3. tokens' \in [Tokens -> Token]
      BY <3>2, <2>2, <2>3a, <1>0 DEF Token
    <3>4. ASSUME NEW t \in Tokens PROVE TokenIs(t)'
      <4>1. CASE t = next
        BY <4>1, <3>1, <3>2, <1>0 DEF TokenIs
      <4>2. CASE t # next
        <5>1. /\ tokens'[t].user = tokens[t].user /\ tokens'[t].family = tokens[t].family
              /\ tokens'[t].live => tokens[t].live
          BY <4>2, <3>2, <2>2, <1>0 DEF Token
        <5>. QED
          BY <5>1 DEF RowsTyped, SessionRowsTyped, TokenIs
      <4>. QED
        BY <4>1, <4>2
    <3>. QED
      BY <1>2, <3>3, <3>4 DEF Rotate, RowsTyped, SessionRowsTyped
  <2>. QED
    BY <1>2, <2>4, <1>a, <1>0 DEF Rotate, careerVars

<1>3. ASSUME CreateReset(c) PROVE Typed'
  <2>1. call[c].who \in Users
    BY <1>3, <1>c DEF CreateReset, Told
  <2>2. resets' \in [Resets -> Reset]
    BY <1>3, <2>1, <1>0 DEF CreateReset, Reset
  <2>3. SessionRowsTyped'
    BY <1>3, <2>2 DEF CreateReset, RowsTyped, SessionRowsTyped, TokenIs
  <2>. QED
    BY <1>3, <2>3, <1>a, <1>0 DEF CreateReset, careerVars
<1>4. ASSUME ResetPassword(c) PROVE Typed'
  <2>1. call[c].who \in Users
    BY <1>4, <1>c DEF ResetPassword, Told
  <2>2a. resets' \in [Resets -> Reset]
    BY <1>4, <1>0 DEF ResetPassword, Reset
  <2>2b. users' \in [Users -> User]
    BY <1>4, <2>1, <1>0 DEF ResetPassword, User
  <2>2. resets' \in [Resets -> Reset] /\ users' \in [Users -> User]
    BY <2>2a, <2>2b
  <2>3. {t \in Tokens : tokens[t].user = call[c].who} \in SUBSET Tokens
    OBVIOUS
  <2>4. SessionRowsTyped'
    BY <1>4, <2>2, <2>3, RevokedTyped DEF ResetPassword, RowsTyped, SessionRowsTyped
  <2>. QED
    BY <1>4, <2>2, <2>4, <1>a DEF ResetPassword, careerVars
<1>5. ASSUME SavePassword(c) PROVE Typed'
  <2>1. users' \in [Users -> User]
    BY <1>5, <1>c, <1>0 DEF SavePassword, Told, Asking, User
  <2>. QED
    BY <1>5, <2>1, <1>a, <1>b DEF SavePassword, careerVars, sessionVars
<1>6. ASSUME FinishOAuth(c) PROVE Typed'
  <2>. DEFINE k == call[c]
              u == IF k.who # None THEN k.who ELSE CHOOSE x \in FreeUsers : TRUE
              base == IF k.who # None THEN users[u] ELSE [NoUser EXCEPT !.email = k.email, !.active = TRUE]
              row == [base EXCEPT !.emailOK = TRUE, !.links[k.prov] = k.email]
  <2>1. users' = [users EXCEPT ![u] = row] /\ Mint(u)
    BY <1>6 DEF FinishOAuth
  <2>2. u \in Users
    BY <1>6, <1>0 DEF FinishOAuth, Call, FreeUsers
  <2>3. k.email \in Emails /\ k.prov \in Providers
    BY <1>6, <1>0 DEF FinishOAuth, CallIs, Call
  <2>4. base \in User
    <3>1. [NoUser EXCEPT !.email = k.email, !.active = TRUE] \in User
      BY <2>3 DEF User
    <3>. QED
      BY <2>2, <3>1, <1>0
  <2>5. row \in User
    <3>. HIDE DEF base, k
    <3>. QED
      BY <2>3, <2>4 DEF User
  <2>. HIDE DEF row, u, base, k
  <2>6. SessionRowsTyped'
    BY <1>6, <2>1, <2>2, MintTyped DEF FinishOAuth, RowsTyped
  <2>7. users' \in [Users -> User]
    BY <2>1, <2>2, <2>5, <1>0
  <2>. QED
    BY <1>6, <2>6, <2>7, <1>a DEF FinishOAuth, careerVars
<1>7. ASSUME FinishLink(c) PROVE Typed'
  <2>1. call[c].who \in Users /\ call[c].prov \in Providers /\ call[c].email \in Emails
    BY <1>7, <1>c, <1>0 DEF FinishLink, Told, CallIs, Call
  <2>2. [users[call[c].who] EXCEPT !.links[call[c].prov] = call[c].email] \in User
    BY <2>1, <1>0 DEF User
  <2>3. users' \in [Users -> User]
    BY <1>7, <2>1, <2>2, <1>0 DEF FinishLink
  <2>. QED
    BY <1>7, <2>3, <1>a, <1>b DEF FinishLink, careerVars, sessionVars
<1>8. ASSUME FinishUnlink(c) PROVE Typed'
  <2>1. call[c].who \in Users /\ call[c].prov \in Providers
    BY <1>8, <1>c, <1>0 DEF FinishUnlink, Told, Call
  <2>2. users' \in [Users -> User]
    BY <1>8, <2>1, <1>0 DEF FinishUnlink, User
  <2>3. SessionRowsTyped'
    BY <1>8, <2>1 DEF FinishUnlink, RowsTyped, SessionRowsTyped, TokenIs
  <2>. QED
    BY <1>8, <2>2, <2>3, <1>a DEF FinishUnlink, careerVars
<1>9. ASSUME SaveProfile(c) PROVE Typed'
  <2>. DEFINE view == call[c].view
              new == [view EXCEPT !.phone = call[c].phone, !.phoneOK = @ /\ view.phone = call[c].phone]
              row == Written(users[call[c].who], view, new)
  <2>1. call[c].who \in Users /\ view \in User /\ call[c].phone \in Phones \cup {None}
    BY <1>9, <1>c, <1>0 DEF SaveProfile, Told, Call
  <2>2. new \in User
    BY <2>1 DEF User
  <2>3. row \in User
    <3>. HIDE DEF new, view
    <3>. QED
      BY <2>1, <2>2, <1>0, WrittenUser
  <2>4. users' = [users EXCEPT ![call[c].who] = row]
    BY <1>9 DEF SaveProfile
  <2>5. users' \in [Users -> User]
    <3>. HIDE DEF row
    <3>. QED
      BY <2>1, <2>3, <2>4, <1>0
  <2>. QED
    BY <1>9, <2>5, <1>a, <1>b DEF SaveProfile, careerVars, sessionVars
<1>10. ASSUME FinishSuspend(c) \/ FinishRestore(c) PROVE Typed'
  <2>0. call[c].who \in Users
    BY <1>10, <1>c DEF FinishSuspend, FinishRestore, Told, Asking
  <2>0a. ASSUME NEW b \in BOOLEAN, users' = [users EXCEPT ![call[c].who].active = b] PROVE users' \in [Users -> User]
    BY <2>0, <2>0a, <1>0 DEF User
  <2>1. users' \in [Users -> User]
    BY <1>10, <2>0a DEF FinishSuspend, FinishRestore
  <2>2. {t \in Tokens : tokens[t].user = call[c].who} \in SUBSET Tokens
    OBVIOUS
  <2>3. CASE FinishSuspend(c)
    <3>1. SessionRowsTyped'
      BY <2>3, <2>2, <1>0, RevokedTyped DEF FinishSuspend, RowsTyped, SessionRowsTyped
    <3>. QED
      BY <2>3, <3>1, <2>1, <1>a DEF FinishSuspend, careerVars
  <2>4. CASE FinishRestore(c)
    BY <2>4, <2>1, <1>a, <1>b DEF FinishRestore, careerVars, sessionVars
  <2>. QED
    BY <1>10, <2>3, <2>4
<1>. QED
  BY <1>1, <1>2, <1>3, <1>4, <1>5, <1>6, <1>7, <1>8, <1>9, <1>10 DEF SessionEnds

LEMMA ErasureTyped == ASSUME Typed, NEW c \in Calls, EraseObjects(c) \/ CommitErase(c) PROVE Typed'
<1>. USE BlankCall, BlankRows DEF Typed, CallsTyped
<1>0. /\ users \in [Users -> User] /\ signups \in [Signups -> Signup] /\ tokens \in [Tokens -> Token]
      /\ resets \in [Resets -> Reset] /\ call[c] \in Call /\ CallIs(call[c])
      /\ docs \in [Documents -> Document] /\ requests \in [Requests -> Request] /\ claims \in [Users -> ClaimState]
  BY DEF RowsTyped, SessionRowsTyped, SignupRowsTyped, CareerRowsTyped
<1>1. ASSUME EraseObjects(c) PROVE Typed'
  <2>. DEFINE k == [call[c] EXCEPT !.pc = "objects"]
  <2>0. call[c].who \in Users
    BY <1>0, <1>1 DEF EraseObjects, CallIs, Told
  <2>1. k \in Call /\ k.pc = "objects" /\ k.who \in Users
    BY <1>0, <2>0, StepsNamed DEF Call
  <2>2. CallIs(k)
    BY <2>1 DEF CallIs, Told, Asking
  <2>3. call' = [call EXCEPT ![c] = k]
    BY <1>1 DEF EraseObjects
  <2>4. CallsTyped'
    <3>. HIDE DEF k
    <3>. QED
      BY <2>1, <2>2, <2>3, Called
  <2>5. SignupRowsTyped'
    BY <1>1 DEF EraseObjects, RowsTyped, SignupRowsTyped
  <2>6. CareerRowsTyped'
    BY <1>1, <1>0 DEF EraseObjects, ErasedObjects, CareerRowsTyped, Document
  <2>. QED
    BY <1>1, <2>4, <2>5, <2>6 DEF EraseObjects, RowsTyped, SessionRowsTyped, TokenIs, sessionVars
<1>2. ASSUME CommitErase(c) PROVE Typed'
  <2>1. CallsTyped'
    BY Zenon, <1>2, Finished DEF CommitErase
  <2>1a. call[c].who \in Users
    BY Zenon, <1>2, <1>0 DEF CommitErase, CallIs, Told
  <2>1b. call[c].view \in User
    BY <1>0 DEF Call
  <2>1c. Tombstone(call[c].view) \in User
    BY <2>1b DEF Tombstone, User
  <2>2. call[c].who \in Users /\ call[c].view \in User /\ Tombstone(call[c].view) \in User
    BY <2>1a, <2>1b, <2>1c
  <2>. DEFINE row == Written(users[call[c].who], call[c].view, Tombstone(call[c].view))
  <2>3. row \in User
    BY <2>2, <1>0, WrittenUser
  <2>4. users' = [users EXCEPT ![call[c].who] = [row EXCEPT !.links = [p \in Providers |-> None]]]
    BY Zenon, <1>2 DEF CommitErase
  <2>5. users' \in [Users -> User]
    <3>. HIDE DEF row
    <3>. QED
      BY <2>2, <2>3, <2>4, <1>0 DEF User
  <2>6. SignupRowsTyped'
    BY Zenon, <1>2, <1>0 DEF CommitErase, RowsTyped, SignupRowsTyped
  <2>7. tokens' \in [Tokens -> Token] /\ \A t \in Tokens : TokenIs(t)'
    BY Zenon, <1>2, <1>0 DEF CommitErase, RowsTyped, SessionRowsTyped, TokenIs, Token
  <2>8. resets' \in [Resets -> Reset]
    BY Zenon, <1>2, <1>0 DEF CommitErase
  <2>9. SessionRowsTyped'
    BY Zenon, <1>2, <2>7, <2>8 DEF CommitErase, RowsTyped, SessionRowsTyped
  <2>10. docs' \in [Documents -> Document]
    <3>1. docs' = [d \in Documents |-> IF docs[d].owner = call[c].who THEN [docs[d] EXCEPT !.row = FALSE] ELSE docs[d]]
      BY Zenon, <1>2 DEF CommitErase
    <3>2. ASSUME NEW d \in Documents PROVE [docs[d] EXCEPT !.row = FALSE] \in Document
      BY <1>0 DEF Document
    <3>. QED
      BY Zenon, <3>1, <3>2, <1>0
  <2>11. requests' \in [Requests -> Request]
    BY Zenon, <1>2, <1>0 DEF CommitErase, Request
  <2>12. claims' \in [Users -> ClaimState]
    BY Zenon, <1>2, <1>0 DEF CommitErase, ClaimState
  <2>. QED
    BY <2>1, <2>5, <2>6, <2>9, <2>10, <2>11, <2>12 DEF RowsTyped, CareerRowsTyped
<1>. QED
  BY <1>1, <1>2

LEMMA ClockTyped == ASSUME Typed, Clock PROVE Typed'
<1>. USE BlankCall, BlankRows DEF Typed, CallsTyped
<1>0. /\ users \in [Users -> User] /\ signups \in [Signups -> Signup] /\ tokens \in [Tokens -> Token]
      /\ resets \in [Resets -> Reset]
      /\ docs \in [Documents -> Document] /\ requests \in [Requests -> Request] /\ claims \in [Users -> ClaimState]
  BY DEF RowsTyped, SessionRowsTyped, SignupRowsTyped, CareerRowsTyped
<1>1. ASSUME NEW i \in Signups, Expire(i) \/ DropExpired(i) PROVE Typed'
  <2>0. signups' = [signups EXCEPT ![i].expired = TRUE] \/ signups' = [signups EXCEPT ![i] = NoSignup]
    BY <1>1 DEF Expire, DropExpired
  <2>1. signups' \in [Signups -> Signup]
    <3>1. CASE signups' = [signups EXCEPT ![i].expired = TRUE]
      <4>1. [signups[i] EXCEPT !.expired = TRUE] \in Signup
        BY <1>0 DEF Signup
      <4>. QED
        BY Zenon, <3>1, <4>1, <1>0
    <3>2. CASE signups' = [signups EXCEPT ![i] = NoSignup]
      BY <3>2, <1>0
    <3>. QED
      BY <2>0, <3>1, <3>2
  <2>2. SignupRowsTyped'
    BY <1>1, <2>1 DEF Expire, DropExpired, RowsTyped, SignupRowsTyped, Cleared
  <2>. QED
    BY <1>1, <2>2 DEF Expire, DropExpired, RowsTyped, SessionRowsTyped, CareerRowsTyped, TokenIs, sessionVars, careerVars, CallIs, TriesLeft, TriesOf
<1>2. ASSUME NEW S \in SUBSET Tokens, tokens' = Revoked(S), reused' \subseteq Tokens, UNCHANGED <<users, signupVars, resets, raced, careerVars>>,
             call' = call \/ \E c \in Calls : Finish(c)
      PROVE Typed'
  <2>1. SessionRowsTyped'
    BY <1>2, <1>0, RevokedTyped DEF RowsTyped
  <2>2. CallsTyped'
    BY <1>2, Finished DEF CallIs, TriesLeft, TriesOf
  <2>. QED
    BY <1>2, <2>1, <2>2 DEF RowsTyped, SignupRowsTyped, CareerRowsTyped, signupVars, careerVars
<1>3. ASSUME NEW t \in Tokens, RefuseReused(t) PROVE Typed'
  <2>1. FamilyOf(t) \in SUBSET Tokens
    BY DEF FamilyOf
  <2>2. reused' \subseteq Tokens
    BY <1>3, <1>0 DEF RefuseReused, RowsTyped, SessionRowsTyped, TokenIs, Token
  <2>. QED
    BY <1>2, <1>3, <2>1, <2>2 DEF RefuseReused
<1>4. CASE Ending
  <2>1. PICK S \in SUBSET Tokens : tokens' = Revoked(S)
    BY <1>4 DEF Ending
  <2>2. reused' \subseteq Tokens
    BY <1>4 DEF Ending, RowsTyped, SessionRowsTyped
  <2>. QED
    BY <1>2, <1>4, <2>1, <2>2 DEF Ending
<1>5. ASSUME CareerRowsTyped', UNCHANGED <<users, signupVars, sessionVars, call>> PROVE Typed'
  BY <1>5 DEF RowsTyped, SessionRowsTyped, SignupRowsTyped, TokenIs, sessionVars, signupVars, CallIs, TriesLeft, TriesOf
<1>6. ASSUME NEW u \in Users, NEW d \in Documents, CreateUpload(u, d) PROVE Typed'
  BY <1>5, <1>6, <1>0 DEF CreateUpload, CareerRowsTyped, Document
<1>7. ASSUME NEW d \in Documents, PutObject(d) PROVE Typed'
  <2>. DEFINE late == Erasing(docs[d].owner) \/ users[docs[d].owner].deleted
  <2>1. docs' = [docs EXCEPT ![d].object = TRUE, ![d].late = late]
    BY <1>7 DEF PutObject
  <2>2. late \in BOOLEAN
    <3>1. docs[d].owner \in Users
      BY <1>7, <1>0 DEF PutObject, Document
    <3>. QED
      BY <3>1, <1>0 DEF Erasing, User
  <2>. HIDE DEF late
  <2>3. docs' \in [Documents -> Document]
    BY <2>1, <2>2, <1>0 DEF Document
  <2>. QED
    BY <1>5, <1>7, <1>0, <2>3 DEF PutObject, CareerRowsTyped
<1>8. ASSUME NEW u \in Users, NEW q \in Requests, OpenRequest(u, q) PROVE Typed'
  BY <1>5, <1>8, <1>0 DEF OpenRequest, CareerRowsTyped, Request
<1>9. ASSUME NEW q \in Requests, DispatchRequest(q) PROVE Typed'
  BY <1>5, <1>9, <1>0 DEF DispatchRequest, CareerRowsTyped, Request
<1>. QED
  BY <1>1, <1>3, <1>4, <1>6, <1>7, <1>8, <1>9 DEF Clock

LEMMA MovesTyped == ASSUME Typed, FamiliesIs, Moves PROVE Typed'
<1>1. ASSUME NEW c \in Calls, Closed(c) PROVE Typed'
  BY <1>1, Finished DEF Closed, Typed, RowsTyped, SignupRowsTyped, SessionRowsTyped, CareerRowsTyped, TokenIs, signupVars, sessionVars, careerVars
<1>2. CASE UNCHANGED vars
  BY <1>2 DEF vars, Typed, CallsTyped, CallIs, TriesLeft, TriesOf, RowsTyped, SignupRowsTyped, SessionRowsTyped, CareerRowsTyped, TokenIs, signupVars, sessionVars, careerVars
<1>. QED
  BY <1>1, <1>2, BeginTyped, SignupEndsTyped, SessionEndsTyped, ErasureTyped, ClockTyped DEF Moves

--------------------------------------------------------------------------------
(* What each kind of step leaves alone, and what a call was begun by.            *)
Edits == {"start", "google", "googlephone"}
LEMMA BegunBy ==
  ASSUME Typed, NEW c \in Calls, Begins(c)
  PROVE /\ Idle(c) /\ \A d \in Calls : d # c => call'[d] = call[d]
        /\ call'[c].pc = "send" \/ sends' = sends
        /\ call'[c].pc = "send" => \E i \in Signups, ch \in Channels : BeginSend(c, i, ch)
        /\ call'[c].pc = "refresh" => \E t \in Tokens : BeginRefresh(c, t)
        /\ call'[c].pc \in Edits =>
             \/ \E e \in Emails, p \in Phones \cup {None}, k \in Kinds : StartSignup(c, e, p, k)
             \/ \E e \in Emails : BeginGoogleSignup(c, e)
             \/ \E i \in Signups, p \in Phones : BeginGooglePhone(c, i, p)
        /\ call'[c].pc = "complete" => \E i \in Signups : BeginComplete(c, i)
        /\ call'[c].pc = "unlink" => \E u \in Users, p \in Providers : BeginUnlink(c, u, p)
        /\ call'[c].pc = "erase" => \E u \in Users : BeginErase(c, u)
        /\ call'[c].pc \notin {"objects", "verified", "missed"}
        /\ UNCHANGED <<users, signups, mail, accepted, restarted, sessionVars, careerVars>>
        /\ \A i \in Signups : otp'[i] = otp[i] \/ otp'[i] = Cleared
<1>0. call \in [Calls -> Call] /\ otp = [i \in Signups |-> otp[i]]
  BY DEF Typed, CallsTyped, RowsTyped, SignupRowsTyped
<1>. USE <1>0, BlankCall
<1>a. ASSUME NEW k, call' = [call EXCEPT ![c] = k] PROVE call'[c] = k /\ \A d \in Calls : d # c => call'[d] = call[d]
  BY <1>a
<1>1. ASSUME NEW e \in Emails, NEW p \in Phones \cup {None}, NEW kind \in Kinds, StartSignup(c, e, p, kind)
      PROVE /\ Idle(c) /\ (\A d \in Calls : d # c => call'[d] = call[d]) /\ call'[c].pc = "start" /\ sends' = sends
            /\ UNCHANGED <<users, signups, mail, accepted, restarted, sessionVars, careerVars>>
            /\ \A i \in Signups : otp'[i] = otp[i] \/ otp'[i] = Cleared
  <2>1. call' = [call EXCEPT ![c] = call'[c]] /\ call'[c].pc = "start"
    BY <1>1 DEF StartSignup, Call
  <2>. QED
    BY Zenon, <1>1, <2>1, <1>a DEF StartSignup
<1>2. ASSUME NEW i \in Signups, NEW ch \in Channels, BeginSend(c, i, ch)
      PROVE /\ Idle(c) /\ (\A d \in Calls : d # c => call'[d] = call[d]) /\ call'[c].pc = "send" /\ UNCHANGED otp
            /\ UNCHANGED <<users, signups, mail, accepted, restarted, sessionVars, careerVars>>
  <2>. DEFINE k == [Blank EXCEPT !.pc = "send", !.id = i, !.chan = ch, !.seen = signups[i], !.n = sends[i][ch] + 1]
  <2>1. k.pc = "send"
    BY DEF Call
  <2>. HIDE DEF k
  <2>. QED
    BY <1>2, <2>1 DEF BeginSend, k
<1>. DEFINE Same == /\ UNCHANGED <<users, signups, mail, accepted, restarted, sessionVars, careerVars>>
                    /\ UNCHANGED <<otp, sends>>
                    /\ Idle(c) /\ (\A d \in Calls : d # c => call'[d] = call[d])
<1>3. ASSUME NEW i \in Signups, NEW ch \in Channels, BeginVerify(c, i, ch) PROVE Same /\ call'[c].pc = "check"
  BY <1>3 DEF BeginVerify, Call, signupVars
<1>4. ASSUME NEW i \in Signups, BeginComplete(c, i) PROVE Same /\ call'[c].pc \in {"mint", "complete"}
  <2>. DEFINE k == [Blank EXCEPT !.pc = "mint", !.who = signups[i].done]
              l == [Blank EXCEPT !.pc = "complete", !.id = i, !.seen = signups[i]]
  <2>1. k.pc = "mint" /\ l.pc = "complete"
    BY DEF Call
  <2>2. (call' = [call EXCEPT ![c] = k] \/ call' = [call EXCEPT ![c] = l]) /\ Idle(c)
        /\ UNCHANGED <<users, signupVars, sessionVars, careerVars>>
    BY <1>4 DEF BeginComplete
  <2>. HIDE DEF k, l
  <2>. QED
    BY <2>1, <2>2 DEF signupVars
<1>5. ASSUME NEW e \in Emails, BeginGoogleSignup(c, e) PROVE Same /\ call'[c].pc = "google"
  BY <1>5 DEF BeginGoogleSignup, Call, signupVars
<1>6. ASSUME NEW i \in Signups, NEW p \in Phones, BeginGooglePhone(c, i, p) PROVE Same /\ call'[c].pc = "googlephone"
  BY <1>6 DEF BeginGooglePhone, Call, signupVars
<1>7. ASSUME Asked(c) PROVE Same /\ call'[c].pc \in Asking
  BY <1>7 DEF Asked, Begin, Call, signupVars
<1>8. ASSUME NEW u \in Users, BeginForgot(c, u) PROVE Same /\ call'[c].pc = "forgot"
  BY <1>8 DEF BeginForgot, Call, signupVars
<1>9. ASSUME NEW u \in Users, BeginErase(c, u) PROVE Same /\ call'[c].pc = "erase"
  BY <1>9 DEF BeginErase, Call, signupVars
<1>10. ASSUME NEW t \in Tokens, BeginRefresh(c, t) PROVE Same /\ call'[c].pc = "refresh"
  BY <1>10 DEF BeginRefresh, Call, signupVars
<1>11. ASSUME NEW x \in Resets, BeginReset(c, x) PROVE Same /\ call'[c].pc = "reset"
  BY <1>11 DEF BeginReset, Call, signupVars
<1>12. ASSUME NEW e \in Emails, NEW p \in Providers, BeginOAuthLink(c, p, e) PROVE Same /\ call'[c].pc = "oauth"
  BY <1>12 DEF BeginOAuthLink, Call, signupVars
<1>13. ASSUME NEW u \in Users, NEW p \in Providers, BeginUnlink(c, u, p) PROVE Same /\ call'[c].pc = "unlink"
  BY <1>13 DEF BeginUnlink, Call, signupVars
<1>14. ASSUME NEW u \in Users, NEW p \in Providers, NEW e \in Emails, BeginLink(c, u, p, e) PROVE Same /\ call'[c].pc = "link"
  BY <1>14 DEF BeginLink, Call, signupVars
<1>15. ASSUME NEW u \in Users, NEW p \in Phones, BeginProfile(c, u, p) PROVE Same /\ call'[c].pc = "profile"
  BY <1>15 DEF BeginProfile, Call, signupVars
<1>. DEFINE Plain == Same /\ call'[c].pc \in Asking \cup {"check", "mint", "forgot", "reset", "oauth", "link", "profile"}
<1>16. Plain => ~(call'[c].pc \in {"send", "refresh", "start", "google", "googlephone", "complete", "unlink", "erase", "objects", "verified", "missed"})
  BY DEF Asking
<1>17. \/ Plain
       \/ \E i \in Signups, ch \in Channels : BeginSend(c, i, ch)
       \/ \E e \in Emails, p \in Phones \cup {None}, k \in Kinds : StartSignup(c, e, p, k)
       \/ \E e \in Emails : BeginGoogleSignup(c, e)
       \/ \E i \in Signups, p \in Phones : BeginGooglePhone(c, i, p)
       \/ \E i \in Signups : BeginComplete(c, i) /\ call'[c].pc = "complete"
       \/ \E u \in Users, p \in Providers : BeginUnlink(c, u, p)
       \/ \E u \in Users : BeginErase(c, u)
       \/ \E t \in Tokens : BeginRefresh(c, t)
  <2>. HIDE DEF Same
  <2>. QED
    BY <1>3, <1>4, <1>7, <1>8, <1>11, <1>12, <1>14, <1>15 DEF Begins
<1>. QED
  BY <1>17, <1>16, <1>1, <1>2, <1>4, <1>5, <1>6, <1>9, <1>10, <1>13 DEF Edits

LEMMA SessionFrame == ASSUME NEW c \in Calls, SessionEnds(c) PROVE Finish(c) /\ UNCHANGED <<signupVars, careerVars>>
  BY Zenon DEF SessionEnds, IssueTokens, Rotate, CreateReset, ResetPassword, SavePassword, FinishOAuth, FinishLink, FinishUnlink,
         SaveProfile, FinishSuspend, FinishRestore
LEMMA FinishIs ==
  ASSUME Typed, NEW c \in Calls, Finish(c)
  PROVE call'[c] = Done /\ call'[c].pc = "done" /\ \A d \in Calls : d # c => call'[d] = call[d]
  BY DoneIs DEF Finish, Typed, CallsTyped

--------------------------------------------------------------------------------
(* Codes: the count of sends tells the codes of a sign-up apart, and a code that   *)
(* was accepted is neither stored nor still to be sent.                            *)
Sending(c, i) == call[c].pc = "send" /\ call[c].chan = "email" /\ call[c].id = i
CodesIs ==
  /\ \A x \in accepted : x[1].n <= sends[x[1].id]["email"]
  /\ \A i \in Signups : otp[i].email # None =>
       /\ otp[i].email.id = i /\ otp[i].email.n <= sends[i]["email"]
       /\ \A x \in accepted : x[1].id = i => x[1].n # otp[i].email.n
  /\ \A c \in Calls, i \in Signups : Sending(c, i) =>
       /\ call[c].n <= sends[i]["email"]
       /\ otp[i].email # None => otp[i].email.n # call[c].n
       /\ \A x \in accepted : x[1].id = i => x[1].n # call[c].n
       /\ \A d \in Calls : Sending(d, i) /\ call[d].n = call[c].n => d = c
  /\ CodeUsedOnce

LEMMA CodesKept ==
  ASSUME CodesIs, accepted' = accepted, sends' = sends,
         \A i \in Signups : otp'[i].email = otp[i].email \/ otp'[i].email = None,
         \A c \in Calls : call'[c].pc = "send" => call'[c] = call[c]
  PROVE CodesIs'
<1>1. ASSUME NEW c \in Calls, NEW i \in Signups, Sending(c, i)' PROVE Sending(c, i) /\ call'[c] = call[c]
  BY <1>1 DEF Sending
<1>2. CodeUsedOnce'
  BY DEF CodesIs, CodeUsedOnce
<1>3. \A x \in accepted' : x[1].n <= sends'[x[1].id]["email"]
  BY DEF CodesIs
<1>4. ASSUME NEW i \in Signups, otp'[i].email # None
      PROVE /\ otp'[i].email.id = i /\ otp'[i].email.n <= sends'[i]["email"]
            /\ \A x \in accepted' : x[1].id = i => x[1].n # otp'[i].email.n
  BY <1>4 DEF CodesIs
<1>5. ASSUME NEW c \in Calls, NEW i \in Signups, Sending(c, i)'
      PROVE /\ call'[c].n <= sends'[i]["email"]
            /\ otp'[i].email # None => otp'[i].email.n # call'[c].n
            /\ \A x \in accepted' : x[1].id = i => x[1].n # call'[c].n
            /\ \A d \in Calls : Sending(d, i)' /\ call'[d].n = call'[c].n => d = c
  BY <1>1, <1>5 DEF CodesIs
<1>. QED
  BY <1>2, <1>3, <1>4, <1>5 DEF CodesIs

LEMMA SendCodes ==
  ASSUME Typed, CodesIs, NEW c \in Calls, NEW i \in Signups, NEW ch \in Channels, BeginSend(c, i, ch)
  PROVE CodesIs'
<1>0. /\ call \in [Calls -> Call] /\ sends \in [Signups -> [Channels -> 0..MaxSends]] /\ accepted \subseteq Code \X Calls
      /\ otp \in [Signups -> [email: Code \cup {None}, phone: Phones \cup {None}]]
      /\ \A d \in Calls, j \in Signups : Sending(d, j) => call[d].n \in Nat
  BY DEF Typed, RowsTyped, SignupRowsTyped, CallsTyped, Call
<1>1. /\ call'[c].pc = "send" /\ call'[c].id = i /\ call'[c].chan = ch /\ call'[c].n = sends[i][ch] + 1
      /\ \A d \in Calls : d # c => call'[d] = call[d]
      /\ sends' = [sends EXCEPT ![i][ch] = @ + 1] /\ UNCHANGED <<otp, accepted>>
  BY <1>0, BlankCall DEF BeginSend, Call
<1>2. "email" \in Channels /\ \A j \in Signups : sends[j]["email"] \in Nat /\ sends'[j]["email"] \in Nat /\ sends[j]["email"] <= sends'[j]["email"]
      /\ (ch = "email" => sends'[i]["email"] = sends[i]["email"] + 1)
  BY <1>0, <1>1, AccountAssumption DEF Channels
<1>2a. \A x \in accepted : x[1] \in Code /\ x[1].n \in Nat /\ x[1].id \in Signups
  BY <1>0 DEF Code
<1>2b. \A j \in Signups : otp[j].email # None => otp[j].email.n \in Nat
  BY <1>0 DEF Code
<1>3. CodeUsedOnce'
  BY <1>1 DEF CodesIs, CodeUsedOnce
<1>4. ASSUME NEW x \in accepted' PROVE x[1].n <= sends'[x[1].id]["email"]
  BY <1>1, <1>2, <1>2a DEF CodesIs
<1>5. ASSUME NEW j \in Signups, otp'[j].email # None
      PROVE /\ otp'[j].email.id = j /\ otp'[j].email.n <= sends'[j]["email"]
            /\ \A x \in accepted' : x[1].id = j => x[1].n # otp'[j].email.n
  BY <1>1, <1>2, <1>2b, <1>5 DEF CodesIs
<1>6. ASSUME NEW d \in Calls, NEW j \in Signups, Sending(d, j)'
      PROVE /\ call'[d].n <= sends'[j]["email"]
            /\ otp'[j].email # None => otp'[j].email.n # call'[d].n
            /\ \A x \in accepted' : x[1].id = j => x[1].n # call'[d].n
            /\ \A e \in Calls : Sending(e, j)' /\ call'[e].n = call'[d].n => e = d
  <2>1. \A e \in Calls : e # c /\ Sending(e, j)' => Sending(e, j) /\ call'[e] = call[e] /\ call[e].n <= sends[j]["email"] /\ call[e].n \in Nat
    BY <1>0, <1>1 DEF Sending, CodesIs
  <2>2. Sending(c, j)' => j = i /\ ch = "email" /\ call'[c].n = sends[j]["email"] + 1
    BY <1>1 DEF Sending
  <2>3. CASE d # c
    BY <2>1, <2>2, <2>3, <1>1, <1>2, <1>6 DEF CodesIs
  <2>4. CASE d = c
    <3>1. call'[d].n = sends[j]["email"] + 1 /\ j = i /\ ch = "email"
      BY <2>2, <2>4, <1>6
    <3>2. \A e \in Calls : Sending(e, j)' /\ call'[e].n = call'[d].n => e = d
      BY <2>1, <3>1, <2>4, <1>2
    <3>3. otp'[j].email # None => otp'[j].email.n # call'[d].n
      BY <3>1, <1>1, <1>2, <1>2b DEF CodesIs
    <3>4. ASSUME NEW x \in accepted', x[1].id = j PROVE x[1].n # call'[d].n
      BY <3>1, <3>4, <1>1, <1>2, <1>2a DEF CodesIs
    <3>. QED
      BY <3>1, <3>2, <3>3, <3>4, <1>2
  <2>. QED
    BY <2>3, <2>4
<1>. QED
  BY <1>3, <1>4, <1>5, <1>6 DEF CodesIs

LEMMA DispatchCodes == ASSUME Typed, CodesIs, NEW c \in Calls, DispatchCode(c) PROVE CodesIs'
<1>. DEFINE k == call[c]
            code == [id |-> k.id, to |-> k.seen.email, n |-> k.n]
<1>0. /\ k.id \in Signups /\ CallsTyped /\ \A d \in Calls : d # c => call'[d] = call[d]
      /\ call'[c].pc = "done" /\ otp \in [Signups -> [email: Code \cup {None}, phone: Phones \cup {None}]]
      /\ sends' = sends /\ accepted' = accepted
  BY FinishIs DEF Typed, CallsTyped, CallIs, DispatchCode, RowsTyped, SignupRowsTyped
<1>1. CASE k.chan # "email"
  <2>1. \A i \in Signups : otp'[i].email = otp[i].email
    BY <1>0, <1>1 DEF DispatchCode
  <2>. QED
    BY <1>0, <2>1, CodesKept
<1>2. CASE k.chan = "email"
  <2>1. Sending(c, k.id) /\ otp' = [otp EXCEPT ![k.id].email = code]
    BY <1>2 DEF Sending, DispatchCode
  <2>2. \A i \in Signups : otp'[i].email = IF i = k.id THEN code ELSE otp[i].email
    BY <2>1, <1>0
  <2>3. ASSUME NEW d \in Calls, NEW j \in Signups, Sending(d, j)' PROVE Sending(d, j) /\ call'[d] = call[d] /\ d # c
    BY <2>3, <1>0 DEF Sending
  <2>4. CodeUsedOnce'
    BY <1>0 DEF CodesIs, CodeUsedOnce
  <2>5. code.id = k.id /\ code.n = k.n
    OBVIOUS
  <2>. HIDE DEF code
  <2>6. ASSUME NEW i \in Signups, otp'[i].email # None
        PROVE /\ otp'[i].email.id = i /\ otp'[i].email.n <= sends'[i]["email"]
              /\ \A x \in accepted' : x[1].id = i => x[1].n # otp'[i].email.n
    BY <1>0, <2>1, <2>2, <2>5, <2>6 DEF CodesIs
  <2>7. ASSUME NEW d \in Calls, NEW j \in Signups, Sending(d, j)'
      PROVE /\ call'[d].n <= sends'[j]["email"]
            /\ otp'[j].email # None => otp'[j].email.n # call'[d].n
            /\ \A x \in accepted' : x[1].id = j => x[1].n # call'[d].n
            /\ \A e \in Calls : Sending(e, j)' /\ call'[e].n = call'[d].n => e = d
    BY <1>0, <2>1, <2>2, <2>3, <2>5, <2>7 DEF CodesIs
  <2>8. \A x \in accepted' : x[1].n <= sends'[x[1].id]["email"]
    BY <1>0 DEF CodesIs
  <2>. QED
    BY <2>4, <2>6, <2>7, <2>8 DEF CodesIs
<1>. QED
  BY <1>1, <1>2

LEMMA AcceptCodes ==
  ASSUME Typed, CodesIs, NEW c \in Calls, NEW code \in mail \cup {None}, CheckEmailCode(c, code)
  PROVE CodesIs'
<1>. DEFINE i == call[c].id
            hit == code # None /\ otp[i].email = code
<1>0. /\ i \in Signups /\ \A d \in Calls : d # c => call'[d] = call[d]
      /\ call'[c].pc \in {"verified", "missed"} /\ otp \in [Signups -> [email: Code \cup {None}, phone: Phones \cup {None}]]
      /\ sends' = sends
  BY DEF Typed, CallsTyped, CallIs, CheckEmailCode, RowsTyped, SignupRowsTyped, Call
<1>1. CASE ~hit
  <2>1. otp' = otp /\ accepted' = accepted
    BY <1>1 DEF CheckEmailCode
  <2>. QED
    BY <1>0, <2>1, CodesKept
<1>2. CASE hit
  <2>1. otp' = [otp EXCEPT ![i].email = None] /\ accepted' = accepted \cup {<<code, c>>}
    BY <1>2 DEF CheckEmailCode, Consumed
  <2>2. /\ code = otp[i].email /\ code # None /\ code.id = i /\ code.n <= sends[i]["email"]
        /\ \A x \in accepted : x[1].id = i => x[1].n # code.n
    BY <1>2, <1>0 DEF CodesIs
  <2>3. \A j \in Signups : otp'[j].email = IF j = i THEN None ELSE otp[j].email
    BY <2>1, <1>0
  <2>4. ASSUME NEW d \in Calls, NEW j \in Signups, Sending(d, j)' PROVE Sending(d, j) /\ call'[d] = call[d] /\ d # c
    BY <2>4, <1>0 DEF Sending
  <2>5. CodeUsedOnce'
    BY <2>1, <2>2 DEF CodesIs, CodeUsedOnce
  <2>6. ASSUME NEW j \in Signups, otp'[j].email # None
        PROVE /\ otp'[j].email.id = j /\ otp'[j].email.n <= sends'[j]["email"]
              /\ \A x \in accepted' : x[1].id = j => x[1].n # otp'[j].email.n
    BY <1>0, <2>1, <2>2, <2>3, <2>6 DEF CodesIs
  <2>7. ASSUME NEW d \in Calls, NEW j \in Signups, Sending(d, j)'
      PROVE /\ call'[d].n <= sends'[j]["email"]
            /\ otp'[j].email # None => otp'[j].email.n # call'[d].n
            /\ \A x \in accepted' : x[1].id = j => x[1].n # call'[d].n
            /\ \A e \in Calls : Sending(e, j)' /\ call'[e].n = call'[d].n => e = d
    BY <1>0, <2>1, <2>2, <2>3, <2>4, <2>7 DEF CodesIs
  <2>8. \A x \in accepted' : x[1].n <= sends'[x[1].id]["email"]
    BY <1>0, <2>1, <2>2 DEF CodesIs
  <2>. QED
    BY <2>5, <2>6, <2>7, <2>8 DEF CodesIs
<1>. QED
  BY <1>1, <1>2

LEMMA MovesCodes == ASSUME Typed, CodesIs, Moves PROVE CodesIs'
<1>. DEFINE Quiet == /\ accepted' = accepted /\ sends' = sends
                     /\ \A i \in Signups : otp'[i].email = otp[i].email \/ otp'[i].email = None
                     /\ \A c \in Calls : call'[c].pc = "send" => call'[c] = call[c]
<1>0. otp \in [Signups -> [email: Code \cup {None}, phone: Phones \cup {None}]] /\ call \in [Calls -> Call]
  BY DEF Typed, RowsTyped, SignupRowsTyped, CallsTyped
<1>q. Quiet => CodesIs'
  BY CodesKept
<1>1. ASSUME NEW c \in Calls, Begins(c) PROVE CodesIs'
  <2>1. CASE call'[c].pc = "send"
    BY <1>1, <2>1, BegunBy, SendCodes
  <2>2. CASE call'[c].pc # "send"
    BY <1>1, <2>2, <1>q, BegunBy DEF Cleared
  <2>. QED
    BY <2>1, <2>2
<1>2. ASSUME NEW c \in Calls, SessionEnds(c) \/ Closed(c) PROVE CodesIs'
  BY <1>2, <1>q, SessionFrame, FinishIs DEF Closed, signupVars
<1>3. ASSUME NEW c \in Calls, SaveSignup(c) \/ RecordVerify(c) \/ CommitErase(c) PROVE CodesIs'
  BY Zenon, <1>3, <1>q, FinishIs DEF SaveSignup, RecordVerify, CommitErase
<1>4. ASSUME NEW c \in Calls, CompleteSignup(c) PROVE CodesIs'
  BY <1>4, <1>0, <1>q, FinishIs DEF CompleteSignup, Cleared
<1>5. ASSUME NEW c \in Calls, NEW right \in BOOLEAN, CheckPhoneCode(c, right) PROVE CodesIs'
  <2>1. Quiet
    BY <1>5, <1>0 DEF CheckPhoneCode, Call
  <2>. QED
    BY <2>1, <1>q
<1>6. ASSUME NEW c \in Calls, EraseObjects(c) PROVE CodesIs'
  <2>1. Quiet
    BY <1>6, <1>0 DEF EraseObjects, Call
  <2>. QED
    BY <2>1, <1>q
<1>7. CASE Clock
  <2>1. ASSUME NEW i \in Signups, Expire(i) \/ DropExpired(i) PROVE CodesIs'
    BY <2>1, <1>0, <1>q DEF Expire, DropExpired, Cleared
  <2>2. ASSUME Ending PROVE CodesIs'
    BY <2>2, <1>q, FinishIs DEF Ending, signupVars
  <2>3. ASSUME \/ \E t \in Tokens : RefuseReused(t)
               \/ \E u \in Users, d \in Documents : CreateUpload(u, d)
               \/ \E d \in Documents : PutObject(d)
               \/ \E u \in Users, q \in Requests : OpenRequest(u, q)
               \/ \E q \in Requests : DispatchRequest(q)
        PROVE CodesIs'
    BY <2>3, <1>q DEF RefuseReused, CreateUpload, PutObject, OpenRequest, DispatchRequest, signupVars
  <2>. QED
    BY <1>7, <2>1, <2>2, <2>3 DEF Clock
<1>8. CASE UNCHANGED vars
  BY <1>8, <1>q DEF vars, signupVars
<1>. HIDE DEF Quiet
<1>. QED
  BY <1>1, <1>2, <1>3, <1>4, <1>5, <1>6, <1>7, <1>8, DispatchCodes, AcceptCodes DEF Moves, SignupEnds

--------------------------------------------------------------------------------
(* Families of tokens: what is live in a family whose reuse was seen is stray.   *)
TokensInv == FamiliesIs /\ ReusedFamilyDies

LEMMA TokensKept ==
  ASSUME TokensInv, reused' = reused,
         \A t \in Tokens : /\ tokens'[t].family = tokens[t].family /\ tokens'[t].stray = tokens[t].stray
                           /\ tokens'[t].live => tokens[t].live,
         \A c \in Calls : call'[c].pc = "refresh" => call'[c] = call[c],
         Typed, Typed'
  PROVE TokensInv'
<1>0. /\ \A t \in Tokens : tokens[t].family \in Tokens \cup {None}
      /\ reused \subseteq Tokens /\ \A c \in Calls : call[c].pc = "refresh" => call[c].tok \in Tokens
  BY DEF Typed, RowsTyped, SessionRowsTyped, Token, CallsTyped, CallIs
<1>1. ReusedFamilyDies'
  BY DEF TokensInv, ReusedFamilyDies
<1>2. \A t \in Tokens : tokens'[t].family # None => tokens'[tokens'[t].family].family # None
  BY <1>0 DEF TokensInv, FamiliesIs
<1>3. \A f \in reused' : tokens'[f].family # None
  BY <1>0 DEF TokensInv, FamiliesIs
<1>4. ASSUME NEW c \in Calls, call'[c].pc = "refresh"
      PROVE /\ tokens'[call'[c].tok].family # None
            /\ ~call'[c].early => tokens'[call'[c].tok].family \in reused' /\ tokens'[call'[c].tok].stray
  <2>1. call'[c] = call[c] /\ call[c].tok \in Tokens /\ call[c].pc = "refresh"
    BY <1>0, <1>4
  <2>. QED
    BY <2>1 DEF TokensInv, FamiliesIs
<1>. QED
  BY <1>1, <1>2, <1>3, <1>4 DEF TokensInv, FamiliesIs

LEMMA MintTokens ==
  ASSUME TokensInv, Typed, NEW u \in Users, Mint(u), reused' = reused,
         \A c \in Calls : call'[c].pc = "refresh" => call'[c] = call[c]
  PROVE TokensInv'
<1>1. PICK n \in Tokens : /\ tokens[n] = NoToken
                          /\ tokens' = [tokens EXCEPT ![n] = [user |-> u, family |-> n, live |-> TRUE, stray |-> FALSE]]
  BY Minted DEF Typed, RowsTyped
<1>0. /\ \A t \in Tokens : tokens[t].family \in Tokens \cup {None}
      /\ reused \subseteq Tokens /\ \A c \in Calls : call[c].pc = "refresh" => call[c].tok \in Tokens
      /\ tokens \in [Tokens -> Token] /\ None \notin Tokens
  BY AccountAssumption DEF Typed, RowsTyped, SessionRowsTyped, Token, CallsTyped, CallIs
<1>2. /\ tokens[n].family = None /\ n \notin reused /\ \A t \in Tokens : t # n => tokens'[t] = tokens[t]
      /\ tokens'[n].family = n /\ \A t \in Tokens : tokens[t].family # n
  BY <1>0, <1>1 DEF NoToken, TokensInv, FamiliesIs
<1>3. ReusedFamilyDies'
  BY <1>0, <1>2 DEF TokensInv, ReusedFamilyDies
<1>4. \A t \in Tokens : tokens'[t].family # None => tokens'[tokens'[t].family].family # None
  BY <1>0, <1>2 DEF TokensInv, FamiliesIs
<1>5. \A f \in reused' : tokens'[f].family # None
  BY <1>0, <1>2 DEF TokensInv, FamiliesIs
<1>6. ASSUME NEW c \in Calls, call'[c].pc = "refresh"
      PROVE /\ tokens'[call'[c].tok].family # None
            /\ ~call'[c].early => tokens'[call'[c].tok].family \in reused' /\ tokens'[call'[c].tok].stray
  <2>1. call'[c] = call[c] /\ call[c].tok \in Tokens /\ call[c].pc = "refresh" /\ tokens[call[c].tok].family # None
    BY <1>0, <1>6 DEF TokensInv, FamiliesIs
  <2>2. tokens'[call[c].tok] = tokens[call[c].tok]
    BY <2>1, <1>2
  <2>. QED
    BY <2>1, <2>2 DEF TokensInv, FamiliesIs
<1>. QED
  BY <1>3, <1>4, <1>5, <1>6 DEF TokensInv, FamiliesIs

LEMMA RotateTokens == ASSUME TokensInv, Typed, NEW c \in Calls, Rotate(c) PROVE TokensInv'
<1>. DEFINE old == call[c].tok
            family == tokens[old].family
            stray == family \in reused /\ (call[c].early \/ tokens[old].stray)
<1>0. /\ \A t \in Tokens : tokens[t].family \in Tokens \cup {None}
      /\ reused \subseteq Tokens /\ \A d \in Calls : call[d].pc = "refresh" => call[d].tok \in Tokens
      /\ tokens \in [Tokens -> Token] /\ None \notin Tokens /\ call[c].early \in BOOLEAN
      /\ call[c].pc = "refresh" /\ old \in Tokens
  BY AccountAssumption DEF Typed, RowsTyped, SessionRowsTyped, Token, CallsTyped, CallIs, Call, Rotate
<1>1. PICK n \in Tokens : tokens[n] = NoToken /\ tokens' = [tokens EXCEPT ![old].live = FALSE,
          ![n] = [user |-> call[c].who, family |-> family, live |-> TRUE, stray |-> stray]]
  BY DEF Rotate, FreeTokens
<1>2. /\ family \in Tokens /\ tokens[family].family # None
      /\ ~call[c].early => family \in reused /\ tokens[old].stray
  BY <1>0 DEF TokensInv, FamiliesIs
<1>3. n # old /\ n # family /\ n \notin reused /\ tokens[n].family = None
  BY <1>0, <1>1, <1>2 DEF NoToken, TokensInv, FamiliesIs
<1>4. /\ tokens'[n].family = family /\ (tokens'[n].stray <=> stray)
      /\ \A t \in Tokens : t # n => /\ tokens'[t].family = tokens[t].family /\ tokens'[t].stray = tokens[t].stray
                                    /\ tokens'[t].live => tokens[t].live
  <2>1. tokens'[n] = [user |-> call[c].who, family |-> family, live |-> TRUE, stray |-> stray]
    BY <1>0, <1>1
  <2>2. \A t \in Tokens : t # n => tokens'[t] = IF t = old THEN [tokens[t] EXCEPT !.live = FALSE] ELSE tokens[t]
    BY <1>0, <1>1
  <2>. HIDE DEF stray, family, old
  <2>3. tokens'[n].family = family /\ tokens'[n].stray = stray
    BY <2>1
  <2>4. ASSUME NEW t \in Tokens, t # n
        PROVE /\ tokens'[t].family = tokens[t].family /\ tokens'[t].stray = tokens[t].stray
              /\ tokens'[t].live => tokens[t].live
    <3>1. CASE t = old
      BY <2>2, <2>4, <3>1, <1>0 DEF Token
    <3>2. CASE t # old
      BY Zenon, <2>2, <2>4, <3>2
    <3>. QED
      BY <3>1, <3>2
  <2>. QED
    BY Zenon, <2>3, <2>4
<1>5. reused' = reused /\ \A d \in Calls : call'[d].pc = "refresh" => call'[d] = call[d] /\ d # c
  BY FinishIs DEF Rotate
<1>6. family \in reused => stray
  BY <1>0, <1>2
<1>. HIDE DEF stray, family, old
<1>7. ReusedFamilyDies'
  BY <1>4, <1>5, <1>6 DEF TokensInv, ReusedFamilyDies
<1>8. \A t \in Tokens : tokens'[t].family # None => tokens'[tokens'[t].family].family # None
  BY <1>0, <1>2, <1>3, <1>4 DEF TokensInv, FamiliesIs
<1>9. \A f \in reused' : tokens'[f].family # None
  BY <1>0, <1>3, <1>4, <1>5 DEF TokensInv, FamiliesIs
<1>10. ASSUME NEW d \in Calls, call'[d].pc = "refresh"
      PROVE /\ tokens'[call'[d].tok].family # None
            /\ ~call'[d].early => tokens'[call'[d].tok].family \in reused' /\ tokens'[call'[d].tok].stray
  <2>1. call'[d] = call[d] /\ call[d].tok \in Tokens /\ call[d].pc = "refresh" /\ tokens[call[d].tok].family # None
    BY <1>0, <1>5, <1>10 DEF TokensInv, FamiliesIs
  <2>2. call[d].tok # n
    BY <2>1, <1>3
  <2>. QED
    BY <2>1, <2>2, <1>4, <1>5 DEF TokensInv, FamiliesIs
<1>. QED
  BY <1>7, <1>8, <1>9, <1>10 DEF TokensInv, FamiliesIs

LEMMA ReusedTokens == ASSUME TokensInv, Typed, NEW t \in Tokens, RefuseReused(t) PROVE TokensInv'
<1>0. /\ \A s \in Tokens : tokens[s].family \in Tokens \cup {None}
      /\ reused \subseteq Tokens /\ \A d \in Calls : call[d].pc = "refresh" => call[d].tok \in Tokens
      /\ tokens[t].family \in Tokens
  BY DEF Typed, RowsTyped, SessionRowsTyped, Token, TokenIs, CallsTyped, CallIs, RefuseReused
<1>1. /\ reused' = reused \cup {tokens[t].family} /\ call' = call
      /\ \A s \in Tokens : /\ tokens'[s].family = tokens[s].family /\ tokens'[s].stray = tokens[s].stray
                           /\ tokens'[s].live = (tokens[s].live /\ tokens[s].family # tokens[t].family)
  <2>1. FamilyOf(t) \in SUBSET Tokens /\ tokens' = Revoked(FamilyOf(t))
    BY DEF FamilyOf, RefuseReused
  <2>2. \A s \in Tokens : s \in FamilyOf(t) <=> tokens[s].family = tokens[t].family
    BY DEF FamilyOf
  <2>. QED
    BY <2>1, <2>2, TokensRevoked DEF Typed, RowsTyped, RefuseReused
<1>2. ReusedFamilyDies'
  BY <1>1 DEF TokensInv, ReusedFamilyDies
<1>3. \A s \in Tokens : tokens'[s].family # None => tokens'[tokens'[s].family].family # None
  BY <1>0, <1>1 DEF TokensInv, FamiliesIs
<1>4. \A f \in reused' : tokens'[f].family # None
  BY <1>0, <1>1, <1>3, AccountAssumption DEF TokensInv, FamiliesIs
<1>5. ASSUME NEW d \in Calls, call'[d].pc = "refresh"
      PROVE /\ tokens'[call'[d].tok].family # None
            /\ ~call'[d].early => tokens'[call'[d].tok].family \in reused' /\ tokens'[call'[d].tok].stray
  BY <1>0, <1>1, <1>5 DEF TokensInv, FamiliesIs
<1>. QED
  BY <1>2, <1>3, <1>4, <1>5 DEF TokensInv, FamiliesIs

LEMMA RefreshTokens == ASSUME TokensInv, Typed, NEW c \in Calls, Begins(c), call'[c].pc = "refresh" PROVE TokensInv'
<1>0. /\ \A s \in Tokens : tokens[s].family \in Tokens \cup {None}
      /\ reused \subseteq Tokens /\ \A d \in Calls : call[d].pc = "refresh" => call[d].tok \in Tokens
      /\ \A s \in Tokens : tokens[s].live => tokens[s].family # None
  BY DEF Typed, RowsTyped, SessionRowsTyped, Token, TokenIs, CallsTyped, CallIs
<1>1. UNCHANGED <<tokens, reused>> /\ \A d \in Calls : d # c => call'[d] = call[d]
  BY BegunBy DEF sessionVars
<1>2. PICK t \in Tokens : BeginRefresh(c, t)
  BY BegunBy
<1>3. tokens[t].live /\ call'[c].tok = t /\ (call'[c].early <=> tokens[t].family \notin reused)
  <2>. DEFINE early == tokens[t].family \notin reused
  <2>1. call' = [call EXCEPT ![c] = [Blank EXCEPT !.pc = "refresh", !.tok = t, !.who = tokens[t].user, !.early = early]]
    BY <1>2 DEF BeginRefresh
  <2>. HIDE DEF early
  <2>2. call'[c].tok = t /\ call'[c].early = early
    BY <2>1, BlankCall DEF Call, Typed, CallsTyped
  <2>. QED
    BY <2>2, <1>2 DEF early, BeginRefresh
<1>4. ReusedFamilyDies'
  BY <1>1 DEF TokensInv, ReusedFamilyDies
<1>5. ASSUME NEW d \in Calls, call'[d].pc = "refresh"
      PROVE /\ tokens'[call'[d].tok].family # None
            /\ ~call'[d].early => tokens'[call'[d].tok].family \in reused' /\ tokens'[call'[d].tok].stray
  <2>1. CASE d = c
    BY <2>1, <1>0, <1>1, <1>3 DEF TokensInv, ReusedFamilyDies
  <2>2. CASE d # c
    BY <2>2, <1>1, <1>5 DEF TokensInv, FamiliesIs
  <2>. QED
    BY <2>1, <2>2
<1>. QED
  BY <1>1, <1>4, <1>5 DEF TokensInv, FamiliesIs

LEMMA MovesTokens == ASSUME Typed, TokensInv, Moves PROVE TokensInv'
<1>t. Typed'
  BY MovesTyped DEF TokensInv
<1>. DEFINE Same == \A t \in Tokens : /\ tokens'[t].family = tokens[t].family /\ tokens'[t].stray = tokens[t].stray
                                      /\ tokens'[t].live => tokens[t].live
            Quiet == /\ reused' = reused /\ \A c \in Calls : call'[c].pc = "refresh" => call'[c] = call[c]
<1>q. Same /\ Quiet => TokensInv'
  BY <1>t, TokensKept
<1>s. tokens' = tokens => Same
  OBVIOUS
<1>r. ASSUME NEW S \in SUBSET Tokens, tokens' = Revoked(S) PROVE Same
  BY <1>r, TokensRevoked DEF Typed, RowsTyped
<1>w. \A c \in Calls : call[c].pc \in Told => call[c].who \in Users
  BY DEF Typed, CallsTyped, CallIs
<1>1. ASSUME NEW c \in Calls, Begins(c) PROVE TokensInv'
  <2>1. CASE call'[c].pc = "refresh"
    BY <1>1, <2>1, RefreshTokens
  <2>2. CASE call'[c].pc # "refresh"
    BY <1>1, <2>2, <1>q, <1>s, BegunBy DEF sessionVars
  <2>. QED
    BY <2>1, <2>2
<1>2. ASSUME NEW c \in Calls, Finish(c), reused' = reused PROVE Quiet
  BY <1>2, FinishIs
<1>3. ASSUME NEW c \in Calls, Finish(c), reused' = reused, NEW u \in Users, Mint(u) PROVE TokensInv'
  BY <1>3, <1>2, MintTokens
<1>4. ASSUME NEW c \in Calls, IssueTokens(c) PROVE TokensInv'
  BY <1>4, <1>3, <1>w DEF IssueTokens, Told, Asking
<1>5. ASSUME NEW c \in Calls, FinishOAuth(c) PROVE TokensInv'
  <2>1. PICK u : Mint(u) /\ u = IF call[c].who # None THEN call[c].who ELSE CHOOSE x \in FreeUsers : TRUE
    BY <1>5 DEF FinishOAuth
  <2>2. u \in Users
    BY <2>1, <1>5 DEF FinishOAuth, FreeUsers, Typed, CallsTyped, Call
  <2>. QED
    BY <1>5, <2>1, <2>2, <1>3 DEF FinishOAuth
<1>6. ASSUME NEW c \in Calls, CompleteSignup(c) PROVE TokensInv'
  <2>1. PICK u \in Users : Mint(u)
    BY <1>6 DEF CompleteSignup, FreeUsers, Adoptable, ByEmail
  <2>. QED
    BY <1>6, <2>1, <1>3 DEF CompleteSignup
<1>7. ASSUME NEW c \in Calls, CreateReset(c) \/ SavePassword(c) \/ FinishLink(c) \/ FinishUnlink(c) \/ SaveProfile(c) \/ FinishRestore(c)
      PROVE TokensInv'
  BY <1>7, <1>2, <1>q, <1>s DEF CreateReset, SavePassword, FinishLink, FinishUnlink, SaveProfile, FinishRestore, sessionVars
<1>8. ASSUME NEW c \in Calls, ResetPassword(c) \/ FinishSuspend(c) PROVE TokensInv'
  <2>1. {t \in Tokens : tokens[t].user = call[c].who} \in SUBSET Tokens
    OBVIOUS
  <2>. QED
    BY <1>8, <2>1, <1>2, <1>q, <1>r DEF ResetPassword, FinishSuspend
<1>9. ASSUME NEW c \in Calls, SaveSignup(c) \/ DispatchCode(c) \/ RecordVerify(c) \/ Closed(c) PROVE TokensInv'
  BY <1>9, <1>2, <1>q, <1>s DEF SaveSignup, DispatchCode, RecordVerify, Closed, sessionVars
<1>10. ASSUME NEW c \in Calls, EraseObjects(c) \/ (\E code \in mail \cup {None} : CheckEmailCode(c, code)) \/ (\E right \in BOOLEAN : CheckPhoneCode(c, right))
      PROVE TokensInv'
  <2>1. Quiet /\ tokens' = tokens
    BY <1>10 DEF EraseObjects, CheckEmailCode, CheckPhoneCode, sessionVars, Typed, CallsTyped, Call
  <2>. QED
    BY <2>1, <1>q, <1>s
<1>11. ASSUME NEW c \in Calls, CommitErase(c) PROVE TokensInv'
  <2>1. Quiet
    BY Zenon, <1>11, <1>2 DEF CommitErase
  <2>2. Same
    BY Zenon, <1>11 DEF CommitErase, Typed, RowsTyped, SessionRowsTyped, Token
  <2>. QED
    BY <2>1, <2>2, <1>q
<1>12. CASE Clock
  <2>1. CASE Ending
    <3>1. Same
      BY <2>1, <1>r DEF Ending
    <3>2. Quiet
      BY <2>1, FinishIs DEF Ending
    <3>. QED
      BY <3>1, <3>2, <1>q
  <2>2. ASSUME \/ \E i \in Signups : Expire(i) \/ DropExpired(i)
               \/ \E u \in Users, d \in Documents : CreateUpload(u, d)
               \/ \E d \in Documents : PutObject(d)
               \/ \E u \in Users, q \in Requests : OpenRequest(u, q)
               \/ \E q \in Requests : DispatchRequest(q)
        PROVE TokensInv'
    BY <2>2, <1>q, <1>s DEF Expire, DropExpired, CreateUpload, PutObject, OpenRequest, DispatchRequest, sessionVars
  <2>. QED
    BY <1>12, <2>1, <2>2, ReusedTokens DEF Clock
<1>13. CASE UNCHANGED vars
  BY <1>13, <1>q, <1>s DEF vars, sessionVars
<1>14. ASSUME NEW c \in Calls, Rotate(c) PROVE TokensInv'
  BY <1>14, RotateTokens
<1>. HIDE DEF Same, Quiet
<1>. QED
  BY <1>1, <1>4, <1>5, <1>6, <1>7, <1>8, <1>9, <1>10, <1>11, <1>12, <1>13, <1>14 DEF Moves, SignupEnds, SessionEnds

--------------------------------------------------------------------------------
(* What becomes of a user's row: its address and password stay until it is       *)
(* erased, and an erased row stays erased.                                       *)
ErasersIs == \A c \in Calls : call[c].pc \in {"erase", "objects"} => ~call[c].view.deleted

\* Stated of the row before and the row after.
UserStep(old, new) ==
  /\ old.deleted => new.deleted
  /\ old.email # None /\ ~new.deleted => new.email = old.email
  /\ old.password /\ ~new.deleted => new.password

LEMMA MovesErasers == ASSUME Typed, ErasersIs, Moves PROVE ErasersIs'
<1>. DEFINE Quiet == \A c \in Calls : call'[c].pc \in {"erase", "objects"} =>
                        call[c].pc \in {"erase", "objects"} /\ call'[c].view = call[c].view
<1>q. Quiet => ErasersIs'
  BY DEF ErasersIs
<1>1. ASSUME NEW c \in Calls, Begins(c) PROVE ErasersIs'
  <2>1. CASE call'[c].pc = "erase"
    <3>1. PICK u \in Users : BeginErase(c, u)
      BY <1>1, <2>1, BegunBy
    <3>2. call'[c].view = users[u] /\ ~users[u].deleted
      BY <3>1, BlankCall DEF BeginErase, Found, Call, Typed, CallsTyped
    <3>. QED
      BY <1>1, <3>2, BegunBy DEF ErasersIs
  <2>2. CASE call'[c].pc # "erase"
    BY <1>1, <2>2, BegunBy, <1>q
  <2>. QED
    BY <2>1, <2>2
<1>2. ASSUME NEW c \in Calls, Finish(c) PROVE ErasersIs'
  BY <1>2, <1>q, FinishIs
<1>3. ASSUME NEW c \in Calls, EraseObjects(c) \/ (\E code \in mail \cup {None} : CheckEmailCode(c, code)) \/ (\E right \in BOOLEAN : CheckPhoneCode(c, right))
      PROVE ErasersIs'
  <2>1. Quiet
    BY <1>3 DEF EraseObjects, CheckEmailCode, CheckPhoneCode, Typed, CallsTyped, Call
  <2>. QED
    BY <2>1, <1>q
<1>4. CASE Clock
  <2>1. call' = call \/ \E c \in Calls : Finish(c)
    BY Zenon, <1>4 DEF Clock, Ending, Expire, DropExpired, RefuseReused, CreateUpload, PutObject, OpenRequest, DispatchRequest
  <2>. QED
    BY <2>1, <1>2, <1>q
<1>5. CASE UNCHANGED vars
  BY <1>5, <1>q DEF vars
<1>6. ASSUME NEW c \in Calls, SaveSignup(c) \/ DispatchCode(c) \/ RecordVerify(c) \/ CompleteSignup(c) \/ Closed(c) \/ CommitErase(c)
      PROVE ErasersIs'
  BY Zenon, <1>6, <1>2 DEF SaveSignup, DispatchCode, RecordVerify, CompleteSignup, Closed, CommitErase
<1>. HIDE DEF Quiet
<1>. QED
  BY <1>1, <1>2, <1>3, <1>4, <1>5, <1>6, SessionFrame DEF Moves, SignupEnds

LEMMA ErasedRow ==
  ASSUME Typed, ErasersIs, NEW c \in Calls, CommitErase(c)
  PROVE LET u == call[c].who IN
        /\ u \in Users /\ users'[u].deleted /\ \A v \in Users : v # u => users'[v] = users[v]
<1>. DEFINE u == call[c].who
            row == Written(users[u], call[c].view, Tombstone(call[c].view))
<1>1. u \in Users /\ users \in [Users -> User] /\ call[c].view \in User /\ ~call[c].view.deleted
  BY Zenon DEF Typed, RowsTyped, CallsTyped, CallIs, Call, Told, CommitErase, ErasersIs
<1>2. Tombstone(call[c].view).deleted
  BY <1>1 DEF Tombstone, User
<1>3. row \in User /\ row.deleted
  <2>1. Tombstone(call[c].view) \in User
    BY <1>1 DEF Tombstone, User
  <2>2. row \in User
    BY <1>1, <2>1, WrittenUser
  <2>3. row.deleted
    BY <1>1, <1>2 DEF Written, User
  <2>. QED
    BY <2>2, <2>3
<1>4. users' = [users EXCEPT ![u] = [row EXCEPT !.links = [p \in Providers |-> None]]]
  BY Zenon DEF CommitErase
<1>. HIDE DEF row, u
<1>. QED
  BY <1>1, <1>3, <1>4 DEF u, User

LEMMA MovesUsers ==
  ASSUME Typed, ErasersIs, Moves, NEW v \in Users
  PROVE /\ UserStep(users[v], users'[v])
        /\ users'[v].deleted /\ ~users[v].deleted => \E c \in Calls : CommitErase(c) /\ call[c].who = v
<1>. DEFINE Goal == /\ UserStep(users[v], users'[v])
                    /\ users'[v].deleted /\ ~users[v].deleted => \E c \in Calls : CommitErase(c) /\ call[c].who = v
<1>0. users \in [Users -> User] /\ \A c \in Calls : call[c].pc \in Told => call[c].who \in Users
  BY DEF Typed, RowsTyped, CallsTyped, CallIs
<1>s. users'[v] = users[v] => Goal
  BY DEF UserStep
<1>1. ASSUME NEW c \in Calls, Begins(c) PROVE Goal
  BY <1>1, BegunBy, <1>s
<1>2. ASSUME NEW c \in Calls, \/ SaveSignup(c) \/ DispatchCode(c) \/ RecordVerify(c) \/ Closed(c) \/ EraseObjects(c)
                              \/ (\E code \in mail \cup {None} : CheckEmailCode(c, code)) \/ (\E right \in BOOLEAN : CheckPhoneCode(c, right))
                              \/ IssueTokens(c) \/ Rotate(c) \/ CreateReset(c)
      PROVE Goal
  BY <1>2, <1>s DEF SaveSignup, DispatchCode, RecordVerify, Closed, EraseObjects, CheckEmailCode, CheckPhoneCode, IssueTokens, Rotate, CreateReset
<1>3. ASSUME Clock \/ UNCHANGED vars PROVE Goal
  BY <1>3, <1>s DEF Clock, Ending, Expire, DropExpired, RefuseReused, CreateUpload, PutObject, OpenRequest, DispatchRequest, vars
<1>4. ASSUME NEW c \in Calls, ResetPassword(c) \/ SavePassword(c) PROVE Goal
  <2>1. users' = [users EXCEPT ![call[c].who].password = TRUE]
    BY <1>4 DEF ResetPassword, SavePassword
  <2>. QED
    BY <2>1, <1>0 DEF UserStep, User
<1>5. ASSUME NEW c \in Calls, NEW b \in BOOLEAN, users' = [users EXCEPT ![call[c].who].active = b] PROVE Goal
  BY <1>5, <1>0 DEF UserStep, User
<1>6. ASSUME NEW c \in Calls, FinishSuspend(c) \/ FinishRestore(c) PROVE Goal
  BY <1>6, <1>5 DEF FinishSuspend, FinishRestore
<1>7. ASSUME NEW c \in Calls, FinishLink(c) \/ FinishUnlink(c) PROVE Goal
  <2>1. CASE FinishLink(c)
    BY <2>1, <1>0 DEF FinishLink, UserStep, User
  <2>2. CASE FinishUnlink(c)
    BY <2>2, <1>0 DEF FinishUnlink, UserStep, User
  <2>. QED
    BY <1>7, <2>1, <2>2
<1>8. ASSUME NEW c \in Calls, SaveProfile(c) PROVE Goal
  <2>. DEFINE view == call[c].view
              new == [view EXCEPT !.phone = call[c].phone, !.phoneOK = @ /\ view.phone = call[c].phone]
              row == Written(users[call[c].who], view, new)
  <2>1. call[c].who \in Users /\ view \in User
    BY <1>8, <1>0 DEF SaveProfile, Told, Typed, CallsTyped, Call
  <2>2. new.email = view.email /\ new.password = view.password /\ new.deleted = view.deleted
    BY <2>1 DEF User
  <2>3. /\ row.email = users[call[c].who].email /\ row.password = users[call[c].who].password
        /\ row.deleted = users[call[c].who].deleted
    <3>1. users[call[c].who] \in User
      BY <2>1, <1>0
    <3>. HIDE DEF new, view
    <3>. QED
      BY <2>2, <3>1 DEF Written, User
  <2>4. users' = [users EXCEPT ![call[c].who] = row]
    BY <1>8 DEF SaveProfile
  <2>. HIDE DEF row
  <2>. QED
    BY <2>1, <2>3, <2>4, <1>0 DEF UserStep
<1>9. ASSUME NEW c \in Calls, FinishOAuth(c) PROVE Goal
  <2>. DEFINE k == call[c]
              u == IF k.who # None THEN k.who ELSE CHOOSE x \in FreeUsers : TRUE
              base == IF k.who # None THEN users[u] ELSE [NoUser EXCEPT !.email = k.email, !.active = TRUE]
              row == [base EXCEPT !.emailOK = TRUE, !.links[k.prov] = k.email]
  <2>1. users' = [users EXCEPT ![u] = row]
    BY <1>9 DEF FinishOAuth
  <2>2. u \in Users /\ (k.who = None => users[u] = NoUser)
    BY <1>9 DEF FinishOAuth, Call, FreeUsers, Typed, CallsTyped
  <2>3. base.email = row.email /\ base.password = row.password /\ base.deleted = row.deleted
    <3>1. base \in User
      BY <2>2, <1>0, BlankRows, <1>9 DEF User, Typed, CallsTyped, CallIs, FinishOAuth
    <3>. HIDE DEF base, k
    <3>. QED
      BY <3>1 DEF User
  <2>4. /\ base.deleted = users[u].deleted /\ base.password = users[u].password
        /\ users[u].email # None => base.email = users[u].email
    <3>1. CASE k.who # None
      BY <3>1
    <3>2. CASE k.who = None
      <4>1. base = [NoUser EXCEPT !.email = k.email, !.active = TRUE] /\ users[u] = NoUser
        BY <2>2, <3>2
      <4>2. base.deleted = NoUser.deleted /\ base.password = NoUser.password /\ NoUser.email = None
        BY <4>1 DEF NoUser
      <4>. QED
        BY <4>1, <4>2
    <3>. QED
      BY <3>1, <3>2
  <2>. HIDE DEF row, base, u
  <2>. QED
    BY <2>1, <2>2, <2>3, <2>4, <1>0 DEF UserStep
<1>10. ASSUME NEW c \in Calls, CompleteSignup(c) PROVE Goal
  <2>1. CASE users' = users
    BY <2>1, <1>s
  <2>2. CASE \E u \in FreeUsers : users' = [users EXCEPT ![u] = NewAccount(call[c].seen)]
    BY <2>2, <1>0 DEF FreeUsers, NoUser, UserStep, NewAccount
  <2>. QED
    BY <1>10, <2>1, <2>2 DEF CompleteSignup
<1>11. ASSUME NEW c \in Calls, CommitErase(c) PROVE Goal
  BY <1>11, ErasedRow, <1>s DEF UserStep
<1>. HIDE DEF Goal
<1>. QED
  BY <1>1, <1>2, <1>3, <1>4, <1>6, <1>7, <1>8, <1>9, <1>10, <1>11 DEF Moves, SignupEnds, SessionEnds, Goal

--------------------------------------------------------------------------------
(* Sign-ups: a completed one names an account that is there, and, unless a start   *)
(* was saved to it meanwhile, whoever else completes it read the account's address.*)
SignupCall(k) ==
  /\ k.pc \in Edits =>
       /\ k.new.email # None /\ k.new.done = k.seen.done
       /\ IF k.id = None THEN k.new.done = None /\ (k.new.password \/ k.new.google)
          ELSE k.new.google = k.seen.google /\ (k.new.password \/ ~k.seen.password)
  /\ k.pc = "complete" => k.seen.password \/ k.seen.google
SignupRow(row) ==
  IF row.done # None THEN row.email # None /\ users[row.done].email # None /\ ~users[row.done].deleted
  ELSE row.email = None \/ row.password \/ row.google
CompletionReads(c, i) ==
  Completing(c, i) /\ There(i) =>
    /\ signups[i].email = call[c].seen.email
    /\ signups[i].done # None => users[signups[i].done].email = call[c].seen.email
SignupsIs ==
  /\ \A c \in Calls : SignupCall(call[c])
  /\ \A i \in Signups : SignupRow(signups[i])
  /\ \A c \in Calls, i \in Signups \ restarted : CompletionReads(c, i)
Stays ==
  \A i \in Signups \ restarted : signups[i].done # None => signups'[i].done = signups[i].done \/ signups'[i].email = None

LEMMA AtMostOne == ASSUME NEW S, IsFiniteSet(S), Cardinality(S) <= 1, NEW x \in S, NEW y \in S PROVE x = y
<1>. SUFFICES ASSUME x # y PROVE FALSE
  OBVIOUS
<1>1. {x, y} \subseteq S /\ IsFiniteSet({x}) /\ Cardinality({x}) = 1
  BY FS_Singleton
<1>2. Cardinality({x} \cup {y}) = 2 /\ IsFiniteSet({x} \cup {y})
  BY <1>1, FS_AddElement
<1>3. {x} \cup {y} \subseteq S /\ Cardinality({x} \cup {y}) <= Cardinality(S) /\ Cardinality(S) \in Nat
  BY <1>1, <1>2, FS_Subset, FS_CardinalityType
<1>. QED
  BY <1>2, <1>3

LEMMA WrittenFields ==
  ASSUME NEW a \in Signup, NEW b \in Signup, NEW d \in Signup
  PROVE /\ Written(a, b, d).done = IF d.done # b.done THEN d.done ELSE a.done
        /\ Written(a, b, d).email = IF d.email # b.email THEN d.email ELSE a.email
        /\ Written(a, b, d).password = IF d.password # b.password THEN d.password ELSE a.password
        /\ Written(a, b, d).google = IF d.google # b.google THEN d.google ELSE a.google
  BY DEF Written, Signup

\* What a call reads of a sign-up before it writes to it.
LEMMA BegunSignup == ASSUME Typed, SignupsIs, NEW c \in Calls, Begins(c) PROVE SignupCall(call'[c])
<1>0. signups \in [Signups -> Signup] /\ call \in [Calls -> Call]
  BY DEF Typed, RowsTyped, SignupRowsTyped, CallsTyped
<1>1. ASSUME NEW e \in Emails, NEW p \in Phones \cup {None}, NEW kind \in Kinds, StartSignup(c, e, p, kind) PROVE SignupCall(call'[c])
  <2>. DEFINE rows == {i \in Signups : signups[i].email = e \/ (p # None /\ signups[i].phone = p)}
              gone == {i \in rows : signups[i].done = None /\ signups[i].expired}
              kept == rows \ gone
              google == \E i \in kept : signups[i].google
              new == [NoSignup EXCEPT !.email = e, !.phone = p, !.kind = kind, !.password = TRUE, !.google = google]
              id == IF kept = {} THEN None ELSE CHOOSE i \in kept : TRUE
              seen == IF kept = {} THEN NoSignup ELSE signups[CHOOSE i \in kept : TRUE]
              k == [Blank EXCEPT !.pc = "start", !.gone = gone, !.new = new, !.id = id, !.seen = seen]
  <2>1. call' = [call EXCEPT ![c] = k] /\ Restartable(kept, kind)
    BY <1>1 DEF StartSignup
  <2>2. kept # {} => id \in kept /\ id \in Signups /\ seen = signups[id] /\ seen.done = None
    BY <2>1 DEF Restartable
  <2>3. kept # {} => kept = {id}
    <3>1. IsFiniteSet(kept)
      BY AccountAssumption, FS_Subset
    <3>. QED
      BY <2>1, <2>2, <3>1, AtMostOne DEF Restartable
  <2>4. kept = {} => id = None /\ seen.done = None
    BY DEF NoSignup
  <2>5. new.email = e /\ new.done = None /\ new.password = TRUE /\ new.google = google
    BY DEF NoSignup
  <2>6. kept # {} => (google <=> seen.google) /\ seen.google \in BOOLEAN /\ google \in BOOLEAN
    BY <2>2, <2>3, <1>0 DEF Signup
  <2>7. id # None => kept # {}
    BY <2>4
  <2>8. seen.done = None
    BY <2>2, <2>4
  <2>9. id # None => new.google = seen.google
    BY <2>5, <2>6, <2>7
  <2>. HIDE DEF kept, gone, google, new, id, seen
  <2>10. call'[c].pc = "start" /\ call'[c].new = new /\ call'[c].id = id /\ call'[c].seen = seen
    BY <2>1, <1>0, BlankCall DEF Call
  <2>. QED
    BY <2>5, <2>8, <2>9, <2>10, AccountAssumption DEF SignupCall, Edits
<1>2. ASSUME NEW e \in Emails, BeginGoogleSignup(c, e) PROVE SignupCall(call'[c])
  <2>. DEFINE new == [NoSignup EXCEPT !.email = e, !.google = TRUE, !.emailOK = TRUE]
              gone == {i \in Signups : signups[i].email = e}
              k == [Blank EXCEPT !.pc = "google", !.gone = gone, !.new = new]
  <2>1. call' = [call EXCEPT ![c] = k]
    BY <1>2 DEF BeginGoogleSignup
  <2>2. new.email = e /\ new.done = None /\ new.google = TRUE
    BY DEF NoSignup
  <2>. HIDE DEF new, gone
  <2>3. call'[c].pc = "google" /\ call'[c].new = new /\ call'[c].id = None /\ call'[c].seen = NoSignup
    BY <2>1, <1>0, BlankCall DEF Call, Blank
  <2>. QED
    BY <2>2, <2>3, AccountAssumption DEF SignupCall, Edits, NoSignup
<1>3. ASSUME NEW i \in Signups, NEW p \in Phones, BeginGooglePhone(c, i, p) PROVE SignupCall(call'[c])
  <2>. DEFINE new == [signups[i] EXCEPT !.phone = p, !.phoneOK = FALSE]
              k == [Blank EXCEPT !.pc = "googlephone", !.id = i, !.seen = signups[i], !.new = new]
  <2>1. call' = [call EXCEPT ![c] = k] /\ signups[i].email # None
    BY <1>3 DEF BeginGooglePhone, Active, There
  <2>2. /\ new.email = signups[i].email /\ new.done = signups[i].done /\ new.google = signups[i].google
        /\ new.password = signups[i].password /\ new.password \in BOOLEAN
    BY <1>0 DEF Signup
  <2>. HIDE DEF new
  <2>3. call'[c].pc = "googlephone" /\ call'[c].new = new /\ call'[c].id = i /\ call'[c].seen = signups[i]
    BY <2>1, <1>0, BlankCall DEF Call
  <2>. QED
    BY <2>1, <2>2, <2>3, AccountAssumption DEF SignupCall, Edits
<1>4. ASSUME NEW i \in Signups, BeginComplete(c, i), call'[c].pc = "complete" PROVE SignupCall(call'[c])
  <2>1. call'[c].seen = signups[i] /\ signups[i].done = None /\ signups[i].email # None
    <3>. DEFINE k == [Blank EXCEPT !.pc = "complete", !.id = i, !.seen = signups[i]]
                l == [Blank EXCEPT !.pc = "mint", !.who = signups[i].done]
    <3>1. /\ call' = [call EXCEPT ![c] = l] \/ (call' = [call EXCEPT ![c] = k] /\ signups[i].done = None)
          /\ signups[i].email # None
      BY <1>4 DEF BeginComplete, There
    <3>2. k.seen = signups[i] /\ l.pc = "mint"
      BY BlankCall DEF Call
    <3>. HIDE DEF k, l
    <3>. QED
      BY <3>1, <3>2, <1>4, <1>0
  <2>. QED
    BY <2>1, <1>4 DEF SignupCall, Edits, SignupsIs, SignupRow
<1>5. CASE call'[c].pc \notin Edits \cup {"complete"}
  BY <1>5 DEF SignupCall
<1>. QED
  BY <1>1, <1>2, <1>3, <1>4, <1>5, BegunBy

\* Nothing happened to the sign-ups, and nobody was erased.
Plain(k) ==
  /\ SignupCall(k)
  /\ \A i \in Signups : k.pc = "complete" /\ k.id = i =>
       signups[i].email = k.seen.email /\ signups[i].done = None
LEMMA SignupsKept ==
  ASSUME Typed, SignupsIs, signups' = signups, restarted \subseteq restarted',
         \A c \in Calls : call'[c] = call[c] \/ Plain(call'[c]),
         \A u \in Users : UserStep(users[u], users'[u]) /\ (users'[u].deleted => users[u].deleted)
  PROVE SignupsIs' /\ Stays
<1>0. \A i \in Signups : signups[i].done \in Users \cup {None}
  BY DEF Typed, RowsTyped, SignupRowsTyped, Signup
<1>1. ASSUME NEW c \in Calls PROVE SignupCall(call'[c])
  BY DEF SignupsIs, Plain
<1>2. ASSUME NEW i \in Signups PROVE SignupRow(signups[i])'
  BY <1>0 DEF SignupsIs, SignupRow, UserStep
<1>3. ASSUME NEW c \in Calls, NEW i \in Signups \ restarted' PROVE CompletionReads(c, i)'
  <2>1. SUFFICES ASSUME Completing(c, i)', There(i)' PROVE CompletionReads(c, i)'
    BY DEF CompletionReads
  <2>2. CASE call'[c] = call[c]
    <3>2. Completing(c, i) /\ There(i) /\ i \notin restarted
      BY <2>1, <2>2 DEF Completing, There
    <3>3. CompletionReads(c, i) /\ SignupRow(signups[i])
      BY <3>2 DEF SignupsIs
    <3>. QED
      BY <2>1, <2>2, <3>2, <3>3, <1>0 DEF CompletionReads, SignupRow, UserStep
  <2>3. CASE Plain(call'[c])
    BY <2>1, <2>3 DEF Plain, CompletionReads, Completing
  <2>. QED
    BY <2>2, <2>3
<1>. QED
  BY <1>1, <1>2, <1>3 DEF SignupsIs, Stays

LEMMA DonePlain == Plain(Done)
  BY DoneIs DEF Plain, SignupCall, Edits

\* Sign-ups are left as they are or deleted, those of whoever is erased among them.
LEMMA SignupsTrimmed ==
  ASSUME Typed, SignupsIs, restarted \subseteq restarted',
         \A d \in Calls : call'[d] = call[d] \/ call'[d] = Done,
         \A j \in Signups :
           \/ signups'[j].done = None /\ signups'[j].email = None
           \/ /\ signups'[j].done = signups[j].done /\ signups'[j].email = signups[j].email
              /\ signups'[j].password = signups[j].password /\ signups'[j].google = signups[j].google
              /\ signups[j].done # None => users'[signups[j].done] = users[signups[j].done]
  PROVE SignupsIs' /\ Stays
<1>1. ASSUME NEW j \in Signups PROVE SignupRow(signups[j])'
  BY DEF SignupsIs, SignupRow
<1>2. ASSUME NEW d \in Calls PROVE SignupCall(call'[d])
  BY DonePlain DEF SignupsIs, Plain
<1>3. ASSUME NEW d \in Calls, NEW j \in Signups \ restarted' PROVE CompletionReads(d, j)'
  <2>1. SUFFICES ASSUME Completing(d, j)', There(j)' PROVE CompletionReads(d, j)'
    BY DEF CompletionReads
  <2>2. call'[d] = call[d] /\ Completing(d, j) /\ There(j) /\ j \notin restarted
    BY <2>1, DoneIs DEF Completing, There
  <2>3. CompletionReads(d, j)
    BY <2>2 DEF SignupsIs
  <2>. QED
    BY <2>1, <2>2, <2>3 DEF CompletionReads, There
<1>4. Stays
  BY DEF Stays
<1>. QED
  BY <1>1, <1>2, <1>3, <1>4 DEF SignupsIs

LEMMA SaveSignups == ASSUME Typed, SignupsIs, NEW c \in Calls, SaveSignup(c) PROVE SignupsIs' /\ Stays
<1>. DEFINE k == call[c]
            left == [i \in Signups |-> IF i \in k.gone THEN NoSignup ELSE signups[i]]
            i == IF k.id # None \/ FreeSignups = {} THEN k.id ELSE CHOOSE j \in FreeSignups : TRUE
            w == Written(left[i], k.seen, k.new)
            row == IF k.id = None THEN k.new ELSE [w EXCEPT !.expired = @ /\ k.pc # "start"]
<1>0. /\ signups \in [Signups -> Signup] /\ call \in [Calls -> Call] /\ k \in Call /\ k.pc \in Edits
      /\ SignupCall(k) /\ call'[c] = Done /\ (\A d \in Calls : d # c => call'[d] = call[d]) /\ users' = users
  BY FinishIs DEF Typed, RowsTyped, SignupRowsTyped, CallsTyped, SaveSignup, Edits, SignupsIs
<1>1. restarted' = restarted \cup {j \in Signups : j = k.id /\ \E d \in Calls : Completing(d, j)}
  BY DEF SaveSignup
<1>2. signups' = signups \/ (i # None /\ (k.id # None => left[i].email # None) /\ signups' = [left EXCEPT ![i] = row])
  BY DEF SaveSignup, Saved
<1>3. CASE signups' = signups
  BY <1>0, <1>1, <1>3, SignupsKept, DonePlain DEF UserStep
<1>4. CASE i # None /\ (k.id # None => left[i].email # None) /\ signups' = [left EXCEPT ![i] = row]
  <2>1. i \in Signups /\ k.seen \in Signup /\ k.new \in Signup /\ left \in [Signups -> Signup]
    BY <1>0, <1>4, BlankRows DEF Call, FreeSignups
  <2>2. \A j \in Signups : signups'[j] = IF j = i THEN row ELSE left[j]
    BY <1>4, <2>1
  <2>3. \A j \in Signups : left[j] = signups[j] \/ left[j] = NoSignup
    OBVIOUS
  <2>4. k.id # None => i = k.id /\ left[i] = signups[i] /\ signups[i].email # None
    BY <1>4, <2>1 DEF NoSignup
  <2>5. k.id = None => i \in FreeSignups
    BY <1>4
  <2>6. SignupRow(row)
    <3>1. CASE k.id = None
      BY <3>1, <1>0, AccountAssumption DEF SignupCall, SignupRow
    <3>2. CASE k.id # None
      <4>1. row.done = w.done /\ row.password = w.password /\ row.google = w.google /\ row.email = w.email
        <5>1. w \in Signup
          <6>. HIDE DEF left, i, k
          <6>. QED
            BY <2>1, WrittenSignup
        <5>. HIDE DEF w, k
        <5>. QED
          BY <5>1, <3>2 DEF Signup
      <4>2. /\ w.done = signups[i].done /\ w.google = signups[i].google
            /\ signups[i].password => w.password
            /\ signups[i].email # None => w.email # None
        <5>1. /\ k.new.done = k.seen.done /\ k.new.google = k.seen.google /\ (k.new.password \/ ~k.seen.password)
              /\ k.new.email # None
          BY <1>0, <3>2 DEF SignupCall
        <5>2. left[i] \in Signup /\ left[i] = signups[i]
          BY <2>1, <2>4, <3>2
        <5>. HIDE DEF left, i, k
        <5>3. /\ w.done = left[i].done /\ w.google = left[i].google
              /\ w.password = IF k.new.password # k.seen.password THEN k.new.password ELSE left[i].password
              /\ w.email = IF k.new.email # k.seen.email THEN k.new.email ELSE left[i].email
          BY <5>1, <5>2, <2>1, WrittenFields
        <5>4. k.new.password \in BOOLEAN /\ k.seen.password \in BOOLEAN /\ left[i].password \in BOOLEAN
          BY <2>1, <5>2 DEF Signup
        <5>. QED
          BY <5>1, <5>2, <5>3, <5>4
      <4>3. SignupRow(signups[i]) /\ signups[i].email # None
        BY <2>1, <2>4, <3>2 DEF SignupsIs
      <4>. HIDE DEF row, w, i
      <4>. QED
        BY <4>1, <4>2, <4>3 DEF SignupRow
    <3>. QED
      BY <3>1, <3>2
  <2>6b. k.id # None => row.done = signups[i].done
    <3>1. SUFFICES ASSUME k.id # None PROVE row.done = w.done /\ w.done = signups[i].done
      OBVIOUS
    <3>2. left[i] \in Signup /\ left[i] = signups[i] /\ k.new.done = k.seen.done
      BY <2>1, <2>4, <3>1, <1>0 DEF SignupCall
    <3>3. w \in Signup /\ w.done = left[i].done
      <4>. HIDE DEF left, i, k
      <4>1. w \in Signup
        BY Zenon, <2>1, <3>2, WrittenSignup
      <4>2. w.done = IF k.new.done # k.seen.done THEN k.new.done ELSE left[i].done
        BY Zenon, <2>1, <3>2, WrittenFields
      <4>. QED
        BY <4>1, <4>2, <3>2
    <3>4. row = [w EXCEPT !.expired = @ /\ k.pc # "start"]
      BY <3>1
    <3>. HIDE DEF w, k, row
    <3>5. row.done = w.done
      BY <3>3, <3>4 DEF Signup
    <3>. QED
      BY Zenon, <3>2, <3>3, <3>5
  <2>7. ASSUME NEW j \in Signups PROVE SignupRow(signups[j])'
    <3>1. CASE j = i
      BY <3>1, <2>2, <2>6, <1>0 DEF SignupRow
    <3>2. CASE j # i /\ left[j] = signups[j]
      <4>1. signups'[j] = signups[j]
        BY <3>2, <2>2
      <4>. QED
        BY <4>1, <1>0 DEF SignupRow, SignupsIs
    <3>3. CASE j # i /\ left[j] = NoSignup
      <4>1. signups'[j] = NoSignup
        BY <3>3, <2>2
      <4>2. signups'[j].done = None /\ signups'[j].email = None
        BY <4>1 DEF NoSignup
      <4>. QED
        BY <4>2 DEF SignupRow
    <3>. QED
      BY <3>1, <3>2, <3>3, <2>3
  <2>8. ASSUME NEW d \in Calls, NEW j \in Signups \ restarted' PROVE CompletionReads(d, j)'
    <3>1. SUFFICES ASSUME Completing(d, j)', There(j)' PROVE CompletionReads(d, j)'
      BY DEF CompletionReads
    <3>2. d # c /\ call'[d] = call[d] /\ Completing(d, j) /\ j \notin restarted
      BY <3>1, <1>0, <1>1, DoneIs DEF Completing
    <3>3. j # i
      BY <3>2, <2>4, <2>5, <1>1 DEF FreeSignups, Completing
    <3>4. signups'[j] = signups[j]
      <4>1. signups'[j].email # None
        BY <3>1 DEF There
      <4>2. signups'[j] = left[j]
        BY <3>3, <2>2
      <4>3. NoSignup.email = None
        BY DEF NoSignup
      <4>. HIDE DEF left
      <4>. QED
        BY <4>1, <4>2, <4>3, <2>3
    <3>5. CompletionReads(d, j)
      BY <3>2 DEF SignupsIs
    <3>. QED
      BY <3>1, <3>2, <3>4, <3>5, <1>0 DEF CompletionReads, There
  <2>9. ASSUME NEW d \in Calls PROVE SignupCall(call'[d])
    BY <1>0, DonePlain DEF SignupsIs, Plain
  <2>10. ASSUME NEW j \in Signups, signups[j].done # None PROVE signups'[j].done = signups[j].done \/ signups'[j].email = None
    <3>0. NoSignup.email = None
      BY DEF NoSignup
    <3>1. CASE j # i
      <4>1. signups'[j] = left[j]
        BY <3>1, <2>2
      <4>. HIDE DEF left
      <4>. QED
        BY <4>1, <3>0, <2>3
    <3>2. CASE j = i /\ k.id = None
      BY <3>2, <2>5, <2>10 DEF FreeSignups, SignupsIs, SignupRow
    <3>3. CASE j = i /\ k.id # None
      BY <3>3, <2>2, <2>6b
    <3>. QED
      BY <3>1, <3>2, <3>3
  <2>. QED
    BY <2>7, <2>8, <2>9, <2>10 DEF SignupsIs, Stays
<1>. QED
  BY <1>2, <1>3, <1>4

\* An answer about a code changes what a sign-up knows of its addresses, and nothing else.
LEMMA VerifySignups == ASSUME Typed, SignupsIs, NEW c \in Calls, RecordVerify(c) PROVE SignupsIs' /\ Stays
<1>. DEFINE k == call[c]
            i == k.id
<1>0. /\ signups \in [Signups -> Signup] /\ k \in Call /\ k.seen \in Signup /\ i \in Signups /\ k.chan \in Channels
      /\ call'[c] = Done /\ (\A d \in Calls : d # c => call'[d] = call[d]) /\ users' = users /\ restarted' = restarted
      /\ TriesLeft(k.seen, k.chan)
  BY FinishIs DEF Typed, RowsTyped, SignupRowsTyped, CallsTyped, CallIs, RecordVerify, Call
<1>1. /\ Judged(k) \in Signup /\ Judged(k).done = k.seen.done /\ Judged(k).email = k.seen.email
      /\ Judged(k).password = k.seen.password /\ Judged(k).google = k.seen.google
  <2>1. k.chan = "email" => k.seen.emailTries + 1 \in 0..MaxTries
    BY <1>0, AccountAssumption DEF TriesLeft, TriesOf, Signup
  <2>2. k.chan # "email" => k.seen.phoneTries + 1 \in 0..MaxTries
    BY <1>0, AccountAssumption DEF TriesLeft, TriesOf, Signup
  <2>. HIDE DEF k
  <2>. QED
    BY <1>0, <2>1, <2>2 DEF Judged, Signup
<1>2. ASSUME NEW j \in Signups
      PROVE /\ signups'[j].done = signups[j].done /\ signups'[j].email = signups[j].email
            /\ signups'[j].password = signups[j].password /\ signups'[j].google = signups[j].google
  <2>1. signups' = signups \/ signups' = [signups EXCEPT ![i] = Written(signups[i], k.seen, Judged(k))]
    BY DEF RecordVerify
  <2>2. /\ Written(signups[i], k.seen, Judged(k)).done = signups[i].done
        /\ Written(signups[i], k.seen, Judged(k)).email = signups[i].email
        /\ Written(signups[i], k.seen, Judged(k)).password = signups[i].password
        /\ Written(signups[i], k.seen, Judged(k)).google = signups[i].google
    BY <1>0, <1>1, WrittenFields
  <2>. QED
    BY <1>0, <2>1, <2>2
<1>. QED
  BY <1>0, <1>2, SignupsTrimmed

LEMMA CompleteSignups == ASSUME Typed, SignupsIs, NEW c \in Calls, CompleteSignup(c) PROVE SignupsIs' /\ Stays
<1>. DEFINE k == call[c]
            i == k.id
            row == k.seen
<1>0. /\ users \in [Users -> User] /\ signups \in [Signups -> Signup] /\ k.pc = "complete" /\ i \in Signups /\ row.email \in Emails
      /\ row \in Signup /\ (row.password \/ row.google)
      /\ call'[c] = Done /\ (\A d \in Calls : d # c => call'[d] = call[d]) /\ restarted' = restarted
  BY FinishIs DEF Typed, RowsTyped, SignupRowsTyped, CallsTyped, CallIs, CompleteSignup, Call, SignupsIs, SignupCall
<1>1. There(i) /\ (i \notin restarted => signups[i].email = row.email /\ (signups[i].done # None => users[signups[i].done].email = row.email))
  BY <1>0 DEF CompleteSignup, SignupsIs, CompletionReads, Completing, There
<1>2. PICK u \in Users :
        \/ /\ u \in FreeUsers /\ ~UserClash(u, NewAccount(row)) /\ users' = [users EXCEPT ![u] = NewAccount(row)]
           /\ signups' = [signups EXCEPT ![i].done = u, ![i].google = IF row.google THEN FALSE ELSE @]
        \/ /\ u \in Adoptable(row) /\ users' = users
           /\ signups' = [signups EXCEPT ![i].done = IF @ = None THEN u ELSE @]
  BY DEF CompleteSignup, FreeUsers, Adoptable, ByEmail
<1>3. /\ \A j \in Signups : j # i => signups'[j] = signups[j]
      /\ signups'[i].email = signups[i].email /\ signups'[i].done \in {u, signups[i].done} /\ signups'[i].done # None
      /\ signups'[i].done # u => users' = users
  BY <1>0, <1>2, AccountAssumption DEF Signup
<1>4. \A v \in Users : users[v].email # None /\ ~users[v].deleted => users'[v] = users[v]
  BY <1>0, <1>2 DEF FreeUsers, NoUser
<1>5. users'[u].email = row.email /\ users'[u].email # None /\ ~users'[u].deleted
  BY <1>0, <1>2, AccountAssumption DEF NewAccount, Adoptable, ByEmail, Found
<1>6. \A j \in Signups : signups[j].done \in Users \cup {None} /\ SignupRow(signups[j])
  BY <1>0 DEF Signup, SignupsIs
<1>7. ASSUME NEW j \in Signups PROVE SignupRow(signups[j])'
  BY <1>1, <1>3, <1>4, <1>5, <1>6 DEF SignupRow, There
<1>8. ASSUME NEW d \in Calls PROVE SignupCall(call'[d])
  BY <1>0, DonePlain DEF SignupsIs, Plain
<1>9. ASSUME NEW d \in Calls, NEW j \in Signups \ restarted' PROVE CompletionReads(d, j)'
  <2>1. SUFFICES ASSUME Completing(d, j)', There(j)' PROVE CompletionReads(d, j)'
    BY DEF CompletionReads
  <2>2. d # c /\ call'[d] = call[d] /\ Completing(d, j) /\ There(j) /\ j \notin restarted
    BY <2>1, <1>0, <1>3, DoneIs DEF Completing, There
  <2>3. CompletionReads(d, j) /\ SignupRow(signups[j])
    BY <2>2, <1>6 DEF SignupsIs
  <2>4. CASE j # i
    BY <2>2, <2>3, <2>4, <1>3, <1>4, <1>6 DEF CompletionReads, SignupRow
  <2>5. CASE j = i
    BY <2>2, <2>3, <2>5, <1>1, <1>3, <1>5, <1>6 DEF CompletionReads, SignupRow
  <2>. QED
    BY <2>4, <2>5
<1>10. ASSUME NEW j \in Signups \ restarted, signups[j].done # None PROVE signups'[j].done = signups[j].done
  <2>1. CASE j # i
    BY <2>1, <1>3
  <2>2. CASE j = i /\ u \in FreeUsers /\ ~UserClash(u, NewAccount(row))
    <3>1. /\ signups[i].done \in Users \ {u} /\ users[signups[i].done].email = row.email
      BY <1>1, <1>2, <1>6, <1>10, <2>2 DEF FreeUsers, NoUser, SignupRow
    <3>2. NewAccount(row).email = row.email /\ row.email # None
      BY <1>0, AccountAssumption DEF NewAccount
    <3>. QED
      BY <3>1, <3>2, <2>2 DEF UserClash
  <2>3. CASE j = i /\ signups' = [signups EXCEPT ![i].done = IF @ = None THEN u ELSE @]
    BY <2>3, <1>0, <1>10 DEF Signup
  <2>. QED
    BY <1>2, <2>1, <2>2, <2>3
<1>. QED
  BY <1>7, <1>8, <1>9, <1>10 DEF SignupsIs, Stays

\* The sign-ups of whoever is erased go with the account.
LEMMA EraseSignups == ASSUME Typed, ErasersIs, SignupsIs, NEW c \in Calls, CommitErase(c) PROVE SignupsIs' /\ Stays
<1>0. /\ signups \in [Signups -> Signup] /\ restarted' = restarted
      /\ call'[c] = Done /\ (\A d \in Calls : d # c => call'[d] = call[d])
      /\ \A v \in Users : v # call[c].who => users'[v] = users[v]
  BY Zenon, FinishIs, ErasedRow DEF Typed, RowsTyped, SignupRowsTyped, CommitErase
<1>1. \A j \in Signups : signups'[j] = IF j \in PurgedSignups(c) THEN NoSignup ELSE signups[j]
  BY Zenon DEF CommitErase
<1>2. \A j \in Signups : signups[j].done = call[c].who => j \in PurgedSignups(c)
  BY DEF PurgedSignups, SignupsOf
<1>3. ASSUME NEW j \in Signups
      PROVE \/ signups'[j].done = None /\ signups'[j].email = None
            \/ signups'[j] = signups[j] /\ (signups[j].done # None => users'[signups[j].done] = users[signups[j].done])
  <2>1. CASE j \in PurgedSignups(c)
    BY <2>1, <1>1 DEF NoSignup
  <2>2. CASE j \notin PurgedSignups(c)
    BY <2>2, <1>0, <1>1, <1>2 DEF Signup
  <2>. QED
    BY <2>1, <2>2
<1>. QED
  BY <1>0, <1>3, SignupsTrimmed

LEMMA MovesSignups == ASSUME Typed, ErasersIs, SignupsIs, Moves PROVE SignupsIs' /\ Stays
<1>. DEFINE Quiet == /\ signups' = signups /\ restarted \subseteq restarted'
                     /\ \A c \in Calls : call'[c] = call[c] \/ Plain(call'[c])
            Erases == \E c \in Calls : CommitErase(c)
<1>q. Quiet /\ ~Erases => SignupsIs' /\ Stays
  BY SignupsKept, MovesUsers
<1>f. ASSUME NEW c \in Calls, Finish(c), signups' = signups, restarted' = restarted PROVE Quiet
  BY <1>f, FinishIs, DonePlain
<1>1. ASSUME NEW c \in Calls, Begins(c) PROVE Quiet
  <2>1. signups' = signups /\ restarted' = restarted /\ SignupCall(call'[c]) /\ \A d \in Calls : d # c => call'[d] = call[d]
    BY <1>1, BegunBy, BegunSignup
  <2>2. ASSUME call'[c].pc = "complete", NEW i \in Signups, call'[c].id = i
        PROVE signups[i].email = call'[c].seen.email /\ signups[i].done = None
    <3>1. PICK j \in Signups : BeginComplete(c, j)
      BY <1>1, <2>2, BegunBy
    <3>2. \/ call' = [call EXCEPT ![c] = [Blank EXCEPT !.pc = "mint", !.who = signups[j].done]]
          \/ call' = [call EXCEPT ![c] = [Blank EXCEPT !.pc = "complete", !.id = j, !.seen = signups[j]]] /\ signups[j].done = None
      BY <3>1 DEF BeginComplete
    <3>3. call \in [Calls -> Call]
      BY DEF Typed, CallsTyped
    <3>4. ASSUME call' = [call EXCEPT ![c] = [Blank EXCEPT !.pc = "mint", !.who = signups[j].done]] PROVE FALSE
      BY <3>3, <3>4, <2>2, BlankCall DEF Call
    <3>5. call'[c].id = j /\ call'[c].seen = signups[j] /\ signups[j].done = None
      <4>. DEFINE k == [Blank EXCEPT !.pc = "complete", !.id = j, !.seen = signups[j]]
      <4>1. k.id = j /\ k.seen = signups[j]
        BY BlankCall DEF Call
      <4>2. call' = [call EXCEPT ![c] = k] /\ signups[j].done = None
        BY <3>2, <3>4
      <4>. HIDE DEF k
      <4>. QED
        BY <4>1, <4>2, <3>3
    <3>. QED
      BY <3>5, <2>2
  <2>. QED
    BY <2>1, <2>2 DEF Plain
<1>2. ASSUME NEW c \in Calls, SessionEnds(c) \/ DispatchCode(c) \/ Closed(c) PROVE Quiet
  BY <1>2, <1>f, SessionFrame DEF DispatchCode, Closed, signupVars
<1>3. ASSUME NEW c \in Calls, EraseObjects(c) \/ (\E code \in mail \cup {None} : CheckEmailCode(c, code)) \/ (\E right \in BOOLEAN : CheckPhoneCode(c, right))
      PROVE Quiet
  <2>1. /\ signups' = signups /\ restarted' = restarted /\ call'[c].pc \in {"objects", "verified", "missed"}
        /\ \A d \in Calls : d # c => call'[d] = call[d]
    BY <1>3 DEF EraseObjects, CheckEmailCode, CheckPhoneCode, Typed, CallsTyped, Call
  <2>. QED
    BY <2>1 DEF Plain, SignupCall, Edits
<1>4. ASSUME NEW c \in Calls, SaveSignup(c) \/ RecordVerify(c) \/ CompleteSignup(c) \/ CommitErase(c) PROVE SignupsIs' /\ Stays
  BY <1>4, SaveSignups, VerifySignups, CompleteSignups, EraseSignups
<1>5. ASSUME NEW i \in Signups, Expire(i) \/ DropExpired(i) PROVE SignupsIs' /\ Stays
  <2>1. users' = users /\ restarted' = restarted /\ call' = call
    BY <1>5 DEF Expire, DropExpired
  <2>2. ASSUME NEW j \in Signups
        PROVE \/ signups'[j].done = None /\ signups'[j].email = None
              \/ /\ signups'[j].done = signups[j].done /\ signups'[j].email = signups[j].email
                 /\ signups'[j].password = signups[j].password /\ signups'[j].google = signups[j].google
    <3>1. signups \in [Signups -> Signup]
      BY DEF Typed, RowsTyped, SignupRowsTyped
    <3>2. CASE Expire(i)
      BY <3>1, <3>2 DEF Expire, Signup
    <3>3. CASE DropExpired(i)
      BY <3>1, <3>3 DEF DropExpired, NoSignup
    <3>. QED
      BY <1>5, <3>2, <3>3
  <2>. QED
    BY <2>1, <2>2, SignupsTrimmed
<1>6. ASSUME \/ \E t \in Tokens : RefuseReused(t)
             \/ \E u \in Users, d \in Documents : CreateUpload(u, d)
             \/ \E d \in Documents : PutObject(d)
             \/ \E u \in Users, q \in Requests : OpenRequest(u, q)
             \/ \E q \in Requests : DispatchRequest(q)
      PROVE Quiet
  BY <1>6 DEF RefuseReused, CreateUpload, PutObject, OpenRequest, DispatchRequest, signupVars
<1>7. CASE Ending
  <2>1. signups' = signups /\ restarted' = restarted /\ (call' = call \/ \E c \in Calls : Finish(c))
    BY <1>7 DEF Ending, signupVars
  <2>2. Quiet
    BY <2>1, <1>f
  <2>. QED
    BY <2>2, <1>q, <1>4
<1>8. CASE UNCHANGED vars
  <2>1. Quiet
    BY <1>8 DEF vars, signupVars
  <2>. QED
    BY <2>1, <1>q, <1>4
<1>. HIDE DEF Quiet
<1>. QED
  BY <1>q, <1>1, <1>2, <1>3, <1>4, <1>5, <1>6, <1>7, <1>8 DEF Moves, SignupEnds, Clock
--------------------------------------------------------------------------------
(* Ways to sign in: an unlinking call saw one that remains.                      *)
HasLogin(row) == row.password \/ \E p \in Providers : row.links[p] # None
LoginsIs ==
  /\ \A u \in Users : Found(u) /\ u \notin raced => HasLogin(users[u])
  /\ \A c \in Calls : call[c].pc = "unlink" =>
       /\ Removable(call[c].view)
       /\ call[c].view.password => users[call[c].who].password \/ users[call[c].who].deleted

LEMMA LoginsKeep == LoginsIs => KeepsLoginMethod
  BY DEF LoginsIs, HasLogin, KeepsLoginMethod

\* A row keeps a way to sign in, gets one, or is erased.
Signs(u) ==
  \/ users'[u].deleted \/ HasLogin(users'[u])
  \/ /\ users'[u].deleted = users[u].deleted /\ users'[u].email = users[u].email
     /\ HasLogin(users[u]) => HasLogin(users'[u])

LEMMA RemovableKeeps ==
  ASSUME NEW row \in User, Removable(row), ~row.password, NEW p \in Providers
  PROVE \E q \in Providers : q # p /\ row.links[q] # None
<1>. DEFINE S == {q \in Providers : row.links[q] # None}
<1>1. Cardinality(S) > 1
  BY DEF Removable
<1>2. S # {} /\ S # {p}
  BY <1>1, FS_EmptySet, FS_Singleton
<1>. QED
  BY <1>2

LEMMA LoginsSign ==
  ASSUME Typed, ErasersIs, SignupsIs, LoginsIs, NEW c \in Calls, NEW u \in Users,
         SessionEnds(c) \/ CompleteSignup(c) \/ CommitErase(c)
  PROVE (u \in raced => u \in raced') /\ (u \in raced' \/ Signs(u))
<1>. DEFINE Goal == (u \in raced => u \in raced') /\ (u \in raced' \/ Signs(u))
<1>0. /\ users \in [Users -> User] /\ \A d \in Calls : call[d].pc \in Told => call[d].who \in Users
      /\ \A d \in Calls : call[d] \in Call /\ CallIs(call[d])
  BY DEF Typed, RowsTyped, CallsTyped, CallIs
<1>s. users'[u] = users[u] /\ raced' = raced => Goal
  BY DEF Signs
<1>1. ASSUME IssueTokens(c) \/ Rotate(c) \/ CreateReset(c) PROVE Goal
  BY <1>1, <1>s DEF IssueTokens, Rotate, CreateReset, sessionVars
<1>2. ASSUME ResetPassword(c) \/ SavePassword(c) PROVE Goal
  <2>1. users' = [users EXCEPT ![call[c].who].password = TRUE] /\ raced' = raced
    BY <1>2 DEF ResetPassword, SavePassword, sessionVars
  <2>. QED
    BY <2>1, <1>0, <1>s DEF Signs, HasLogin, User
<1>3. ASSUME NEW b \in BOOLEAN, users' = [users EXCEPT ![call[c].who].active = b], raced' = raced PROVE Goal
  BY <1>3, <1>0 DEF Signs, HasLogin, User
<1>4. ASSUME FinishSuspend(c) \/ FinishRestore(c) PROVE Goal
  BY <1>4, <1>3 DEF FinishSuspend, FinishRestore, sessionVars
<1>5. ASSUME FinishLink(c) PROVE Goal
  <2>1. call[c].who \in Users /\ call[c].prov \in Providers /\ call[c].email \in Emails /\ call[c].email # None
    BY <1>5, <1>0, AccountAssumption DEF FinishLink, CallIs, Told, Call
  <2>2. users' = [users EXCEPT ![call[c].who] = [users[call[c].who] EXCEPT !.links[call[c].prov] = call[c].email]] /\ raced' = raced
    BY <1>5 DEF FinishLink, sessionVars
  <2>. QED
    BY <2>1, <2>2, <1>0, <1>s DEF Signs, HasLogin, User
<1>6. ASSUME FinishUnlink(c) PROVE Goal
  <2>. DEFINE w == call[c].who
              view == call[c].view
              p == call[c].prov
  <2>1. w \in Users /\ p \in Providers /\ view \in User /\ users' = [users EXCEPT ![w].links[p] = None]
    BY <1>6, <1>0 DEF FinishUnlink, Told, Call
  <2>2. raced' = IF users[w].links = view.links THEN raced ELSE raced \cup {w}
    BY <1>6 DEF FinishUnlink
  <2>3. CASE u # w \/ users[w].links # view.links
    <3>1. CASE u = w
      BY <2>2, <2>3, <3>1
    <3>2. CASE u # w
      BY <2>1, <2>2, <3>2, <1>0 DEF Signs
    <3>. QED
      BY <3>1, <3>2
  <2>4. CASE u = w /\ users[w].links = view.links
    <3>1. Removable(view) /\ (view.password => users[w].password \/ users[w].deleted)
      BY <1>6 DEF LoginsIs, FinishUnlink
    <3>2. /\ users'[w].deleted = users[w].deleted /\ users'[w].password = users[w].password
          /\ \A q \in Providers : q # p => users'[w].links[q] = users[w].links[q]
      BY <2>1, <1>0 DEF User
    <3>3. CASE view.password
      BY <3>1, <3>2, <3>3, <2>2, <2>4 DEF Signs, HasLogin
    <3>4. CASE ~view.password
      <4>1. PICK q \in Providers : q # p /\ view.links[q] # None
        BY <3>1, <3>4, <2>1, RemovableKeeps
      <4>. HIDE DEF view, w, p
      <4>. QED
        BY <4>1, <3>2, <2>2, <2>4 DEF Signs, HasLogin
    <3>. QED
      BY <3>3, <3>4
  <2>. QED
    BY <2>3, <2>4
<1>7. ASSUME SaveProfile(c) PROVE Goal
  <2>. DEFINE w == call[c].who
              view == call[c].view
              new == [view EXCEPT !.phone = call[c].phone, !.phoneOK = @ /\ view.phone = call[c].phone]
              row == Written(users[w], view, new)
  <2>1. w \in Users /\ view \in User
    BY <1>7, <1>0 DEF SaveProfile, Told, Call
  <2>2. new.links = view.links /\ new.password = view.password /\ new.deleted = view.deleted /\ new.email = view.email
    BY <2>1 DEF User
  <2>3. row.links = users[w].links /\ row.password = users[w].password /\ row.deleted = users[w].deleted /\ row.email = users[w].email
    <3>1. users[w] \in User
      BY <2>1, <1>0
    <3>. HIDE DEF new, view
    <3>. QED
      BY <2>2, <3>1 DEF Written, User
  <2>4. users' = [users EXCEPT ![w] = row] /\ raced' = raced
    BY <1>7 DEF SaveProfile, sessionVars
  <2>. HIDE DEF row
  <2>. QED
    BY <2>1, <2>3, <2>4, <1>0, <1>s DEF Signs, HasLogin
<1>8. ASSUME FinishOAuth(c) PROVE Goal
  <2>. DEFINE k == call[c]
              w == IF k.who # None THEN k.who ELSE CHOOSE x \in FreeUsers : TRUE
              base == IF k.who # None THEN users[w] ELSE [NoUser EXCEPT !.email = k.email, !.active = TRUE]
              row == [base EXCEPT !.emailOK = TRUE, !.links[k.prov] = k.email]
  <2>1. users' = [users EXCEPT ![w] = row] /\ raced' = raced
    BY <1>8 DEF FinishOAuth
  <2>2. w \in Users /\ k.prov \in Providers /\ k.email \in Emails /\ k.email # None
    BY <1>8, <1>0, AccountAssumption DEF FinishOAuth, Call, FreeUsers, CallIs
  <2>3. row.links[k.prov] = k.email
    <3>1. base \in User
      BY <2>2, <1>0, BlankRows DEF User
    <3>. HIDE DEF base, k
    <3>. QED
      BY <3>1, <2>2 DEF User
  <2>. HIDE DEF row, w, k
  <2>. QED
    BY <2>1, <2>2, <2>3, <1>0, <1>s DEF Signs, HasLogin
<1>9. ASSUME CompleteSignup(c) PROVE Goal
  <2>1. raced' = raced /\ (users' = users \/ \E w \in FreeUsers : users' = [users EXCEPT ![w] = NewAccount(call[c].seen)])
    BY <1>9 DEF CompleteSignup
  <2>2. HasLogin(NewAccount(call[c].seen))
    <3>1. call[c].seen.password \/ call[c].seen.google
      BY <1>9 DEF CompleteSignup, SignupsIs, SignupCall
    <3>2. call[c].seen.email # None
      BY <1>9, <1>0, AccountAssumption DEF CompleteSignup, CallIs
    <3>. QED
      BY <3>1, <3>2, AccountAssumption DEF HasLogin, NewAccount
  <2>. QED
    BY <2>1, <2>2, <1>0, <1>s DEF Signs, FreeUsers
<1>10. ASSUME CommitErase(c) PROVE Goal
  BY Zenon, <1>10, <1>s, ErasedRow DEF Signs, CommitErase
<1>. HIDE DEF Goal
<1>. QED
  BY <1>1, <1>2, <1>4, <1>5, <1>6, <1>7, <1>8, <1>9, <1>10 DEF SessionEnds, Goal

LEMMA MovesLogins == ASSUME Typed, ErasersIs, SignupsIs, LoginsIs, Moves PROVE LoginsIs'
<1>. DEFINE Rows == \A u \in Users : (u \in raced => u \in raced') /\ (u \in raced' \/ Signs(u))
            Quiet == \A c \in Calls : call'[c].pc = "unlink" =>
                        \/ call'[c] = call[c]
                        \/ Removable(call'[c].view) /\ call'[c].who \in Users /\ call'[c].view = users[call'[c].who]
<1>0. \A c \in Calls : call[c].pc = "unlink" => call[c].who \in Users
  BY DEF Typed, CallsTyped, CallIs, Told
<1>u. \A u \in Users : UserStep(users[u], users'[u])
  BY MovesUsers
<1>q. ASSUME Rows, Quiet PROVE LoginsIs'
  <2>1. ASSUME NEW u \in Users, Found(u)', u \notin raced' PROVE HasLogin(users'[u])
    BY <1>q, <2>1 DEF LoginsIs, Found, Signs
  <2>2. ASSUME NEW c \in Calls, call'[c].pc = "unlink"
        PROVE /\ Removable(call'[c].view)
              /\ call'[c].view.password => users'[call'[c].who].password \/ users'[call'[c].who].deleted
    <3>1. CASE call'[c] = call[c]
      BY <3>1, <2>2, <1>0, <1>u DEF LoginsIs, UserStep
    <3>2. CASE Removable(call'[c].view) /\ call'[c].who \in Users /\ call'[c].view = users[call'[c].who]
      BY <3>2, <1>u DEF UserStep
    <3>. QED
      BY <1>q, <2>2, <3>1, <3>2
  <2>. QED
    BY <2>1, <2>2 DEF LoginsIs
<1>s. users' = users /\ raced' = raced => Rows
  BY DEF Signs
<1>f. ASSUME NEW c \in Calls, Finish(c) PROVE Quiet
  BY <1>f, FinishIs
<1>1. ASSUME NEW c \in Calls, Begins(c) PROVE LoginsIs'
  <2>1. Rows
    BY <1>1, <1>s, BegunBy DEF sessionVars
  <2>2. CASE call'[c].pc # "unlink"
    BY <1>1, <2>1, <2>2, <1>q, BegunBy
  <2>3. CASE call'[c].pc = "unlink"
    <3>1. PICK u \in Users, p \in Providers : BeginUnlink(c, u, p)
      BY <1>1, <2>3, BegunBy
    <3>2. call'[c].view = users[u] /\ call'[c].who = u /\ Removable(users[u])
      BY <3>1, BlankCall DEF BeginUnlink, Call, Typed, CallsTyped
    <3>. QED
      BY <1>1, <2>1, <3>2, <1>q, BegunBy
  <2>. QED
    BY <2>2, <2>3
<1>2. ASSUME NEW c \in Calls, SessionEnds(c) \/ CompleteSignup(c) \/ CommitErase(c) PROVE LoginsIs'
  <2>1. Finish(c)
    BY Zenon, <1>2, SessionFrame DEF CompleteSignup, CommitErase
  <2>. QED
    BY <1>2, <2>1, <1>f, <1>q, LoginsSign
<1>3. ASSUME NEW c \in Calls, SaveSignup(c) \/ DispatchCode(c) \/ RecordVerify(c) \/ Closed(c) PROVE LoginsIs'
  BY <1>3, <1>s, <1>f, <1>q DEF SaveSignup, DispatchCode, RecordVerify, Closed, sessionVars
<1>4. ASSUME NEW c \in Calls, EraseObjects(c) \/ (\E code \in mail \cup {None} : CheckEmailCode(c, code)) \/ (\E right \in BOOLEAN : CheckPhoneCode(c, right))
      PROVE LoginsIs'
  <2>1. Quiet /\ users' = users /\ raced' = raced
    BY <1>4 DEF EraseObjects, CheckEmailCode, CheckPhoneCode, sessionVars, Typed, CallsTyped, Call
  <2>. QED
    BY <2>1, <1>q, <1>s
<1>5. CASE Clock
  <2>1. users' = users /\ raced' = raced /\ (call' = call \/ \E c \in Calls : Finish(c))
    BY <1>5 DEF Clock, Ending, Expire, DropExpired, RefuseReused, CreateUpload, PutObject, OpenRequest, DispatchRequest, sessionVars
  <2>. QED
    BY <2>1, <1>s, <1>f, <1>q
<1>6. CASE UNCHANGED vars
  BY <1>6, <1>s, <1>q DEF vars, sessionVars
<1>. HIDE DEF Quiet, Rows
<1>. QED
  BY <1>1, <1>2, <1>3, <1>4, <1>5, <1>6 DEF Moves, SignupEnds
--------------------------------------------------------------------------------
(* What an erasure leaves: the objects stored before it are listed when it starts *)
(* and gone before its rows are; no request loses its claim.                      *)
ObjectsIs ==
  /\ \A d \in Documents : docs[d].owner # None =>
       IF users[docs[d].owner].deleted THEN docs[d].object => docs[d].late ELSE docs[d].row
  /\ \A c \in Calls, d \in Documents : docs[d].owner = call[c].who /\ docs[d].object /\ ~docs[d].late =>
       /\ call[c].pc = "erase" => d \in call[c].listed
       /\ call[c].pc # "objects"

LEMMA ObjectsKeep == Typed /\ ObjectsIs => OnlyLateObjects
  BY DEF ObjectsIs, OnlyLateObjects, Typed, RowsTyped, CareerRowsTyped, Document

LEMMA MovesObjects == ASSUME Typed, ErasersIs, ObjectsIs, Moves PROVE ObjectsIs'
<1>. DEFINE Erases == \E c \in Calls : CommitErase(c)
            Idles == \A c \in Calls : call'[c].pc \in {"erase", "objects"} =>
                       call[c].pc = call'[c].pc /\ call[c].who = call'[c].who /\ call[c].listed = call'[c].listed
<1>0. /\ docs \in [Documents -> Document] /\ (\A d \in Documents : docs[d].owner \in Users \cup {None})
      /\ (\A c \in Calls : call[c].pc \in {"erase", "objects"} => call[c].who \in Users)
      /\ call \in [Calls -> Call]
  BY DEF Typed, RowsTyped, CareerRowsTyped, Document, CallsTyped, CallIs, Told
<1>u. ~Erases => \A u \in Users : (users'[u].deleted => users[u].deleted) /\ (users[u].deleted => users'[u].deleted)
  BY MovesUsers DEF UserStep
<1>q. ASSUME ~Erases, Idles, docs' = docs PROVE ObjectsIs'
  BY <1>q, <1>u, <1>0 DEF ObjectsIs
<1>f. ASSUME NEW c \in Calls, Finish(c) PROVE Idles
  BY <1>f, FinishIs
<1>1. ASSUME NEW c \in Calls, Begins(c), ~Erases PROVE ObjectsIs'
  <2>0. docs' = docs /\ users' = users /\ \A d \in Calls : d # c => call'[d] = call[d]
    BY <1>1, BegunBy DEF careerVars
  <2>1. CASE call'[c].pc # "erase"
    <3>1. Idles
      BY <1>1, <2>0, <2>1, BegunBy
    <3>. QED
      BY <3>1, <2>0, <1>1, <1>q
  <2>2. CASE call'[c].pc = "erase"
    <3>1. PICK u \in Users : BeginErase(c, u)
      BY <1>1, <2>2, BegunBy
    <3>. DEFINE S == {d \in Documents : docs[d].owner = u /\ docs[d].row}
    <3>2. call'[c].who = u /\ call'[c].listed = S /\ ~users[u].deleted
      <4>. DEFINE retain == RequestsOf(u) # Purgeable(u)
      <4>1. call' = [call EXCEPT ![c] = [Blank EXCEPT !.pc = "erase", !.who = u, !.view = users[u],
                       !.gone = Purgeable(u), !.retain = retain, !.listed = S]] /\ ~users[u].deleted
        BY <3>1 DEF BeginErase, Found
      <4>. HIDE DEF S, retain
      <4>. QED
        BY <4>1, <1>0, BlankCall DEF Call
    <3>3. \A d \in Documents : docs[d].owner = u => d \in S
      BY <3>2, <1>0, AccountAssumption DEF ObjectsIs
    <3>. HIDE DEF S
    <3>. QED
      BY <2>0, <2>2, <3>2, <3>3 DEF ObjectsIs
  <2>. QED
    BY <2>1, <2>2
<1>2. ASSUME NEW c \in Calls, SessionEnds(c) \/ SaveSignup(c) \/ DispatchCode(c) \/ RecordVerify(c) \/ CompleteSignup(c) \/ Closed(c), ~Erases
      PROVE ObjectsIs'
  <2>1. Finish(c) /\ docs' = docs
    BY <1>2, SessionFrame DEF SaveSignup, DispatchCode, RecordVerify, CompleteSignup, Closed, careerVars
  <2>. QED
    BY <2>1, <1>2, <1>f, <1>q
<1>3. ASSUME NEW c \in Calls, (\E code \in mail \cup {None} : CheckEmailCode(c, code)) \/ (\E right \in BOOLEAN : CheckPhoneCode(c, right)), ~Erases
      PROVE ObjectsIs'
  <2>1. Idles /\ docs' = docs
    BY <1>3, <1>0 DEF CheckEmailCode, CheckPhoneCode, careerVars, Call
  <2>. QED
    BY <2>1, <1>3, <1>q
<1>4. ASSUME NEW c \in Calls, EraseObjects(c) PROVE ObjectsIs'
  <2>1. /\ users' = users /\ (\A x \in Calls : x # c => call'[x] = call[x]) /\ call[c].pc = "erase"
        /\ call'[c].pc = "objects" /\ call'[c].who = call[c].who
    BY <1>4, <1>0 DEF EraseObjects, Call
  <2>2. \A d \in Documents : /\ docs'[d].owner = docs[d].owner /\ docs'[d].row = docs[d].row /\ docs'[d].late = docs[d].late
                             /\ docs'[d].object => docs[d].object /\ d \notin call[c].listed
    BY <1>4, <1>0 DEF EraseObjects, ErasedObjects, Document
  <2>. QED
    BY <2>1, <2>2, <1>0 DEF ObjectsIs
<1>5. ASSUME NEW c \in Calls, CommitErase(c) PROVE ObjectsIs'
  <2>. DEFINE u == call[c].who
  <2>1. u \in Users /\ users'[u].deleted /\ (\A v \in Users : v # u => users'[v] = users[v]) /\ call[c].pc = "objects" /\ Idles
    BY Zenon, <1>5, <1>f, ErasedRow DEF CommitErase
  <2>2. \A d \in Documents : /\ docs'[d].owner = docs[d].owner /\ docs'[d].object = docs[d].object /\ docs'[d].late = docs[d].late
                             /\ docs[d].owner # u => docs'[d] = docs[d]
    BY Zenon, <1>5, <1>0 DEF CommitErase, Document
  <2>. QED
    BY <2>1, <2>2, <1>0 DEF ObjectsIs
<1>6. ASSUME Clock, ~Erases PROVE ObjectsIs'
  <2>1. ASSUME docs' = docs PROVE ObjectsIs'
    <3>1. call' = call \/ \E c \in Calls : Finish(c)
      BY <1>6 DEF Clock, Ending, Expire, DropExpired, RefuseReused, CreateUpload, PutObject, OpenRequest, DispatchRequest
    <3>. QED
      BY <2>1, <3>1, <1>6, <1>f, <1>q
  <2>2. ASSUME NEW u \in Users, NEW x \in Documents, CreateUpload(u, x) PROVE ObjectsIs'
    <3>1. call' = call /\ users' = users /\ ~users[u].deleted
      BY <2>2 DEF CreateUpload, Found
    <3>2. docs'[x].owner = u /\ docs'[x].row /\ ~docs'[x].object /\ \A d \in Documents : d # x => docs'[d] = docs[d]
      BY <2>2, <1>0 DEF CreateUpload
    <3>. QED
      BY <3>1, <3>2, <1>0 DEF ObjectsIs
  <2>3. ASSUME NEW x \in Documents, PutObject(x) PROVE ObjectsIs'
    <3>. DEFINE late == Erasing(docs[x].owner) \/ users[docs[x].owner].deleted
    <3>1. call' = call /\ users' = users
      BY <2>3 DEF PutObject
    <3>2. docs' = [docs EXCEPT ![x].object = TRUE, ![x].late = late]
      BY <2>3 DEF PutObject
    <3>3. /\ docs'[x].owner = docs[x].owner /\ docs'[x].row = docs[x].row /\ docs'[x].late = late
          /\ \A d \in Documents : d # x => docs'[d] = docs[d]
      <4>. DEFINE doc == [docs[x] EXCEPT !.object = TRUE, !.late = late]
      <4>. HIDE DEF late
      <4>1. doc.owner = docs[x].owner /\ doc.row = docs[x].row /\ doc.late = late
        BY <1>0 DEF Document
      <4>2. docs' = [docs EXCEPT ![x] = doc]
        BY Zenon, <3>2
      <4>. HIDE DEF doc
      <4>. QED
        BY <4>1, <4>2, <1>0
    <3>4. docs'[x].owner # None =>
            IF users[docs[x].owner].deleted THEN docs'[x].late ELSE docs[x].row
      BY Zenon, <3>3, <1>0 DEF ObjectsIs
    <3>5. ASSUME NEW c \in Calls, docs[x].owner = call[c].who, ~docs'[x].late
          PROVE call[c].pc # "erase" /\ call[c].pc # "objects"
      BY <3>3, <3>5 DEF Erasing
    <3>6. \A d \in Documents : docs'[d].owner # None =>
            IF users[docs'[d].owner].deleted THEN docs'[d].object => docs'[d].late ELSE docs'[d].row
      BY Zenon, <3>3, <3>4, <1>0 DEF ObjectsIs
    <3>7. \A c \in Calls, d \in Documents : docs'[d].owner = call[c].who /\ docs'[d].object /\ ~docs'[d].late =>
            (call[c].pc = "erase" => d \in call[c].listed) /\ call[c].pc # "objects"
      BY Zenon, <3>3, <3>5, <1>0 DEF ObjectsIs
    <3>. QED
      BY Zenon, <3>1, <3>6, <3>7 DEF ObjectsIs
  <2>4. CASE \/ Ending \/ (\E i \in Signups : Expire(i) \/ DropExpired(i)) \/ (\E t \in Tokens : RefuseReused(t))
             \/ (\E u \in Users, q \in Requests : OpenRequest(u, q)) \/ (\E q \in Requests : DispatchRequest(q))
    <3>1. docs' = docs
      BY <2>4 DEF Ending, Expire, DropExpired, RefuseReused, OpenRequest, DispatchRequest, careerVars
    <3>. QED
      BY <3>1, <2>1
  <2>. QED
    BY <1>6, <2>2, <2>3, <2>4 DEF Clock
<1>7. ASSUME UNCHANGED vars, ~Erases PROVE ObjectsIs'
  BY <1>7, <1>q DEF vars, careerVars
<1>. HIDE DEF Idles
<1>. QED
  BY <1>1, <1>2, <1>3, <1>4, <1>5, <1>6, <1>7 DEF Moves, SignupEnds

LEMMA MovesRequests == ASSUME Typed, RequestsKeepClaims, Moves PROVE RequestsKeepClaims'
<1>0. /\ requests \in [Requests -> Request] /\ claims \in [Users -> ClaimState]
      /\ (\A q \in Requests : requests[q].owner \in Users \cup {None})
  BY DEF Typed, RowsTyped, CareerRowsTyped, Request
<1>q. UNCHANGED <<requests, claims>> => RequestsKeepClaims'
  BY DEF RequestsKeepClaims
<1>1. ASSUME NEW c \in Calls, Begins(c) PROVE RequestsKeepClaims'
  BY <1>1, <1>q, BegunBy DEF careerVars
<1>2. ASSUME NEW c \in Calls,
        \/ SessionEnds(c) \/ SaveSignup(c) \/ DispatchCode(c) \/ RecordVerify(c) \/ CompleteSignup(c) \/ Closed(c) \/ EraseObjects(c)
        \/ (\E code \in mail \cup {None} : CheckEmailCode(c, code)) \/ (\E right \in BOOLEAN : CheckPhoneCode(c, right))
      PROVE RequestsKeepClaims'
  BY Zenon, <1>2, <1>q, SessionFrame DEF SaveSignup, DispatchCode, RecordVerify, CompleteSignup, Closed, EraseObjects, CheckEmailCode, CheckPhoneCode, careerVars
<1>3. ASSUME NEW c \in Calls, CommitErase(c) PROVE RequestsKeepClaims'
  <2>. DEFINE u == call[c].who
              left == Requests \ call[c].gone
  <2>1. /\ call[c].retain \/ Unreferenced(u, left)
        /\ \A q \in Requests : requests'[q] = IF q \in left THEN requests[q] ELSE [owner |-> None, status |-> "none"]
        /\ \A v \in Users : claims'[v] = IF v # u \/ claims[v] = "none" THEN claims[v]
                                         ELSE IF call[c].retain THEN "retired" ELSE "none"
    BY Zenon, <1>3, <1>0 DEF CommitErase
  <2>2. ASSUME NEW q \in Requests, requests'[q].owner # None PROVE claims'[requests'[q].owner] # "none"
    <3>1. q \in left /\ requests'[q] = requests[q] /\ requests[q].owner \in Users /\ claims[requests[q].owner] # "none"
      BY <2>1, <2>2, <1>0 DEF RequestsKeepClaims
    <3>. QED
      BY <3>1, <2>1 DEF Unreferenced
  <2>. QED
    BY <2>2 DEF RequestsKeepClaims
<1>4. ASSUME NEW u \in Users, NEW q \in Requests, OpenRequest(u, q) PROVE RequestsKeepClaims'
  BY <1>4, <1>0 DEF OpenRequest, RequestsKeepClaims
<1>5. ASSUME NEW q \in Requests, DispatchRequest(q) PROVE RequestsKeepClaims'
  BY <1>5, <1>0 DEF DispatchRequest, RequestsKeepClaims, Request
<1>6. CASE Clock
  BY <1>6, <1>q, <1>4, <1>5 DEF Clock, Ending, Expire, DropExpired, RefuseReused, CreateUpload, PutObject, careerVars
<1>7. CASE UNCHANGED vars
  BY <1>7, <1>q DEF vars, careerVars
<1>. QED
  BY <1>1, <1>2, <1>3, <1>6, <1>7 DEF Moves, SignupEnds
--------------------------------------------------------------------------------
(* The invariant, at the start and after every step.                             *)
IInv ==
  /\ Typed /\ CodesIs /\ TokensInv /\ ErasersIs
  /\ SignupsIs /\ LoginsIs /\ ObjectsIs /\ RequestsKeepClaims

LEMMA InitTyped == ASSUME Init PROVE Typed /\ CodesIs /\ TokensInv /\ ErasersIs
<1>0. PICK s \in Starts :
        /\ users = s.users /\ signups = s.signups
        /\ otp = [i \in Signups |-> [email |-> s.sent[i], phone |-> s.texted[i]]]
        /\ sends = [i \in Signups |-> [ch \in Channels |-> IF ch = "email" /\ s.sent[i] # None THEN s.sent[i].n ELSE 0]]
        /\ mail = {s.sent[i] : i \in Signups} \ {None}
        /\ docs = s.docs /\ requests = s.requests
        /\ claims = [u \in Users |-> IF s.users[u] = NoUser THEN "none" ELSE "kept"]
  BY DEF Init
<1>1. s \in Start /\ InOrder(s)
  BY <1>0, StartsAssumption
<1>2. /\ accepted = {} /\ restarted = {} /\ reused = {} /\ raced = {} /\ call = [c \in Calls |-> Blank]
      /\ tokens = [t \in Tokens |-> NoToken] /\ resets = [k \in Resets |-> NoReset]
  BY DEF Init
<1>3. SignupRowsTyped
  <2>1. signups \in [Signups -> Signup] /\ s.sent \in [Signups -> Code \cup {None}] /\ s.texted \in [Signups -> Phones \cup {None}]
    BY <1>0, <1>1 DEF Start
  <2>2. \A i \in Signups : s.sent[i] # None => s.sent[i].n \in 0..MaxSends
    BY <2>1, AccountAssumption DEF Code
  <2>3. 0 \in 0..MaxSends
    BY AccountAssumption
  <2>4. sends \in [Signups -> [Channels -> 0..MaxSends]]
    BY <1>0, <2>2, <2>3
  <2>. QED
    BY <1>0, <1>2, <2>1, <2>4 DEF SignupRowsTyped
<1>4. SessionRowsTyped
  BY <1>2, BlankRows DEF SessionRowsTyped, TokenIs, NoToken
<1>5. CareerRowsTyped /\ users \in [Users -> User]
  BY <1>0, <1>1 DEF CareerRowsTyped, Start, ClaimState
<1>6. CallsTyped
  BY <1>2, BlankCall DEF CallsTyped, CallIs, Blank, Told, Asking
<1>7. CodesIs
  <2>1. \A i \in Signups : otp[i].email # None => otp[i].email.id = i /\ otp[i].email.n <= sends[i]["email"]
    <3>1. SUFFICES ASSUME NEW i \in Signups, s.sent[i] # None PROVE s.sent[i].id = i /\ s.sent[i].n <= sends[i]["email"]
      BY <1>0
    <3>2. s.sent[i] \in Code /\ s.sent[i].id = i
      BY <3>1, <1>1 DEF Start, InOrder
    <3>3. sends[i]["email"] = s.sent[i].n
      BY <3>1, <1>0 DEF Channels
    <3>. QED
      BY <3>2, <3>3, AccountAssumption DEF Code
  <2>2. \A c \in Calls : call[c].pc = "idle"
    BY <1>2 DEF Blank
  <2>. QED
    <3>1. accepted = {} /\ \A c \in Calls, i \in Signups : ~Sending(c, i)
      BY <1>2, <2>2 DEF Sending
    <3>. QED
      BY <2>1, <3>1 DEF CodesIs, CodeUsedOnce
<1>8. TokensInv /\ ErasersIs
  BY <1>2 DEF TokensInv, FamiliesIs, ReusedFamilyDies, ErasersIs, Blank, NoToken
<1>. QED
  BY <1>3, <1>4, <1>5, <1>6, <1>7, <1>8 DEF Typed, RowsTyped

LEMMA InitKept == ASSUME Init PROVE SignupsIs /\ LoginsIs /\ ObjectsIs /\ RequestsKeepClaims
<1>0. PICK s \in Starts :
        /\ users = s.users /\ signups = s.signups /\ docs = s.docs /\ requests = s.requests
        /\ claims = [u \in Users |-> IF s.users[u] = NoUser THEN "none" ELSE "kept"]
  BY DEF Init
<1>1. s \in Start /\ InOrder(s)
  BY <1>0, StartsAssumption
<1>2. \A c \in Calls : call[c].pc = "idle"
  BY DEF Init, Blank
<1>3. \A u \in Users : IF users[u].email = None THEN users[u] = NoUser ELSE ~users[u].deleted /\ HasLogin(users[u])
  BY <1>0, <1>1 DEF InOrder, HasLogin
<1>4. \A u \in Users : ~users[u].deleted
  BY <1>3 DEF NoUser
<1>5. SignupsIs
  <2>1. \A i \in Signups : signups[i].done \in Users \cup {None}
    BY <1>0, <1>1 DEF Start, Signup
  <2>2. \A i \in Signups : SignupRow(signups[i])
    BY <1>0, <1>1, <1>4, <2>1 DEF InOrder, SignupRow
  <2>. QED
    BY <1>2, <2>2 DEF SignupsIs, SignupCall, Edits, CompletionReads, Completing
<1>6. LoginsIs
  BY <1>2, <1>3 DEF LoginsIs, Found
<1>7. ObjectsIs
  BY <1>0, <1>1, <1>2, <1>4 DEF ObjectsIs, Start, Document, InOrder
<1>8. RequestsKeepClaims
  BY <1>0, <1>1 DEF RequestsKeepClaims, Start, Request, InOrder
<1>. QED
  BY <1>5, <1>6, <1>7, <1>8

LEMMA StepKept == ASSUME IInv, [Next]_accountVars PROVE IInv' /\ Stays
<1>1. Moves
  BY NextMoves
<1>. QED
  BY <1>1, MovesTyped, MovesCodes, MovesTokens, MovesErasers, MovesSignups, MovesLogins, MovesObjects, MovesRequests
     DEF IInv, TokensInv

\* What is kept of the accounts, and of who holds them, in every reachable state.
THEOREM AccountsInvariant == Spec => []IInv
<1>1. Init => IInv
  BY InitTyped, InitKept DEF IInv
<1>2. IInv /\ [Next]_accountVars => IInv'
  BY StepKept
<1>. QED
  BY <1>1, <1>2, PTL DEF Spec

\* A completed sign-up keeps the account it made (_complete_pending_signup, auth/service.py), unless a start was saved
\* to it while it was completed.
THEOREM CompletedSignupsStay == Spec => CompletedStays
<1>1. IInv /\ [Next]_accountVars =>
        [\A i \in Signups \ restarted : signups[i].done # None =>
           signups'[i].done = signups[i].done \/ signups'[i].email = None]_vars
  BY StepKept DEF Stays
<1>. QED
  BY <1>1, AccountsInvariant, PTL DEF Spec, CompletedStays

\* What the accounts' own steps keep, whichever part takes them: a code verifies one call, a reused
\* token ends its family, an account keeps a way to sign in, and an erasure leaves no sign-up
\* pointing at the account, no request without its claim, and no object stored before it began.
THEOREM AccountsKept ==
  Spec => [](/\ RecordsTyped /\ CodeUsedOnce /\ ReusedFamilyDies /\ KeepsLoginMethod
             /\ ErasedSignups /\ RequestsKeepClaims /\ OnlyLateObjects)
<1>1. IInv => ErasedSignups
  BY DEF IInv, SignupsIs, SignupRow, ErasedSignups
<1>2. IInv => /\ RecordsTyped /\ CodeUsedOnce /\ ReusedFamilyDies /\ KeepsLoginMethod
              /\ RequestsKeepClaims /\ OnlyLateObjects
  BY TypedRecords, LoginsKeep, ObjectsKeep DEF IInv, CodesIs, TokensInv
<1>. QED
  BY <1>1, <1>2, AccountsInvariant, PTL

--------------------------------------------------------------------------------
(* What is proved of the accounts on the administrators' directory, for every set *)
(* of rows and any number of calls: what a call read of an account stays true of  *)
(* it unless another call about the account met it on the way.                    *)

(* What a call is doing to an account. Erasing is one thing, before its storage  *)
(* step and after.                                                               *)
DeskKinds == {"mint", "reset", "forgot", "suspend", "restore", "erase", "share", "photo", "unphoto", "look", "page", "note"}
Doing(c, u, x) == call[c].who = u /\ (call[c].pc = x \/ (x = "erase" /\ call[c].pc = "objects"))

\* Two calls about one account that are under way together have met; one that outlives the account met its erasure.
OverlapsIs ==
  /\ \A c \in Calls : call[c].pc \in DeskKinds \cup {"objects", "idle", "done"}
  /\ \A c, d \in Calls, u \in Users, x, y \in DeskKinds :
       c # d /\ Doing(c, u, x) /\ Doing(d, u, y) => <<u, {x, y}>> \in crossed
  /\ \A c \in Calls, u \in Users, x \in DeskKinds : Doing(c, u, x) =>
       IF users[u].deleted THEN <<u, {x, "erase"}>> \in crossed ELSE users[u].email # None
  /\ \A u \in Users : users[u].email = None => users[u] = NoUser \/ users[u].deleted

\* A suspended account is shut, but for what a sign-in or a new link that met the suspension still brings.
ShutIs ==
  \A u \in Users :
    /\ \A c \in Calls : Doing(c, u, "suspend") /\ <<u, {"share", "suspend"}>> \notin crossed =>
         SharesOf(u) \subseteq plan[c].shares
    /\ users[u] # NoUser /\ ~users[u].deleted /\ ~users[u].active =>
         /\ <<u, {"mint", "suspend"}>> \notin crossed =>
              /\ \A t \in Tokens : tokens[t].user = u => ~tokens[t].live
              /\ \A c \in Calls : ~Doing(c, u, "mint")
         /\ <<u, {"share", "suspend"}>> \notin crossed =>
              SharesOf(u) = {} /\ \A c \in Calls : ~Doing(c, u, "share")

\* A link asked for uses up the ones before it.
LinksIs ==
  \A u \in Users : <<u, {"forgot"}>> \notin crossed =>
    /\ \A k, l \in Resets : resets[k].user = u /\ ~resets[k].used /\ resets[l].user = u /\ ~resets[l].used => k = l
    /\ \A c \in Calls : Doing(c, u, "forgot") =>
         \A k \in Resets : resets[k].user = u /\ ~resets[k].used => k \in call[c].gone

\* Nothing but the calls it met changes the photo a call read.
Alone(u) == \A x, y \in Photographed : <<u, {x, y}>> \notin crossed
Spared(u) == \A x \in Photographed : <<u, {x, "erase"}>> \notin crossed
PhotosIs ==
  \A u \in Users :
    /\ confirmed[u] # None /\ Alone(u) => avatar[u] = confirmed[u] /\ <<u, confirmed[u]>> \in stored
    /\ Spared(u) /\ users[u].deleted => avatar[u] = None
    /\ \A c \in Calls :
         /\ Doing(c, u, "look") /\ Alone(u) => avatar[u] = plan[c].photo
         /\ Doing(c, u, "unphoto") /\ Alone(u) => confirmed[u] = None
         /\ call[c].pc = "objects" /\ call[c].who = u /\ Alone(u) => confirmed[u] = None
         /\ Doing(c, u, "erase") /\ Spared(u) => avatar[u] = plan[c].photo

\* One language, however spelled, unless two changes met; none of an erased account, unless a change met the erasure.
LanguagesIs ==
  \A u \in Users :
    /\ <<u, {"page"}>> \notin crossed => \A x, y \in listed[u] : x = y
    /\ users[u].deleted /\ <<u, {"page", "erase"}>> \notin crossed => listed[u] = {}
    /\ \A c \in Calls : Doing(c, u, "page") =>
         /\ \A x, y \in plan[c].add : x = y
         /\ plan[c].add # {} /\ <<u, {"page"}>> \notin crossed => listed[u] \subseteq plan[c].out

\* The links of an erased account are gone.
OwnersIs ==
  /\ \A s \in Shares : shares[s].owner # None => shares[s].state # "none"
  /\ \A u \in Users : users[u].deleted /\ <<u, {"share", "erase"}>> \notin crossed => \A s \in Shares : shares[s].owner # u

Event == [user: Users, type: EventType]
DeskTyped == DirectoryTyped /\ events \in Seq(Event)
DInv == DeskTyped /\ OverlapsIs /\ ShutIs /\ LastWord /\ LinksIs /\ PhotosIs /\ LanguagesIs /\ OwnersIs
--------------------------------------------------------------------------------
(* The steps of the directory: a call is asked, with what it reads; or ends with  *)
(* what it writes; or something happens beside the calls.                         *)
Opens(c, u, x) ==
  /\ users[u].email # None /\ ~users[u].deleted
  /\ call[c].pc = "idle" /\ call'[c].pc = x /\ call'[c].who = u
  /\ \A d \in Calls : d # c => call'[d] = call[d] /\ plan'[d] = plan[d]
  /\ crossed \subseteq crossed'
  /\ \A d \in Calls, y \in DeskKinds : Doing(d, u, y) => <<u, {x, y}>> \in crossed' /\ <<u, {y, x}>> \in crossed'
  /\ UNCHANGED <<users, tokens, resets, shares, stored, listed, events>>
Reads(c, u, x) ==
  /\ plan' \in [Calls -> Plan]
  /\ x \in {"mint", "share"} => users[u].active
  /\ x = "suspend" => plan'[c].shares = SharesOf(u)
  /\ x = "forgot" => \A k \in Resets : resets[k].user = u /\ ~resets[k].used => k \in call'[c].gone
  /\ x \in {"look", "erase"} => plan'[c].photo = avatar[u]
  /\ x = "page" => /\ \A y, z \in plan'[c].add : y = z
                   /\ plan'[c].add # {} => listed[u] \subseteq plan'[c].out
  /\ IF x = "unphoto" THEN avatar' = [avatar EXCEPT ![u] = None] /\ confirmed' = [confirmed EXCEPT ![u] = None]
     ELSE UNCHANGED <<avatar, confirmed>>
Ends(c) ==
  /\ call'[c].pc = "done" /\ \A d \in Calls : d # c => call'[d] = call[d]
  /\ UNCHANGED <<plan, crossed>>
Desk == <<shares, avatar, stored, listed, events, confirmed>>
\* Tokens revoked by hand, with an event.
Ended(c) ==
  /\ \E S \in SUBSET Tokens : tokens' = Revoked(S)
  /\ \E u \in Users, type \in {"session_revoked", "all_sessions_revoked"} : Record(u, type)
  /\ UNCHANGED <<users, resets, shares, avatar, stored, listed, confirmed>>
Issued(c) == IssueTokens(c) /\ UNCHANGED Desk
Retaken(c) == ResetPassword(c) /\ UNCHANGED Desk
Dropped == UNCHANGED <<users, tokens, resets, Desk>>
Commits(c) ==
  \/ CommitShare(c) \/ CommitAvatar(c) \/ FinishAvatar(c) \/ DeleteAvatar(c) \/ CommitLanguage(c)
  \/ CommitNote(c) \/ CommitSuspension(c) \/ CommitRestoration(c) \/ CommitReset(c) \/ FinishErase(c)
  \/ Issued(c) \/ Retaken(c) \/ Ended(c) \/ Dropped
Aside ==
  /\ ShareLapses \/ (\E u \in Users : PutPhoto(u)) \/ UNCHANGED Desk
  /\ UNCHANGED <<users, tokens, resets, call, plan, crossed>>
Acts ==
  \/ \E c \in Calls, u \in Users, x \in DeskKinds : Opens(c, u, x) /\ Reads(c, u, x)
  \/ \E c \in Calls : Ends(c) /\ Commits(c)
  \/ \E c \in Calls : EraseStored(c)
  \/ Aside

LEMMA Kinds12 ==
  /\ "mint" \in DeskKinds /\ "reset" \in DeskKinds /\ "forgot" \in DeskKinds /\ "suspend" \in DeskKinds
  /\ "restore" \in DeskKinds /\ "erase" \in DeskKinds /\ "share" \in DeskKinds /\ "photo" \in DeskKinds
  /\ "unphoto" \in DeskKinds /\ "look" \in DeskKinds /\ "page" \in DeskKinds /\ "note" \in DeskKinds
  /\ "objects" \notin DeskKinds /\ "idle" \notin DeskKinds /\ "done" \notin DeskKinds
  BY DEF DeskKinds
LEMMA KindsPhotographed == Photographed \subseteq DeskKinds
  BY DEF Photographed, DeskKinds

\* A call that is asked about an account meets the calls about it that are under way.
LEMMA Opening ==
  ASSUME Typed, NEW c \in Calls, NEW u \in Users, NEW x \in DeskKinds, NEW k,
         Found(u), Idle(c), call' = [call EXCEPT ![c] = k], k.pc = x, k.who = u,
         \A d \in Calls : d # c => plan'[d] = plan[d],
         Starting(c, u, x), UNCHANGED <<users, tokens, resets, shares, stored, listed, events>>
  PROVE Opens(c, u, x)
<1>1. call \in [Calls -> Call]
  BY DEF Typed, CallsTyped
<1>2. ASSUME NEW d \in Calls, NEW y \in DeskKinds, Doing(d, u, y) PROVE <<u, {x, y}>> \in crossed'
  <2>1. d \in About(u) /\ Kind(call[d].pc) = y
    BY <1>2, Kinds12 DEF Doing, About, Kind
  <2>. QED
    BY <2>1 DEF Starting
<1>3. \A y : {x, y} = {y, x}
  OBVIOUS
<1>4. crossed \subseteq crossed'
  BY DEF Starting
<1>5. call'[c].pc = x /\ call'[c].who = u /\ \A d \in Calls : d # c => call'[d] = call[d]
  BY <1>1
<1>. QED
  BY <1>2, <1>3, <1>4, <1>5 DEF Opens, Found, Idle
LEMMA Asking1 ==
  ASSUME Typed, DirectoryTyped, NEW c \in Calls, NEW u \in Users, NEW x \in DeskKinds, x # "unphoto", NEW p \in Plan,
         Found(u), Ask(c, x, u, p)
  PROVE Opens(c, u, x) /\ plan'[c] = p /\ plan' \in [Calls -> Plan] /\ UNCHANGED <<avatar, confirmed>>
<1>. DEFINE k == [Blank EXCEPT !.pc = x, !.who = u, !.view = users[u]]
<1>1. k.pc = x /\ k.who = u
  BY BlankCall DEF Call
<1>2. Idle(c) /\ call' = [call EXCEPT ![c] = k] /\ Starting(c, u, x) /\ plan' = [plan EXCEPT ![c] = p]
  BY DEF Ask, Begin
<1>3. UNCHANGED <<users, tokens, resets, shares, stored, listed, events, avatar, confirmed>>
  BY DEF Ask, Begin, sessionVars
<1>4. plan'[c] = p /\ plan' \in [Calls -> Plan] /\ \A d \in Calls : d # c => plan'[d] = plan[d]
  BY <1>2 DEF DirectoryTyped
<1>. HIDE DEF k
<1>. QED
  BY <1>1, <1>2, <1>3, <1>4, Opening

LEMMA PlansTyped ==
  /\ NoPlan \in Plan
  /\ \A f \in Formats \cup {None} : [NoPlan EXCEPT !.photo = f] \in Plan /\ [NoPlan EXCEPT !.photo = f].photo = f
  /\ \A S \in SUBSET Shares : [NoPlan EXCEPT !.shares = S] \in Plan /\ [NoPlan EXCEPT !.shares = S].shares = S
  /\ \A out, add \in SUBSET Spellings :
       /\ [NoPlan EXCEPT !.out = out, !.add = add] \in Plan
       /\ [NoPlan EXCEPT !.out = out, !.add = add].out = out /\ [NoPlan EXCEPT !.out = out, !.add = add].add = add
  /\ [NoPlan EXCEPT !.admin = TRUE] \in Plan
  BY Zenon DEF NoPlan, Plan

\* The calls the owner makes.
LEMMA OwnerOpens ==
  ASSUME Typed, DirectoryTyped, NEW c \in Calls, NEW u \in Users,
         \/ CreateShare(c, u) \/ CompleteAvatar(c, u) \/ RemoveAvatar(c, u) \/ ListLanguage(c, u)
         \/ \E f \in Formats : AvatarIntent(c, u, f)
  PROVE \E x \in DeskKinds : Opens(c, u, x) /\ Reads(c, u, x)
<1>. USE Kinds12
<1>0. avatar[u] \in Formats \cup {None} /\ listed[u] \subseteq Spellings
  BY DEF DirectoryTyped
<1>1. CASE CreateShare(c, u)
  <2>1. Found(u) /\ users[u].active /\ Ask(c, "share", u, NoPlan)
    BY <1>1 DEF CreateShare, Signed, Allowed
  <2>2. Opens(c, u, "share") /\ plan' \in [Calls -> Plan] /\ UNCHANGED <<avatar, confirmed>>
    BY Zenon, <2>1, Asking1, PlansTyped
  <2>. QED
    BY <2>1, <2>2 DEF Reads
<1>2. CASE CompleteAvatar(c, u)
  <2>1. Found(u) /\ Ask(c, "look", u, [NoPlan EXCEPT !.photo = avatar[u]])
    BY <1>2 DEF CompleteAvatar, Signed, Allowed
  <2>1a. PICK p \in Plan : p.photo = avatar[u] /\ Ask(c, "look", u, p)
    BY Zenon, <2>1, <1>0, PlansTyped
  <2>2. Opens(c, u, "look") /\ plan' \in [Calls -> Plan] /\ plan'[c].photo = avatar[u] /\ UNCHANGED <<avatar, confirmed>>
    BY <2>1, <2>1a, Asking1
  <2>. QED
    BY <2>2 DEF Reads
<1>3. ASSUME NEW f \in Formats, AvatarIntent(c, u, f) PROVE Opens(c, u, "photo") /\ Reads(c, u, "photo")
  <2>1. Found(u) /\ Ask(c, "photo", u, [NoPlan EXCEPT !.photo = f])
    BY <1>3 DEF AvatarIntent, Signed, Allowed
  <2>2. Opens(c, u, "photo") /\ plan' \in [Calls -> Plan] /\ UNCHANGED <<avatar, confirmed>>
    BY Zenon, <2>1, Asking1, PlansTyped
  <2>. QED
    BY <2>2 DEF Reads
<1>4. CASE ListLanguage(c, u)
  <2>1. PICK out \in {{}} \cup {{y} : y \in listed[u]}, add \in {{}} \cup {{y} : y \in Spellings} :
          /\ Signed(u) /\ (add # {} => listed[u] \ out = {})
          /\ Ask(c, "page", u, [NoPlan EXCEPT !.out = out, !.add = add])
    BY Zenon, <1>4 DEF ListLanguage
  <2>2. out \in SUBSET Spellings /\ add \in SUBSET Spellings /\ \A y, z \in add : y = z
    BY <1>0
  <2>3. PICK p \in Plan : p.out = out /\ p.add = add /\ Ask(c, "page", u, p)
    BY Zenon, <2>1, <2>2, PlansTyped
  <2>4. Opens(c, u, "page") /\ plan' \in [Calls -> Plan] /\ plan'[c].out = out /\ plan'[c].add = add
        /\ UNCHANGED <<avatar, confirmed>>
    BY <2>1, <2>3, Asking1 DEF Signed, Allowed
  <2>. QED
    BY <2>1, <2>2, <2>4 DEF Reads
<1>5. CASE RemoveAvatar(c, u)
  <2>. DEFINE k == [Blank EXCEPT !.pc = "unphoto", !.who = u, !.view = users[u]]
  <2>1. k.pc = "unphoto" /\ k.who = u
    BY BlankCall DEF Call
  <2>2. Found(u) /\ Idle(c) /\ call' = [call EXCEPT ![c] = k] /\ Starting(c, u, "unphoto")
        /\ plan' = [plan EXCEPT ![c] = [NoPlan EXCEPT !.photo = avatar[u]]]
    BY <1>5 DEF RemoveAvatar, Begin, Signed, Allowed
  <2>3. UNCHANGED <<users, tokens, resets, shares, stored, listed, events>>
        /\ avatar' = [avatar EXCEPT ![u] = None] /\ confirmed' = [confirmed EXCEPT ![u] = None]
    BY <1>5 DEF RemoveAvatar, Begin, sessionVars
  <2>4. plan' \in [Calls -> Plan] /\ \A d \in Calls : d # c => plan'[d] = plan[d]
    BY Zenon, <2>2, <1>0, PlansTyped DEF DirectoryTyped
  <2>. HIDE DEF k
  <2>5. Opens(c, u, "unphoto")
    BY <2>1, <2>2, <2>3, <2>4, Opening
  <2>. QED
    BY <2>3, <2>4, <2>5 DEF Reads
<1>. QED
  BY <1>1, <1>2, <1>3, <1>4, <1>5

\* Signing in, resetting the password and erasing the account.
LEMMA SessionOpens ==
  ASSUME Typed, DirectoryTyped, NEW c \in Calls, NEW u \in Users,
         StartLogin(c, u) \/ StartForgot(c, u) \/ SendReset(c, u) \/ StartErase(c, u)
         \/ (\E k \in Resets : StartReset(c, k) /\ resets[k].user = u)
  PROVE \E x \in DeskKinds : Opens(c, u, x) /\ Reads(c, u, x)
<1>. USE Kinds12
<1>0. plan \in [Calls -> Plan] /\ avatar[u] \in Formats \cup {None}
  BY DEF DirectoryTyped
<1>1. CASE StartLogin(c, u)
  <2>. DEFINE k == [Blank EXCEPT !.pc = "mint", !.who = u, !.view = users[u]]
  <2>1. k.pc = "mint" /\ k.who = u
    BY BlankCall DEF Call
  <2>2. Found(u) /\ users[u].active /\ Idle(c) /\ call' = [call EXCEPT ![c] = k] /\ Starting(c, u, "mint")
    BY <1>1 DEF StartLogin, BeginLogin, Begin, Allowed
  <2>3. UNCHANGED <<users, tokens, resets, shares, stored, listed, events, plan, avatar, confirmed>>
    BY <1>1 DEF StartLogin, BeginLogin, Begin, sessionVars, KeepsDesk
  <2>. HIDE DEF k
  <2>4. Opens(c, u, "mint")
    BY <2>1, <2>2, <2>3, Opening
  <2>. QED
    BY <2>2, <2>3, <2>4, <1>0 DEF Reads
<1>2. CASE StartForgot(c, u) \/ SendReset(c, u)
  <2>. DEFINE k == [Blank EXCEPT !.pc = "forgot", !.who = u, !.gone = {x \in Resets : resets[x].user = u /\ ~resets[x].used}]
  <2>1. k.pc = "forgot" /\ k.who = u /\ k.gone = {x \in Resets : resets[x].user = u /\ ~resets[x].used}
    BY BlankCall DEF Call
  <2>2. Found(u) /\ Idle(c) /\ call' = [call EXCEPT ![c] = k] /\ Starting(c, u, "forgot")
    BY <1>2 DEF StartForgot, SendReset, BeginForgot, Allowed
  <2>3. UNCHANGED <<users, tokens, resets, shares, stored, listed, events, avatar, confirmed>>
    BY <1>2 DEF StartForgot, SendReset, BeginForgot, sessionVars
  <2>4. PICK p \in Plan : plan' = [plan EXCEPT ![c] = p]
    BY Zenon, <1>2, PlansTyped DEF StartForgot, SendReset
  <2>5. call \in [Calls -> Call]
    BY DEF Typed, CallsTyped
  <2>. HIDE DEF k
  <2>6. Opens(c, u, "forgot")
    BY <2>1, <2>2, <2>3, <2>4, <1>0, Opening
  <2>7. plan' \in [Calls -> Plan] /\ call'[c] = k
    BY <2>2, <2>4, <2>5, <1>0
  <2>. QED
    BY <2>1, <2>3, <2>6, <2>7 DEF Reads
<1>3. CASE StartErase(c, u)
  <2>1. PICK k : Idle(c) /\ call' = [call EXCEPT ![c] = k] /\ k.pc = "erase" /\ k.who = u
    <3>. DEFINE k == [Blank EXCEPT !.pc = "erase", !.who = u, !.view = users[u],
                        !.gone = Purgeable(u), !.retain = RequestsOf(u) # Purgeable(u),
                        !.listed = {d \in Documents : docs[d].owner = u /\ docs[d].row}]
    <3>1. k.pc = "erase" /\ k.who = u
      BY BlankCall DEF Call
    <3>2. Idle(c) /\ call' = [call EXCEPT ![c] = k]
      BY <1>3 DEF StartErase, BeginErase
    <3>. QED
      BY Zenon, <3>1, <3>2
  <2>2. Found(u) /\ Starting(c, u, "erase") /\ plan' = [plan EXCEPT ![c] = [NoPlan EXCEPT !.photo = avatar[u]]]
    BY <1>3 DEF StartErase, Signed, Allowed
  <2>3. UNCHANGED <<users, tokens, resets, shares, stored, listed, events, avatar, confirmed>>
    BY <1>3 DEF StartErase, BeginErase, sessionVars
  <2>4. plan' \in [Calls -> Plan] /\ plan'[c].photo = avatar[u] /\ \A d \in Calls : d # c => plan'[d] = plan[d]
    BY Zenon, <2>2, <1>0, PlansTyped
  <2>5. Opens(c, u, "erase")
    BY <2>1, <2>2, <2>3, <2>4, Opening
  <2>. QED
    BY <2>3, <2>4, <2>5 DEF Reads
<1>4. ASSUME NEW k \in Resets, StartReset(c, k), resets[k].user = u PROVE Opens(c, u, "reset") /\ Reads(c, u, "reset")
  <2>. DEFINE b == [Blank EXCEPT !.pc = "reset", !.tok = k, !.who = u]
  <2>1. b.pc = "reset" /\ b.who = u
    BY BlankCall DEF Call
  <2>2. Found(u) /\ Idle(c) /\ call' = [call EXCEPT ![c] = b] /\ Starting(c, u, "reset")
    BY Zenon, <1>4 DEF StartReset, BeginReset, Allowed
  <2>3. UNCHANGED <<users, tokens, resets, shares, stored, listed, events, plan, avatar, confirmed>>
    BY Zenon, <1>4 DEF StartReset, BeginReset, sessionVars, KeepsDesk
  <2>. HIDE DEF b
  <2>4. Opens(c, u, "reset")
    BY <2>1, <2>2, <2>3, Opening
  <2>. QED
    BY <2>3, <2>4, <1>0 DEF Reads
<1>. QED
  BY <1>1, <1>2, <1>3, <1>4

\* The administrators' calls.
LEMMA AdminOpens ==
  ASSUME Typed, DirectoryTyped, OverlapsIs, NEW c \in Calls, NEW u \in Users,
         AddNote(c, u) \/ SuspendUser(c, u) \/ RestoreUser(c, u)
  PROVE \E x \in DeskKinds : Opens(c, u, x) /\ Reads(c, u, x)
<1>. USE Kinds12
<1>0. Found(u)
  BY DEF OverlapsIs, Found, AddNote, SuspendUser, RestoreUser, Candidate, Status
<1>1. CASE AddNote(c, u)
  <2>1. Opens(c, u, "note") /\ plan' \in [Calls -> Plan] /\ UNCHANGED <<avatar, confirmed>>
    BY Zenon, <1>0, <1>1, Asking1, PlansTyped DEF AddNote
  <2>. QED
    BY <2>1 DEF Reads
<1>2. CASE SuspendUser(c, u)
  <2>1. SharesOf(u) \in SUBSET Shares
    BY DEF SharesOf
  <2>1a. PICK p \in Plan : p.shares = SharesOf(u) /\ Ask(c, "suspend", u, p)
    BY Zenon, <1>2, <2>1, PlansTyped DEF SuspendUser
  <2>2. Opens(c, u, "suspend") /\ plan' \in [Calls -> Plan] /\ plan'[c].shares = SharesOf(u) /\ UNCHANGED <<avatar, confirmed>>
    BY <1>0, <2>1a, Asking1
  <2>. QED
    BY <2>2 DEF Reads
<1>3. CASE RestoreUser(c, u)
  <2>1. Opens(c, u, "restore") /\ plan' \in [Calls -> Plan] /\ UNCHANGED <<avatar, confirmed>>
    BY Zenon, <1>0, <1>3, Asking1, PlansTyped DEF RestoreUser
  <2>. QED
    BY <2>1 DEF Reads
<1>. QED
  BY <1>1, <1>2, <1>3

\* A call that finishes.
LEMMA Ending1 == ASSUME Typed, NEW c \in Calls, Finish(c), UNCHANGED <<plan, crossed>> PROVE Ends(c)
  BY FinishIs DEF Ends
LEMMA CommitEnds ==
  ASSUME Typed, NEW c \in Calls,
         \/ CommitShare(c) \/ CommitAvatar(c) \/ FinishAvatar(c) \/ DeleteAvatar(c) \/ CommitLanguage(c)
         \/ CommitNote(c) \/ CommitSuspension(c) \/ CommitRestoration(c) \/ CommitReset(c) \/ FinishErase(c)
         \/ ResetUnsent(c) \/ ((IssueTokens(c) \/ ResetPassword(c)) /\ KeepsDesk /\ UNCHANGED crossed)
         \/ (Crash(c) /\ UNCHANGED deskVars)
  PROVE Ends(c) /\ Commits(c)
<1>1. CASE CommitShare(c) \/ CommitAvatar(c) \/ FinishAvatar(c) \/ DeleteAvatar(c) \/ CommitLanguage(c) \/ CommitNote(c)
  <2>1. Finish(c) /\ UNCHANGED <<plan, crossed>>
    BY Zenon, <1>1 DEF CommitShare, CommitAvatar, FinishAvatar, DeleteAvatar, CommitLanguage, CommitNote, Answered
  <2>. QED
    BY <1>1, <2>1, Ending1 DEF Commits
<1>2. CASE CommitSuspension(c) \/ CommitRestoration(c) \/ CommitReset(c) \/ FinishErase(c)
  <2>1. Finish(c) /\ UNCHANGED <<plan, crossed>>
    BY Zenon, <1>2 DEF CommitSuspension, FinishSuspend, CommitRestoration, FinishRestore, CommitReset, CreateReset, FinishErase, CommitErase
  <2>. QED
    BY Zenon, <1>2, <2>1, Ending1 DEF Commits
<1>3. CASE ResetUnsent(c) \/ (Crash(c) /\ UNCHANGED deskVars)
  <2>1. Finish(c) /\ UNCHANGED <<plan, crossed>> /\ Dropped
    BY <1>3 DEF ResetUnsent, Answered, Crash, deskVars, KeepsDesk, Dropped, Desk, sessionVars
  <2>. QED
    BY <2>1, Ending1 DEF Commits
<1>4. CASE (IssueTokens(c) \/ ResetPassword(c)) /\ KeepsDesk /\ UNCHANGED crossed
  <2>1. Finish(c) /\ UNCHANGED <<plan, crossed, Desk>>
    BY <1>4 DEF IssueTokens, ResetPassword, KeepsDesk, Desk
  <2>. QED
    BY <1>4, <2>1, Ending1 DEF Commits, Issued, Retaken
<1>. QED
  BY <1>1, <1>2, <1>3, <1>4
LEMMA SessionsEnd ==
  ASSUME Typed, NEW c \in Calls,
         (\E t \in Tokens : RevokeUserSession(c, t)) \/ (\E u \in Users : RevokeUserSessions(c, u))
  PROVE Ends(c) /\ Commits(c)
<1>1. Finish(c) /\ UNCHANGED <<plan, crossed>>
  BY DEF RevokeUserSession, RevokeUserSessions
<1>2. Ended(c)
  <2>1. ASSUME NEW t \in Tokens, RevokeUserSession(c, t) PROVE Ended(c)
    <3>1. tokens[t].user \in Users /\ tokens' = Revoked({t}) /\ Record(tokens[t].user, "session_revoked")
      BY <2>1 DEF RevokeUserSession, Typed, RowsTyped, SessionRowsTyped, TokenIs, Token
    <3>. QED
      BY <2>1, <3>1 DEF RevokeUserSession, Ended
  <2>2. ASSUME NEW u \in Users, RevokeUserSessions(c, u) PROVE Ended(c)
    <3>1. {t \in Tokens : tokens[t].user = u} \in SUBSET Tokens
      OBVIOUS
    <3>. QED
      BY <2>2, <3>1 DEF RevokeUserSessions, Ended
  <2>. QED
    BY <2>1, <2>2
<1>. QED
  BY <1>1, <1>2, Ending1 DEF Commits

LEMMA NextActs ==
  ASSUME Typed, DirectoryTyped, OverlapsIs,
         DirectoryNext \/ (\E c \in Calls : Crash(c) /\ UNCHANGED deskVars) \/ UNCHANGED <<vars, deskVars>>
  PROVE Acts
<1>1. ASSUME NEW c \in Calls, NEW u \in Users,
        \/ CreateShare(c, u) \/ CompleteAvatar(c, u) \/ RemoveAvatar(c, u) \/ AddNote(c, u) \/ SuspendUser(c, u)
        \/ RestoreUser(c, u) \/ SendReset(c, u) \/ StartLogin(c, u) \/ StartForgot(c, u) \/ StartErase(c, u)
        \/ ListLanguage(c, u) \/ (\E f \in Formats : AvatarIntent(c, u, f))
        \/ (\E k \in Resets : StartReset(c, k) /\ resets[k].user = u)
      PROVE Acts
  BY Zenon, <1>1, OwnerOpens, SessionOpens, AdminOpens DEF Acts
<1>2. ASSUME NEW c \in Calls,
        \/ CommitShare(c) \/ CommitAvatar(c) \/ FinishAvatar(c) \/ DeleteAvatar(c) \/ CommitLanguage(c)
        \/ CommitNote(c) \/ CommitSuspension(c) \/ CommitRestoration(c) \/ CommitReset(c) \/ FinishErase(c)
        \/ ResetUnsent(c) \/ ((IssueTokens(c) \/ ResetPassword(c)) /\ KeepsDesk /\ UNCHANGED crossed)
        \/ (Crash(c) /\ UNCHANGED deskVars)
      PROVE Acts
  BY Zenon, <1>2, CommitEnds DEF Acts
<1>3. ASSUME NEW c \in Calls, (\E t \in Tokens : RevokeUserSession(c, t)) \/ (\E u \in Users : RevokeUserSessions(c, u)) PROVE Acts
  BY Zenon, <1>3, SessionsEnd DEF Acts
<1>4. ASSUME NEW c \in Calls, EraseStored(c) PROVE Acts
  BY <1>4 DEF Acts
<1>5. ASSUME ShareLapses \/ (\E u \in Users : PutPhoto(u)) \/ UNCHANGED <<vars, deskVars>> PROVE Acts
  <2>1. UNCHANGED <<users, tokens, resets, call, plan, crossed>>
    BY <1>5 DEF ShareLapses, PutPhoto, vars, deskVars, sessionVars
  <2>2. UNCHANGED <<vars, deskVars>> => UNCHANGED Desk
    BY DEF deskVars, Desk
  <2>. QED
    BY <1>5, <2>1, <2>2 DEF Acts, Aside
<1>6. ASSUME NEW c \in Calls, NEW k \in Resets, StartReset(c, k) PROVE Acts
  <2>1. resets[k].user \in Users
    BY <1>6 DEF StartReset, BeginReset, NoReset, Reset, Typed, RowsTyped, SessionRowsTyped
  <2>. QED
    BY <1>1, <1>6, <2>1
<1>7. CASE DirectoryNext
  BY Zenon, <1>1, <1>2, <1>3, <1>4, <1>5, <1>6, <1>7 DEF DirectoryNext
<1>. QED
  BY <1>2, <1>5, <1>7

--------------------------------------------------------------------------------
(* What a step does to the calls under way and to the rows of users.             *)
LEMMA OpensDoing ==
  ASSUME NEW c \in Calls, NEW u \in Users, NEW x \in DeskKinds, Opens(c, u, x)
  PROVE \A d \in Calls, v \in Users, y \in DeskKinds : Doing(d, v, y)' =>
          IF d = c THEN v = u /\ y = x ELSE Doing(d, v, y) /\ plan'[d] = plan[d] /\ call'[d] = call[d]
  BY Kinds12 DEF Opens, Doing
LEMMA EndsDoing ==
  ASSUME NEW c \in Calls, Ends(c)
  PROVE \A d \in Calls, v \in Users, y \in DeskKinds : Doing(d, v, y)' => d # c /\ Doing(d, v, y) /\ call'[d] = call[d]
  BY Kinds12 DEF Ends, Doing
LEMMA StoredIs ==
  ASSUME Typed, NEW c \in Calls, EraseStored(c)
  PROVE /\ call[c].pc = "erase" /\ call'[c].pc = "objects" /\ call'[c].who = call[c].who /\ call'[c].gone = call[c].gone
        /\ \A d \in Calls : d # c => call'[d] = call[d]
        /\ \A d \in Calls, v \in Users, y \in DeskKinds : Doing(d, v, y)' => Doing(d, v, y)
        /\ UNCHANGED <<users, tokens, resets, shares, avatar, listed, events, plan, crossed>>
<1>1. call \in [Calls -> Call] /\ call[c].pc = "erase" /\ call' = [call EXCEPT ![c].pc = "objects"]
  BY DEF EraseStored, EraseObjects, Typed, CallsTyped
<1>2. /\ call'[c].pc = "objects" /\ call'[c].who = call[c].who /\ call'[c].gone = call[c].gone
      /\ \A d \in Calls : d # c => call'[d] = call[d]
  BY <1>1 DEF Call
<1>3. \A d \in Calls, v \in Users, y \in DeskKinds : Doing(d, v, y)' => Doing(d, v, y)
  BY <1>1, <1>2, Kinds12 DEF Doing
<1>4. UNCHANGED <<users, tokens, resets, shares, avatar, listed, events, plan, crossed>>
  BY DEF EraseStored, EraseObjects, sessionVars
<1>. QED
  BY <1>1, <1>2, <1>3, <1>4

\* A call goes on with what it read, or was just asked.
LEMMA GoesOn ==
  ASSUME Typed, Acts
  PROVE /\ crossed \subseteq crossed'
        /\ \A d \in Calls, v \in Users, y \in DeskKinds : Doing(d, v, y)' =>
             \/ Doing(d, v, y) /\ plan'[d] = plan[d] /\ call'[d].gone = call[d].gone
             \/ Opens(d, v, y) /\ Reads(d, v, y)
<1>. DEFINE Goal == /\ crossed \subseteq crossed'
                    /\ \A d \in Calls, v \in Users, y \in DeskKinds : Doing(d, v, y)' =>
                         \/ Doing(d, v, y) /\ plan'[d] = plan[d] /\ call'[d].gone = call[d].gone
                         \/ Opens(d, v, y) /\ Reads(d, v, y)
<1>. SUFFICES Goal
  OBVIOUS
<1>1. ASSUME NEW c \in Calls, NEW u \in Users, NEW x \in DeskKinds, Opens(c, u, x), Reads(c, u, x) PROVE Goal
  <2>1. crossed \subseteq crossed'
    BY <1>1 DEF Opens
  <2>. QED
    BY <1>1, <2>1, OpensDoing
<1>2. ASSUME NEW c \in Calls, Ends(c) PROVE Goal
  <2>1. UNCHANGED <<plan, crossed>>
    BY <1>2 DEF Ends
  <2>. QED
    BY <1>2, <2>1, EndsDoing
<1>3. ASSUME NEW c \in Calls, EraseStored(c) PROVE Goal
  <2>1. \A d \in Calls : call'[d].gone = call[d].gone
    BY <1>3, StoredIs
  <2>. QED
    BY <1>3, <2>1, StoredIs
<1>4. CASE Aside
  BY <1>4 DEF Aside, Doing
<1>. HIDE DEF Goal
<1>5. CASE \E c \in Calls, u \in Users, x \in DeskKinds : Opens(c, u, x) /\ Reads(c, u, x)
  BY <1>1, <1>5
<1>6. CASE \E c \in Calls : Ends(c) /\ Commits(c)
  BY <1>2, <1>6
<1>7. CASE \E c \in Calls : EraseStored(c)
  BY <1>3, <1>7
<1>. QED
  BY <1>4, <1>5, <1>6, <1>7 DEF Acts

LEMMA Meets ==
  ASSUME OverlapsIs, NEW c \in Calls, NEW d \in Calls, NEW u \in Users, NEW x \in DeskKinds, NEW y \in DeskKinds,
         c # d, Doing(c, u, x), Doing(d, u, y)
  PROVE <<u, {x, y}>> \in crossed /\ <<u, {y, x}>> \in crossed
  BY DEF OverlapsIs

\* Only a reset, a suspension, a restoration and an erasure write a user's row.
Erased(v) == \E c \in Calls : Ends(c) /\ FinishErase(c) /\ Doing(c, v, "erase")
Rewritten(v) ==
  \E c \in Calls :
    /\ Ends(c)
    /\ \/ Retaken(c) /\ Doing(c, v, "reset") /\ users'[v].active = users[v].active
       \/ CommitSuspension(c) /\ Doing(c, v, "suspend") /\ ~users'[v].active
       \/ CommitRestoration(c) /\ Doing(c, v, "restore") /\ users'[v].active
LEMMA UserEffect ==
  ASSUME Typed, ErasersIs, Acts, NEW v \in Users
  PROVE \/ users'[v] = users[v]
        \/ users'[v].deleted /\ Erased(v)
        \/ users'[v].email = users[v].email /\ users'[v].deleted = users[v].deleted /\ Rewritten(v)
<1>. DEFINE Goal == \/ users'[v] = users[v]
                    \/ users'[v].deleted /\ Erased(v)
                    \/ users'[v].email = users[v].email /\ users'[v].deleted = users[v].deleted /\ Rewritten(v)
<1>. SUFFICES Goal
  OBVIOUS
<1>0. users \in [Users -> User]
  BY DEF Typed, RowsTyped
<1>1. ASSUME users' = users PROVE Goal
  BY <1>1
<1>2. ASSUME NEW c \in Calls, Ends(c), Retaken(c) PROVE Goal
  <2>1. users' = [users EXCEPT ![call[c].who].password = TRUE] /\ call[c].pc = "reset"
    BY <1>2 DEF Retaken, ResetPassword
  <2>2. CASE call[c].who = v
    BY <1>2, <2>1, <2>2, <1>0 DEF User, Rewritten, Doing
  <2>. QED
    BY <2>1, <2>2, <1>0
<1>3. ASSUME NEW c \in Calls, Ends(c), CommitSuspension(c) PROVE Goal
  <2>1. users' = [users EXCEPT ![call[c].who].active = FALSE] /\ call[c].pc = "suspend"
    BY <1>3 DEF CommitSuspension, FinishSuspend
  <2>2. CASE call[c].who = v
    BY <1>3, <2>1, <2>2, <1>0 DEF User, Rewritten, Doing
  <2>. QED
    BY <2>1, <2>2, <1>0
<1>4. ASSUME NEW c \in Calls, Ends(c), CommitRestoration(c) PROVE Goal
  <2>1. users' = [users EXCEPT ![call[c].who].active = TRUE] /\ call[c].pc = "restore"
    BY <1>4 DEF CommitRestoration, FinishRestore
  <2>2. CASE call[c].who = v
    BY <1>4, <2>1, <2>2, <1>0 DEF User, Rewritten, Doing
  <2>. QED
    BY <2>1, <2>2, <1>0
<1>5. ASSUME NEW c \in Calls, Ends(c), FinishErase(c) PROVE Goal
  <2>1. CommitErase(c) /\ call[c].pc = "objects"
    BY Zenon, <1>5 DEF FinishErase, CommitErase
  <2>2. CASE call[c].who = v
    BY <1>5, <2>1, <2>2, ErasedRow DEF Erased, Doing
  <2>3. CASE call[c].who # v
    BY <2>1, <2>3, ErasedRow
  <2>. QED
    BY <2>2, <2>3
<1>6. ASSUME NEW c \in Calls, Commits(c), ~Retaken(c), ~CommitSuspension(c), ~CommitRestoration(c), ~FinishErase(c) PROVE users' = users
  BY <1>6 DEF Commits, CommitShare, CommitAvatar, FinishAvatar, DeleteAvatar, CommitLanguage, CommitNote, CommitReset, CreateReset,
       Issued, IssueTokens, Ended, Dropped, Answered
<1>. HIDE DEF Goal
<1>7. ASSUME NEW c \in Calls, Ends(c), Commits(c) PROVE Goal
  BY Zenon, <1>7, <1>1, <1>2, <1>3, <1>4, <1>5, <1>6
<1>8. ASSUME NEW c \in Calls, EraseStored(c) PROVE Goal
  BY <1>8, <1>1, StoredIs
<1>9. ASSUME NEW c \in Calls, NEW u \in Users, NEW x \in DeskKinds, Opens(c, u, x) PROVE Goal
  BY <1>9, <1>1 DEF Opens
<1>10. CASE Aside
  BY <1>10, <1>1 DEF Aside
<1>11. CASE \E c \in Calls, u \in Users, x \in DeskKinds : Opens(c, u, x) /\ Reads(c, u, x)
  BY <1>9, <1>11
<1>12. CASE \E c \in Calls : Ends(c) /\ Commits(c)
  BY <1>7, <1>12
<1>13. CASE \E c \in Calls : EraseStored(c)
  BY <1>8, <1>13
<1>. QED
  BY <1>10, <1>11, <1>12, <1>13 DEF Acts

LEMMA OverlapsKept == ASSUME Typed, ErasersIs, OverlapsIs, Acts PROVE OverlapsIs'
<1>. USE Kinds12
<1>1. ASSUME NEW d \in Calls PROVE call'[d].pc \in DeskKinds \cup {"objects", "idle", "done"}
  <2>0. call[d].pc \in DeskKinds \cup {"objects", "idle", "done"}
    BY DEF OverlapsIs
  <2>1. ASSUME NEW c \in Calls, NEW u \in Users, NEW x \in DeskKinds, Opens(c, u, x) PROVE call'[d].pc = call[d].pc \/ call'[d].pc = x
    BY <2>1 DEF Opens
  <2>2. ASSUME NEW c \in Calls, Ends(c) PROVE call'[d].pc = call[d].pc \/ call'[d].pc = "done"
    BY <2>2 DEF Ends
  <2>3. ASSUME NEW c \in Calls, EraseStored(c) PROVE call'[d].pc = call[d].pc \/ call'[d].pc = "objects"
    BY <2>3, StoredIs
  <2>4. Aside => call' = call
    BY DEF Aside
  <2>. QED
    BY <2>0, <2>1, <2>2, <2>3, <2>4 DEF Acts
<1>2. ASSUME NEW c \in Calls, NEW d \in Calls, NEW u \in Users, NEW x \in DeskKinds, NEW y \in DeskKinds,
             c # d, Doing(c, u, x)', Doing(d, u, y)'
      PROVE <<u, {x, y}>> \in crossed'
  <2>1. ASSUME Opens(c, u, x) PROVE <<u, {x, y}>> \in crossed'
    <3>1. Doing(d, u, y)
      BY <1>2, <2>1, OpensDoing
    <3>. QED
      BY <2>1, <3>1 DEF Opens
  <2>2. ASSUME Opens(d, u, y) PROVE <<u, {x, y}>> \in crossed'
    <3>1. Doing(c, u, x)
      BY <1>2, <2>2, OpensDoing
    <3>. QED
      BY <2>2, <3>1 DEF Opens
  <2>3. ASSUME Doing(c, u, x), Doing(d, u, y) PROVE <<u, {x, y}>> \in crossed'
    BY <1>2, <2>3, Meets, GoesOn
  <2>. QED
    BY <1>2, <2>1, <2>2, <2>3, GoesOn
<1>3. ASSUME NEW d \in Calls, NEW v \in Users, NEW y \in DeskKinds, Doing(d, v, y)'
      PROVE IF users'[v].deleted THEN <<v, {y, "erase"}>> \in crossed' ELSE users'[v].email # None
  <2>1. ASSUME Opens(d, v, y) PROVE ~users'[v].deleted /\ users'[v].email # None
    BY <2>1 DEF Opens
  <2>2. ASSUME Doing(d, v, y) PROVE IF users'[v].deleted THEN <<v, {y, "erase"}>> \in crossed' ELSE users'[v].email # None
    <3>0. IF users[v].deleted THEN <<v, {y, "erase"}>> \in crossed' ELSE users[v].email # None
      BY <2>2, GoesOn DEF OverlapsIs
    <3>1. ASSUME Erased(v) PROVE <<v, {y, "erase"}>> \in crossed'
      <4>1. PICK c \in Calls : Ends(c) /\ Doing(c, v, "erase")
        BY <3>1 DEF Erased
      <4>2. d # c
        BY <1>3, <4>1, EndsDoing
      <4>. QED
        BY <2>2, <4>1, <4>2, Meets, GoesOn
    <3>. QED
      BY <3>0, <3>1, UserEffect
  <2>. QED
    BY <1>3, <2>1, <2>2, GoesOn
<1>4. ASSUME NEW v \in Users, users'[v].email = None PROVE users'[v] = NoUser \/ users'[v].deleted
  <2>1. ASSUME Rewritten(v) PROVE users[v].deleted \/ users[v].email # None
    BY <2>1 DEF Rewritten, OverlapsIs
  <2>. QED
    BY <1>4, <2>1, UserEffect DEF OverlapsIs
<1>. QED
  BY <1>1, <1>2, <1>3, <1>4 DEF OverlapsIs

--------------------------------------------------------------------------------
(* Types of what the directory adds.                                             *)
LEMMA WhoIs == ASSUME Typed, NEW c \in Calls, call[c].pc \in DeskKinds \cup {"objects"} PROVE call[c].who \in Users
  BY DEF Typed, CallsTyped, CallIs, Told, Asking, DeskKinds
LEMMA Recorded ==
  ASSUME events \in Seq(Event), NEW u \in Users, NEW type \in EventType, Record(u, type)
  PROVE events' \in Seq(Event)
<1>1. [user |-> u, type |-> type] \in Event
  BY DEF Event
<1>. QED
  BY <1>1 DEF Record

LEMMA EventsTyped == ASSUME NEW s \in Seq(Event) PROVE \A i \in 1..Len(s) : s[i] \in [user: Users, type: EventType]
<1>1. \A i \in 1..Len(s) : s[i] \in Event
  OBVIOUS
<1>. QED
  BY <1>1 DEF Event

LEMMA CommitsTyped == ASSUME Typed, DeskTyped, NEW c \in Calls, Ends(c), Commits(c) PROVE DeskTyped'
<1>. USE Kinds12
<1>0. /\ shares \in [Shares -> Share] /\ avatar \in [Users -> Formats \cup {None}]
      /\ stored \subseteq Users \X Formats /\ listed \in [Users -> SUBSET Spellings]
      /\ plan \in [Calls -> Plan] /\ confirmed \in [Users -> Formats \cup {None}] /\ events \in Seq(Event)
      /\ plan' = plan
  BY DEF DeskTyped, DirectoryTyped, Ends
<1>. DEFINE Goal == /\ shares' \in [Shares -> Share] /\ avatar' \in [Users -> Formats \cup {None}]
                    /\ stored' \subseteq Users \X Formats /\ listed' \in [Users -> SUBSET Spellings]
                    /\ confirmed' \in [Users -> Formats \cup {None}] /\ events' \in Seq(Event)
<1>. SUFFICES Goal
  <2>1. Goal => \A i \in 1..Len(events') : events'[i] \in [user: Users, type: EventType]
    BY EventsTyped
  <2>. QED
    BY <1>0, <2>1 DEF DeskTyped, DirectoryTyped
<1>p. plan[c] \in Plan
  BY <1>0
<1>1. CASE CommitShare(c)
  <2>1. call[c].pc = "share" /\ UNCHANGED <<avatar, stored, listed, events, confirmed>>
    BY <1>1 DEF CommitShare, Answered
  <2>2. [owner |-> call[c].who, state |-> "live"] \in Share
    BY <2>1, WhoIs DEF Share
  <2>3. shares' \in [Shares -> Share]
    BY <1>0, <1>1, <2>2 DEF CommitShare
  <2>. QED
    BY <1>0, <2>1, <2>3
<1>2. CASE CommitAvatar(c)
  <2>1. plan[c].photo \in Formats \cup {None}
    BY <1>p DEF Plan
  <2>. QED
    BY <1>0, <1>2, <2>1 DEF CommitAvatar
<1>3. CASE FinishAvatar(c)
  <2>1. plan[c].photo \in Formats \cup {None}
    BY <1>p DEF Plan
  <2>2. UNCHANGED <<shares, stored, listed, events>>
    BY <1>3 DEF FinishAvatar
  <2>3. \E f \in Formats \cup {None} : confirmed' = [confirmed EXCEPT ![call[c].who] = f]
    BY <1>3, <2>1 DEF FinishAvatar
  <2>4. avatar' = avatar \/ avatar' = [avatar EXCEPT ![call[c].who] = None]
    BY <1>0, <1>3 DEF FinishAvatar
  <2>. QED
    BY <1>0, <2>2, <2>3, <2>4
<1>4. CASE DeleteAvatar(c)
  BY <1>0, <1>4 DEF DeleteAvatar
<1>5. CASE CommitLanguage(c)
  <2>1. plan[c].add \subseteq Spellings
    BY <1>p DEF Plan
  <2>2. call[c].who \in Users
    BY <1>5, WhoIs DEF CommitLanguage, Answered
  <2>3. (listed[call[c].who] \ plan[c].out) \cup plan[c].add \in SUBSET Spellings
    BY <1>0, <2>1, <2>2
  <2>. QED
    BY <1>0, <1>5, <2>3 DEF CommitLanguage
<1>6. CASE CommitNote(c)
  <2>1. call[c].who \in Users /\ "admin_note_added" \in EventType
    BY <1>6, WhoIs DEF CommitNote, Answered, EventType
  <2>. QED
    BY <1>0, <1>6, <2>1, Recorded DEF CommitNote
<1>7. CASE CommitSuspension(c)
  <2>1. call[c].who \in Users /\ "account_suspended" \in EventType
    BY <1>7, WhoIs DEF CommitSuspension, FinishSuspend, EventType
  <2>2. shares' \in [Shares -> Share]
    BY <1>0, <1>7 DEF CommitSuspension, Revoking, Share
  <2>3. UNCHANGED <<avatar, stored, listed, confirmed>> /\ Record(call[c].who, "account_suspended")
    BY <1>7 DEF CommitSuspension
  <2>. QED
    BY <1>0, <2>1, <2>2, <2>3, Recorded
<1>8. CASE CommitRestoration(c)
  <2>1. call[c].who \in Users /\ "account_restored" \in EventType
    BY <1>8, WhoIs DEF CommitRestoration, FinishRestore, EventType
  <2>. QED
    BY <1>0, <1>8, <2>1, Recorded DEF CommitRestoration
<1>9. CASE CommitReset(c)
  <2>1. call[c].who \in Users /\ "password_reset_initiated" \in EventType
    BY <1>9, WhoIs DEF CommitReset, CreateReset, EventType
  <2>2. events' = events \/ Record(call[c].who, "password_reset_initiated")
    BY <1>9 DEF CommitReset
  <2>. QED
    BY <1>0, <1>9, <2>1, <2>2, Recorded DEF CommitReset
<1>10. CASE FinishErase(c)
  <2>1. shares' \in [Shares -> Share]
    BY <1>0, <1>10 DEF FinishErase, NoShare, Share
  <2>2. avatar' = avatar \/ avatar' = [avatar EXCEPT ![call[c].who] = None]
    BY <1>0, <1>10 DEF FinishErase
  <2>. QED
    BY <1>0, <1>10, <2>1, <2>2 DEF FinishErase
<1>11. CASE Ended(c)
  <2>1. PICK u \in Users, type \in {"session_revoked", "all_sessions_revoked"} : Record(u, type)
    BY <1>11 DEF Ended
  <2>2. type \in EventType
    BY DEF EventType
  <2>. QED
    BY <1>0, <1>11, <2>1, <2>2, Recorded DEF Ended
<1>12. CASE Issued(c) \/ Retaken(c) \/ Dropped
  BY <1>0, <1>12 DEF Issued, Retaken, Dropped, Desk
<1>. HIDE DEF Goal
<1>. QED
  BY Zenon, <1>1, <1>2, <1>3, <1>4, <1>5, <1>6, <1>7, <1>8, <1>9, <1>10, <1>11, <1>12 DEF Commits

LEMMA DeskKept == ASSUME Typed, DeskTyped, Acts PROVE DeskTyped'
<1>0. /\ shares \in [Shares -> Share] /\ avatar \in [Users -> Formats \cup {None}]
      /\ stored \subseteq Users \X Formats /\ listed \in [Users -> SUBSET Spellings]
      /\ plan \in [Calls -> Plan] /\ confirmed \in [Users -> Formats \cup {None}] /\ events \in Seq(Event)
  BY DEF DeskTyped, DirectoryTyped
<1>. DEFINE Goal == /\ shares' \in [Shares -> Share] /\ avatar' \in [Users -> Formats \cup {None}]
                    /\ stored' \subseteq Users \X Formats /\ listed' \in [Users -> SUBSET Spellings]
                    /\ plan' \in [Calls -> Plan] /\ confirmed' \in [Users -> Formats \cup {None}] /\ events' \in Seq(Event)
<1>a. ASSUME Goal PROVE DeskTyped'
  <2>1. \A i \in 1..Len(events') : events'[i] \in [user: Users, type: EventType]
    BY <1>a, EventsTyped
  <2>. QED
    BY <1>a, <2>1 DEF DeskTyped, DirectoryTyped
<1>1. ASSUME NEW c \in Calls, NEW u \in Users, NEW x \in DeskKinds, Opens(c, u, x), Reads(c, u, x) PROVE Goal
  BY <1>0, <1>1 DEF Opens, Reads
<1>2. ASSUME NEW c \in Calls, EraseStored(c) PROVE Goal
  <2>1. UNCHANGED <<shares, avatar, listed, events, plan>>
    BY <1>2, StoredIs
  <2>. QED
    BY <1>0, <1>2, <2>1 DEF EraseStored
<1>3. CASE Aside
  <2>1. ASSUME ShareLapses PROVE Goal
    <3>0. PICK s \in Shares : shares' = [shares EXCEPT ![s].state = "lapsed"]
      BY <2>1 DEF ShareLapses
    <3>1. shares' \in [Shares -> Share]
      BY <1>0, <3>0 DEF Share
    <3>2. UNCHANGED <<avatar, stored, listed, events, plan, confirmed>>
      BY <2>1 DEF ShareLapses
    <3>. QED
      BY <1>0, <3>1, <3>2
  <2>2. ASSUME NEW u \in Users, PutPhoto(u) PROVE Goal
    BY <1>0, <2>2 DEF PutPhoto
  <2>3. ASSUME UNCHANGED Desk PROVE Goal
    BY <1>0, <1>3, <2>3 DEF Desk, Aside
  <2>. QED
    BY <1>3, <1>a, <2>1, <2>2, <2>3 DEF Aside
<1>. HIDE DEF Goal
<1>4. CASE \E c \in Calls, u \in Users, x \in DeskKinds : Opens(c, u, x) /\ Reads(c, u, x)
  <2>1. PICK c \in Calls, u \in Users, x \in DeskKinds : Opens(c, u, x) /\ Reads(c, u, x)
    BY <1>4
  <2>2. Goal
    BY Zenon, <1>1, <2>1
  <2>. QED
    BY <1>a, <2>2
<1>5. CASE \E c \in Calls : Ends(c) /\ Commits(c)
  BY <1>5, CommitsTyped
<1>6. CASE \E c \in Calls : EraseStored(c)
  BY <1>2, <1>6, <1>a
<1>. QED
  BY <1>3, <1>4, <1>5, <1>6, <1>a DEF Acts

--------------------------------------------------------------------------------
(* Links: made by a call, lapsed, revoked, or gone with their owner.             *)
Made(c, s) == Ends(c) /\ call[c].pc = "share" /\ shares'[s].owner = call[c].who /\ shares'[s].state = "live"
LEMMA SharesEffect ==
  ASSUME Typed, DeskTyped, Acts, NEW s \in Shares
  PROVE \/ shares'[s] = shares[s] \/ shares'[s] = NoShare
        \/ \E c \in Calls : Made(c, s)
        \/ /\ shares'[s].owner = shares[s].owner /\ shares'[s].state \in {"lapsed", "revoked"}
           /\ shares[s].state = "revoked" => shares'[s].state = "revoked"
<1>. DEFINE Goal == \/ shares'[s] = shares[s] \/ shares'[s] = NoShare
                    \/ \E c \in Calls : Made(c, s)
                    \/ /\ shares'[s].owner = shares[s].owner /\ shares'[s].state \in {"lapsed", "revoked"}
                       /\ shares[s].state = "revoked" => shares'[s].state = "revoked"
<1>. SUFFICES Goal
  OBVIOUS
<1>0. shares \in [Shares -> Share]
  BY DEF DeskTyped, DirectoryTyped
<1>1. ASSUME shares' = shares PROVE Goal
  BY <1>1
<1>2. ASSUME NEW c \in Calls, Ends(c), CommitShare(c) PROVE Goal
  <2>1. PICK t \in Shares : shares' = [shares EXCEPT ![t] = [owner |-> call[c].who, state |-> "live"]]
    BY <1>2 DEF CommitShare
  <2>2. call[c].pc = "share"
    BY <1>2 DEF CommitShare, Answered
  <2>3. CASE s = t
    BY <1>0, <1>2, <2>1, <2>2, <2>3 DEF Made
  <2>. QED
    BY <1>0, <2>1, <2>3
<1>3. ASSUME NEW c \in Calls, CommitSuspension(c) PROVE Goal
  <2>1. shares' = Revoking(plan[c].shares)
    BY <1>3 DEF CommitSuspension
  <2>. QED
    BY <1>0, <2>1 DEF Revoking, Share
<1>4. ASSUME NEW c \in Calls, FinishErase(c) PROVE Goal
  BY <1>4 DEF FinishErase
<1>5. ASSUME NEW c \in Calls, Commits(c), ~CommitShare(c), ~CommitSuspension(c), ~FinishErase(c) PROVE shares' = shares
  BY <1>5 DEF Commits, CommitAvatar, FinishAvatar, DeleteAvatar, CommitLanguage, CommitNote, CommitRestoration, CommitReset,
       Issued, Retaken, Ended, Dropped, Desk
<1>6. ASSUME ShareLapses PROVE Goal
  <2>1. PICK t \in Shares : shares[t].state = "live" /\ shares' = [shares EXCEPT ![t].state = "lapsed"]
    BY <1>6 DEF ShareLapses
  <2>2. CASE s = t
    BY <1>0, <2>1, <2>2 DEF Share
  <2>. QED
    BY <1>0, <2>1, <2>2
<1>7. ASSUME Aside, ~ShareLapses PROVE shares' = shares
  BY <1>7 DEF Aside, PutPhoto, Desk
<1>. HIDE DEF Goal
<1>8. CASE \E c \in Calls, u \in Users, x \in DeskKinds : Opens(c, u, x) /\ Reads(c, u, x)
  BY <1>1, <1>8 DEF Opens
<1>9. CASE \E c \in Calls : Ends(c) /\ Commits(c)
  BY Zenon, <1>1, <1>2, <1>3, <1>4, <1>5, <1>9
<1>10. CASE \E c \in Calls : EraseStored(c)
  BY <1>1, <1>10, StoredIs
<1>11. CASE Aside
  BY <1>1, <1>6, <1>7, <1>11
<1>. QED
  BY <1>8, <1>9, <1>10, <1>11 DEF Acts
LEMMA ErasedShares == ASSUME Typed, NEW v \in Users, Erased(v), NEW s \in Shares PROVE shares'[s].owner # v
<1>1. PICK c \in Calls : FinishErase(c) /\ call[c].who = v
  BY DEF Erased, Doing
<1>2. shares' = [t \in Shares |-> IF shares[t].owner = v THEN NoShare ELSE shares[t]]
  BY <1>1 DEF FinishErase
<1>. QED
  BY <1>2, AccountAssumption DEF NoShare

LEMMA OwnersKept == ASSUME Typed, ErasersIs, DeskTyped, OverlapsIs, OwnersIs, Acts PROVE OwnersIs'
<1>. USE Kinds12
<1>1. ASSUME NEW s \in Shares, shares'[s].owner # None PROVE shares'[s].state # "none"
  BY <1>1, SharesEffect DEF OwnersIs, NoShare, Made
<1>2. ASSUME NEW v \in Users, users'[v].deleted, <<v, {"share", "erase"}>> \notin crossed', NEW s \in Shares
      PROVE shares'[s].owner # v
  <2>0. <<v, {"share", "erase"}>> \notin crossed
    BY <1>2, GoesOn
  <2>1. ASSUME ~Erased(v) PROVE users[v].deleted
    BY <1>2, <2>1, UserEffect
  <2>2. ASSUME users[v].deleted PROVE shares'[s].owner # v
    <3>1. shares[s].owner # v
      BY <2>0, <2>2 DEF OwnersIs
    <3>2. ASSUME NEW c \in Calls, Made(c, s) PROVE call[c].who # v
      BY <2>0, <2>2, <3>2 DEF OverlapsIs, Doing, Made
    <3>. QED
      BY <3>1, <3>2, SharesEffect, AccountAssumption DEF NoShare, Made
  <2>. QED
    BY <2>1, <2>2, ErasedShares
<1>. QED
  BY <1>1, <1>2 DEF OwnersIs

\* The links of an account are no more than before, but for those made.
LEMMA SharesShrink ==
  ASSUME Typed, DeskTyped, Acts, NEW v \in Users, \A c \in Calls : Ends(c) => ~Doing(c, v, "share")
  PROVE SharesOf(v)' \subseteq SharesOf(v)
<1>1. ASSUME NEW s \in Shares, shares'[s].owner = v, shares'[s].state # "revoked"
      PROVE shares[s].owner = v /\ shares[s].state # "revoked"
  BY <1>1, SharesEffect, AccountAssumption DEF NoShare, Made, Doing
<1>. QED
  BY <1>1 DEF SharesOf

--------------------------------------------------------------------------------
(* A suspended account.                                                          *)
LEMMA TokensEffect ==
  ASSUME Typed, Acts, NEW v \in Users, NEW t \in Tokens, tokens'[t].user = v, tokens'[t].live
  PROVE (tokens[t].user = v /\ tokens[t].live) \/ (\E c \in Calls : Ends(c) /\ Doing(c, v, "mint"))
<1>. DEFINE Goal == (tokens[t].user = v /\ tokens[t].live) \/ (\E c \in Calls : Ends(c) /\ Doing(c, v, "mint"))
<1>. SUFFICES Goal
  OBVIOUS
<1>0. SessionRowsTyped
  BY DEF Typed, RowsTyped
<1>1. ASSUME tokens' = tokens PROVE Goal
  BY <1>1
<1>2. ASSUME NEW S \in SUBSET Tokens, tokens' = Revoked(S) PROVE Goal
  BY <1>0, <1>2, TokensRevoked
<1>3. ASSUME NEW c \in Calls, Ends(c), Issued(c) PROVE Goal
  <2>1. call[c].pc = "mint" /\ Mint(call[c].who) /\ call[c].who \in Users
    BY <1>3, WhoIs, Kinds12 DEF Issued, IssueTokens
  <2>2. PICK s \in Tokens : tokens' = [tokens EXCEPT ![s] = [user |-> call[c].who, family |-> s, live |-> TRUE, stray |-> FALSE]]
    BY <1>0, <2>1, Minted
  <2>3. CASE s = t
    BY <1>0, <1>3, <2>1, <2>2, <2>3 DEF SessionRowsTyped, Doing
  <2>. QED
    BY <1>0, <2>2, <2>3 DEF SessionRowsTyped
<1>4. ASSUME NEW c \in Calls, Retaken(c) \/ CommitSuspension(c) PROVE Goal
  <2>1. \E S \in SUBSET Tokens : tokens' = Revoked(S)
    <3>1. {x \in Tokens : tokens[x].user = call[c].who} \in SUBSET Tokens
      OBVIOUS
    <3>. QED
      BY <1>4, <3>1 DEF Retaken, ResetPassword, CommitSuspension, FinishSuspend
  <2>. QED
    BY <1>2, <2>1
<1>5. ASSUME NEW c \in Calls, Ended(c) PROVE Goal
  BY <1>2, <1>5 DEF Ended
<1>6. ASSUME NEW c \in Calls, FinishErase(c) PROVE Goal
  <2>1. tokens' = [x \in Tokens |-> IF tokens[x].user = call[c].who THEN [tokens[x] EXCEPT !.user = None, !.live = FALSE] ELSE tokens[x]]
    BY Zenon, <1>6 DEF FinishErase, CommitErase
  <2>2. CASE tokens[t].user = call[c].who
    <3>1. tokens'[t].live = FALSE
      BY Zenon, <1>0, <2>1, <2>2 DEF SessionRowsTyped, Token
    <3>. QED
      BY <3>1
  <2>. QED
    BY Zenon, <2>1, <2>2
<1>7. ASSUME NEW c \in Calls, Commits(c), ~Issued(c), ~Retaken(c), ~CommitSuspension(c), ~Ended(c), ~FinishErase(c)
      PROVE tokens' = tokens
  BY <1>7 DEF Commits, CommitShare, CommitAvatar, FinishAvatar, DeleteAvatar, CommitLanguage, CommitNote, CommitRestoration,
       FinishRestore, CommitReset, CreateReset, Dropped, Answered, sessionVars
<1>. HIDE DEF Goal
<1>8. CASE \E c \in Calls, u \in Users, x \in DeskKinds : Opens(c, u, x) /\ Reads(c, u, x)
  BY <1>1, <1>8 DEF Opens
<1>9. CASE \E c \in Calls : Ends(c) /\ Commits(c)
  BY Zenon, <1>1, <1>3, <1>4, <1>5, <1>6, <1>7, <1>9
<1>10. CASE \E c \in Calls : EraseStored(c)
  BY <1>1, <1>10, StoredIs
<1>11. CASE Aside
  BY <1>1, <1>11 DEF Aside
<1>. QED
  BY <1>8, <1>9, <1>10, <1>11 DEF Acts

\* What a suspension shuts.
LEMMA SuspendedNow ==
  ASSUME Typed, DeskTyped, NEW c \in Calls, CommitSuspension(c)
  PROVE /\ \A t \in Tokens : tokens'[t].user = call[c].who => ~tokens'[t].live
        /\ SharesOf(call[c].who) \subseteq plan[c].shares =>
             \A s \in Shares : shares'[s].owner = call[c].who => shares'[s].state = "revoked"
<1>1. \A t \in Tokens : tokens'[t].user = call[c].who => ~tokens'[t].live
  <2>. DEFINE S == {t \in Tokens : tokens[t].user = call[c].who}
  <2>1. tokens' = Revoked(S) /\ S \in SUBSET Tokens /\ SessionRowsTyped
    BY DEF CommitSuspension, FinishSuspend, Typed, RowsTyped
  <2>2. \A t \in Tokens : tokens'[t].user = tokens[t].user /\ tokens'[t].live = (tokens[t].live /\ t \notin S)
    BY <2>1, TokensRevoked
  <2>. QED
    BY <2>2
<1>2. shares \in [Shares -> Share] /\ shares' = Revoking(plan[c].shares) /\ call' = [call EXCEPT ![c] = Done]
  BY DEF CommitSuspension, FinishSuspend, Finish, DeskTyped, DirectoryTyped
<1>3. ASSUME SharesOf(call[c].who) \subseteq plan[c].shares, NEW s \in Shares, shares'[s].owner = call[c].who
      PROVE shares'[s].state = "revoked"
  BY <1>2, <1>3 DEF Revoking, Share, SharesOf
<1>. QED
  BY <1>1, <1>3

\* An account that is suspended was so before, or is now.
LEMMA Suspends ==
  ASSUME Typed, ErasersIs, OverlapsIs, Acts, NEW v \in Users, users'[v] # NoUser, ~users'[v].deleted, ~users'[v].active
  PROVE \/ users[v] # NoUser /\ ~users[v].deleted /\ ~users[v].active
        \/ \E c \in Calls : Ends(c) /\ CommitSuspension(c) /\ Doing(c, v, "suspend")
<1>1. ASSUME Rewritten(v), users'[v].deleted = users[v].deleted
      PROVE \/ users[v] # NoUser /\ ~users[v].deleted /\ ~users[v].active
            \/ \E c \in Calls : Ends(c) /\ CommitSuspension(c) /\ Doing(c, v, "suspend")
  <2>1. ASSUME NEW c \in Calls, Doing(c, v, "reset"), users'[v].active = users[v].active
        PROVE users[v] # NoUser /\ ~users[v].deleted /\ ~users[v].active
    <3>1. users[v].email # None
      BY <1>1, <2>1, Kinds12 DEF OverlapsIs
    <3>. QED
      BY <1>1, <2>1, <3>1 DEF NoUser
  <2>. QED
    BY <1>1, <2>1 DEF Rewritten
<1>. QED
  BY <1>1, UserEffect

LEMMA ShutKept == ASSUME Typed, ErasersIs, DeskTyped, OverlapsIs, ShutIs, Acts PROVE ShutIs'
<1>. USE Kinds12
<1>1. ASSUME NEW v \in Users, NEW c \in Calls, Doing(c, v, "suspend")', <<v, {"share", "suspend"}>> \notin crossed'
      PROVE SharesOf(v)' \subseteq plan'[c].shares
  <2>0. <<v, {"share", "suspend"}>> \notin crossed
    BY <1>1, GoesOn
  <2>1. ASSUME Doing(c, v, "suspend"), plan'[c] = plan[c] PROVE SharesOf(v)' \subseteq plan'[c].shares
    <3>1. SharesOf(v) \subseteq plan[c].shares
      BY <2>0, <2>1 DEF ShutIs
    <3>2. ASSUME NEW d \in Calls, Doing(d, v, "share") PROVE FALSE
      <4>1. c # d
        BY <2>1, <3>2 DEF Doing
      <4>. QED
        BY <2>0, <2>1, <3>2, <4>1, Meets
    <3>3. SharesOf(v)' \subseteq SharesOf(v)
      BY <3>2, SharesShrink
    <3>. QED
      BY <2>1, <3>1, <3>3
  <2>2. ASSUME Opens(c, v, "suspend"), Reads(c, v, "suspend") PROVE SharesOf(v)' \subseteq plan'[c].shares
    <3>1. shares' = shares /\ plan'[c].shares = SharesOf(v)
      BY <2>2 DEF Opens, Reads
    <3>. QED
      BY <3>1 DEF SharesOf
  <2>. QED
    BY <1>1, <2>1, <2>2, GoesOn
<1>2. ASSUME NEW v \in Users, users'[v] # NoUser, ~users'[v].deleted, ~users'[v].active, <<v, {"mint", "suspend"}>> \notin crossed'
      PROVE (\A t \in Tokens : tokens'[t].user = v => ~tokens'[t].live) /\ \A c \in Calls : ~Doing(c, v, "mint")'
  <2>0. <<v, {"mint", "suspend"}>> \notin crossed
    BY <1>2, GoesOn
  <2>1. ASSUME NEW c \in Calls PROVE ~(Opens(c, v, "mint") /\ Reads(c, v, "mint"))
    BY <1>2 DEF Opens, Reads
  <2>2. ASSUME users[v] # NoUser, ~users[v].deleted, ~users[v].active
        PROVE (\A t \in Tokens : tokens[t].user = v => ~tokens[t].live) /\ \A c \in Calls : ~Doing(c, v, "mint")
    BY <2>0, <2>2 DEF ShutIs
  <2>3. ASSUME NEW c \in Calls, CommitSuspension(c), Doing(c, v, "suspend")
        PROVE (\A t \in Tokens : tokens'[t].user = v => ~tokens'[t].live) /\ \A d \in Calls : ~Doing(d, v, "mint")
    <3>1. call[c].who = v
      BY <2>3 DEF Doing
    <3>2. ASSUME NEW d \in Calls, Doing(d, v, "mint") PROVE FALSE
      <4>1. c # d
        BY <2>3, <3>2 DEF Doing
      <4>. QED
        BY <2>0, <2>3, <3>2, <4>1, Meets
    <3>. QED
      BY <2>3, <3>1, <3>2, SuspendedNow
  <2>4. \A c \in Calls : ~Doing(c, v, "mint")
    BY <1>2, <2>2, <2>3, Suspends
  <2>5. \A t \in Tokens : tokens'[t].user = v => ~tokens'[t].live
    BY <1>2, <2>2, <2>3, <2>4, Suspends, TokensEffect
  <2>. QED
    BY <2>1, <2>4, <2>5, GoesOn
<1>3. ASSUME NEW v \in Users, users'[v] # NoUser, ~users'[v].deleted, ~users'[v].active, <<v, {"share", "suspend"}>> \notin crossed'
      PROVE SharesOf(v)' = {} /\ \A c \in Calls : ~Doing(c, v, "share")'
  <2>0. <<v, {"share", "suspend"}>> \notin crossed
    BY <1>3, GoesOn
  <2>1. ASSUME NEW c \in Calls PROVE ~(Opens(c, v, "share") /\ Reads(c, v, "share"))
    BY <1>3 DEF Opens, Reads
  <2>2. ASSUME users[v] # NoUser, ~users[v].deleted, ~users[v].active
        PROVE SharesOf(v) = {} /\ \A c \in Calls : ~Doing(c, v, "share")
    BY <2>0, <2>2 DEF ShutIs
  <2>3. ASSUME NEW c \in Calls, CommitSuspension(c), Doing(c, v, "suspend")
        PROVE SharesOf(v)' = {} /\ \A d \in Calls : ~Doing(d, v, "share")
    <3>0. SharesOf(v) \subseteq plan[c].shares
      BY <2>0, <2>3 DEF ShutIs
    <3>1. call[c].who = v
      BY <2>3 DEF Doing
    <3>2. ASSUME NEW d \in Calls, Doing(d, v, "share") PROVE FALSE
      <4>1. c # d
        BY <2>3, <3>2 DEF Doing
      <4>. QED
        BY <2>0, <2>3, <3>2, <4>1, Meets
    <3>3. \A s \in Shares : shares'[s].owner = v => shares'[s].state = "revoked"
      BY <2>3, <3>0, <3>1, SuspendedNow
    <3>4. SharesOf(v)' = {}
      BY <3>3 DEF SharesOf
    <3>. QED
      BY <3>2, <3>4
  <2>4. \A c \in Calls : ~Doing(c, v, "share")
    BY <1>3, <2>2, <2>3, Suspends
  <2>5. SharesOf(v)' \subseteq SharesOf(v)
    BY <2>4, SharesShrink
  <2>6. SharesOf(v)' = {}
    BY <1>3, <2>2, <2>3, <2>5, Suspends
  <2>. QED
    BY <2>1, <2>4, <2>6, GoesOn
<1>. QED
  BY Zenon, <1>1, <1>2, <1>3 DEF ShutIs

--------------------------------------------------------------------------------
(* The account's history: its last suspension or restoration.                    *)
Says(e, u) == e.user = u /\ e.type \in {"account_suspended", "account_restored"}
Said(ev, u) == {i \in DOMAIN ev : Says(ev[i], u)}
Restored(ev, u) == \A i \in Said(ev, u) : (\A j \in Said(ev, u) : j <= i) => ev[i].type = "account_restored"
LEMMA LastWordIs == LastWord <=> \A u \in Users : Found(u) => users[u].active = Restored(events, u)
  BY DEF LastWord, Restored, Said, Says
LEMMA WordKept ==
  ASSUME NEW ev \in Seq(Event), NEW e \in Event, NEW u, ~Says(e, u)
  PROVE Restored(Append(ev, e), u) <=> Restored(ev, u)
<1>1. DOMAIN Append(ev, e) = 1..(Len(ev) + 1) /\ DOMAIN ev = 1..Len(ev) /\ Len(ev) \in Nat
  OBVIOUS
<1>2. Append(ev, e)[Len(ev) + 1] = e /\ \A i \in 1..Len(ev) : Append(ev, e)[i] = ev[i]
  OBVIOUS
<1>3. Said(Append(ev, e), u) = Said(ev, u) /\ Said(ev, u) \subseteq 1..Len(ev)
  BY <1>1, <1>2 DEF Said
<1>. QED
  BY <1>2, <1>3 DEF Restored
LEMMA WordSaid ==
  ASSUME NEW ev \in Seq(Event), NEW e \in Event, NEW u, Says(e, u)
  PROVE Restored(Append(ev, e), u) <=> e.type = "account_restored"
<1>. DEFINE n == Len(ev) + 1
<1>1. DOMAIN Append(ev, e) = 1..n /\ n \in 1..n
  OBVIOUS
<1>2. Append(ev, e)[n] = e
  OBVIOUS
<1>3. n \in Said(Append(ev, e), u) /\ Said(Append(ev, e), u) \subseteq 1..n
  BY <1>1, <1>2 DEF Said
<1>4. n \in Nat /\ \A i \in 1..n : i <= n /\ (n <= i => i = n)
  OBVIOUS
<1>. HIDE DEF n
<1>5. \A i \in Said(Append(ev, e), u) : (\A j \in Said(Append(ev, e), u) : j <= i) <=> i = n
  BY <1>3, <1>4
<1>. QED
  BY <1>2, <1>3, <1>5 DEF Restored

\* Only a suspension and a restoration say something of an account, and they change it so.
LEMMA WordEffect ==
  ASSUME Typed, ErasersIs, DeskTyped, Acts, NEW v \in Users
  PROVE \/ users'[v].deleted
        \/ users'[v].active = users[v].active /\ (Restored(events', v) <=> Restored(events, v))
        \/ users'[v].active = Restored(events', v)
<1>. DEFINE Goal == \/ users'[v].deleted
                    \/ users'[v].active = users[v].active /\ (Restored(events', v) <=> Restored(events, v))
                    \/ users'[v].active = Restored(events', v)
<1>. SUFFICES Goal
  OBVIOUS
<1>0. users \in [Users -> User] /\ events \in Seq(Event)
  BY DEF Typed, RowsTyped, DeskTyped
<1>1. ASSUME UNCHANGED <<users, events>> PROVE Goal
  BY <1>1
<1>2. ASSUME NEW c \in Calls, CommitSuspension(c) PROVE Goal
  <2>1. /\ call[c].who \in Users /\ users' = [users EXCEPT ![call[c].who].active = FALSE]
        /\ events' = Append(events, [user |-> call[c].who, type |-> "account_suspended"])
    BY <1>2, WhoIs, Kinds12 DEF CommitSuspension, FinishSuspend, Record
  <2>2. [user |-> call[c].who, type |-> "account_suspended"] \in Event
    BY <2>1 DEF Event, EventType
  <2>3. CASE call[c].who = v
    <3>1. users'[v].active = FALSE
      BY <1>0, <2>1, <2>3 DEF User
    <3>2. Restored(events', v) = FALSE
      BY <1>0, <2>1, <2>2, <2>3, WordSaid DEF Says, Restored
    <3>. QED
      BY <3>1, <3>2
  <2>4. CASE call[c].who # v
    <3>1. users'[v] = users[v]
      BY <1>0, <2>1, <2>4
    <3>2. Restored(events', v) <=> Restored(events, v)
      BY <1>0, <2>1, <2>2, <2>4, WordKept DEF Says
    <3>. QED
      BY <3>1, <3>2
  <2>. QED
    BY <2>3, <2>4
<1>3. ASSUME NEW c \in Calls, CommitRestoration(c) PROVE Goal
  <2>1. /\ call[c].who \in Users /\ users' = [users EXCEPT ![call[c].who].active = TRUE]
        /\ events' = Append(events, [user |-> call[c].who, type |-> "account_restored"])
    BY <1>3, WhoIs, Kinds12 DEF CommitRestoration, FinishRestore, Record
  <2>2. [user |-> call[c].who, type |-> "account_restored"] \in Event
    BY <2>1 DEF Event, EventType
  <2>3. CASE call[c].who = v
    <3>1. users'[v].active = TRUE
      BY <1>0, <2>1, <2>3 DEF User
    <3>2. PICK e \in Event : e.user = v /\ e.type = "account_restored" /\ events' = Append(events, e)
      BY <2>1, <2>2, <2>3
    <3>3. Says(e, v)
      BY <3>2 DEF Says
    <3>4. Restored(events', v)
      BY <1>0, <3>2, <3>3, WordSaid
    <3>5. Restored(events', v) \in BOOLEAN
      BY DEF Restored
    <3>. QED
      BY <3>1, <3>4, <3>5
  <2>4. CASE call[c].who # v
    <3>1. users'[v] = users[v]
      BY <1>0, <2>1, <2>4
    <3>2. Restored(events', v) <=> Restored(events, v)
      BY <1>0, <2>1, <2>2, <2>4, WordKept DEF Says
    <3>. QED
      BY <3>1, <3>2
  <2>. QED
    BY <2>3, <2>4
<1>4. ASSUME NEW u \in Users, NEW type \in EventType \ {"account_suspended", "account_restored"}, Record(u, type)
      PROVE Restored(events', v) <=> Restored(events, v)
  <2>1. events' = Append(events, [user |-> u, type |-> type]) /\ [user |-> u, type |-> type] \in Event
    BY <1>4 DEF Record, Event
  <2>2. ~Says([user |-> u, type |-> type], v)
    BY DEF Says
  <2>. QED
    BY <1>0, <2>1, <2>2, WordKept
<1>5. "admin_note_added" \in EventType /\ "session_revoked" \in EventType /\ "all_sessions_revoked" \in EventType
      /\ "password_reset_initiated" \in EventType
  BY DEF EventType
<1>6. ASSUME NEW c \in Calls, CommitNote(c) PROVE Goal
  <2>1. call[c].who \in Users /\ Record(call[c].who, "admin_note_added") /\ users' = users
    BY <1>6, WhoIs, Kinds12 DEF CommitNote, Answered
  <2>. QED
    BY <1>4, <1>5, <2>1
<1>7. ASSUME NEW c \in Calls, CommitReset(c) PROVE Goal
  <2>1. call[c].who \in Users /\ users' = users
    BY <1>7, WhoIs, Kinds12 DEF CommitReset, CreateReset
  <2>2. events' = events \/ Record(call[c].who, "password_reset_initiated")
    BY <1>7 DEF CommitReset
  <2>. QED
    BY <1>4, <1>5, <2>1, <2>2
<1>8. ASSUME NEW c \in Calls, Ended(c) PROVE Goal
  <2>1. users' = users /\ \E u \in Users, type \in {"session_revoked", "all_sessions_revoked"} : Record(u, type)
    BY <1>8 DEF Ended
  <2>. QED
    BY <1>4, <1>5, <2>1
<1>9. ASSUME NEW c \in Calls, FinishErase(c) PROVE Goal
  <2>1. CommitErase(c) /\ events' = events
    BY <1>9 DEF FinishErase
  <2>2. users'[v].deleted \/ users'[v] = users[v]
    BY <2>1, ErasedRow
  <2>. QED
    BY <2>1, <2>2
<1>10. ASSUME NEW c \in Calls, Retaken(c) PROVE Goal
  <2>1. users' = [users EXCEPT ![call[c].who].password = TRUE] /\ events' = events
    BY <1>10 DEF Retaken, ResetPassword, Desk
  <2>2. users'[v].active = users[v].active
    BY <1>0, <2>1 DEF User
  <2>. QED
    BY <2>1, <2>2
<1>11. ASSUME NEW c \in Calls, Commits(c), ~CommitSuspension(c), ~CommitRestoration(c), ~CommitNote(c), ~CommitReset(c), ~Ended(c),
              ~FinishErase(c), ~Retaken(c)
       PROVE UNCHANGED <<users, events>>
  BY <1>11 DEF Commits, CommitShare, CommitAvatar, FinishAvatar, DeleteAvatar, CommitLanguage, Issued, IssueTokens, Dropped, Answered, Desk
<1>. HIDE DEF Goal
<1>12. CASE \E c \in Calls, u \in Users, x \in DeskKinds : Opens(c, u, x) /\ Reads(c, u, x)
  BY <1>1, <1>12 DEF Opens
<1>13. CASE \E c \in Calls : Ends(c) /\ Commits(c)
  BY Zenon, <1>1, <1>2, <1>3, <1>6, <1>7, <1>8, <1>9, <1>10, <1>11, <1>13
<1>14. CASE \E c \in Calls : EraseStored(c)
  BY <1>1, <1>14, StoredIs
<1>15. CASE Aside
  <2>1. UNCHANGED <<users, events>>
    BY <1>15 DEF Aside, ShareLapses, PutPhoto, Desk
  <2>. QED
    BY <1>1, <2>1
<1>. QED
  BY <1>12, <1>13, <1>14, <1>15 DEF Acts

LEMMA WordsKept == ASSUME Typed, ErasersIs, DeskTyped, LastWord, Acts PROVE LastWord'
<1>1. ASSUME NEW v \in Users, Found(v)' PROVE users'[v].active = Restored(events', v)
  <2>1. ~users'[v].deleted
    BY <1>1 DEF Found
  <2>2. users'[v].active = users[v].active /\ (Restored(events', v) <=> Restored(events, v)) => Found(v)
    BY <1>1, <2>1, UserEffect DEF Found
  <2>3. Found(v) => users[v].active = Restored(events, v)
    BY LastWordIs
  <2>4. users[v].active \in BOOLEAN
    BY DEF Typed, RowsTyped, User
  <2>5. Restored(events, v) \in BOOLEAN /\ Restored(events', v) \in BOOLEAN
    BY DEF Restored
  <2>. QED
    BY <2>1, <2>2, <2>3, <2>5, WordEffect
<1>2. (\A u \in Users : Found(u) => users[u].active = Restored(events, u))'
  BY <1>1 DEF Restored, Said
<1>. QED
  BY <1>2, LastWordIs, PTL

--------------------------------------------------------------------------------
(* Links that reset a password.                                                  *)
Usable(k, u) == resets[k].user = u /\ ~resets[k].used
LEMMA ResetsEffect ==
  ASSUME Typed, Acts, NEW v \in Users, NEW k \in Resets, Usable(k, v)'
  PROVE Usable(k, v) \/ \E c \in Calls : Ends(c) /\ CommitReset(c) /\ Doing(c, v, "forgot")
<1>. DEFINE Goal == Usable(k, v) \/ \E c \in Calls : Ends(c) /\ CommitReset(c) /\ Doing(c, v, "forgot")
<1>. SUFFICES Goal
  OBVIOUS
<1>0. resets \in [Resets -> Reset] /\ resets'[k].user = v /\ ~resets'[k].used
  BY DEF Typed, RowsTyped, SessionRowsTyped, Usable
<1>1. ASSUME resets' = resets PROVE Goal
  BY <1>0, <1>1 DEF Usable
<1>2. ASSUME NEW c \in Calls, Ends(c), CommitReset(c) PROVE Goal
  <2>1. call[c].pc = "forgot" /\ CreateReset(c)
    BY <1>2 DEF CommitReset, CreateReset
  <2>2. CASE call[c].who = v
    BY <1>2, <2>1, <2>2 DEF Doing
  <2>3. CASE call[c].who # v
    <3>1. PICK f \in Resets : resets' = [x \in Resets |->
                    IF x = f THEN [user |-> call[c].who, used |-> FALSE]
                    ELSE IF x \in call[c].gone THEN [resets[x] EXCEPT !.used = TRUE] ELSE resets[x]]
      BY <2>1 DEF CreateReset
    <3>2. k # f
      BY <1>0, <2>3, <3>1
    <3>3. k \notin call[c].gone
      BY <1>0, <3>1, <3>2 DEF Reset
    <3>. QED
      BY <1>0, <3>1, <3>2, <3>3 DEF Usable
  <2>. QED
    BY <2>2, <2>3
<1>3. ASSUME NEW c \in Calls, Retaken(c) PROVE Goal
  <2>1. resets' = [x \in Resets |-> IF resets[x].user = call[c].who THEN [resets[x] EXCEPT !.used = TRUE] ELSE resets[x]]
    BY <1>3 DEF Retaken, ResetPassword
  <2>2. CASE resets[k].user = call[c].who
    <3>1. resets'[k].used = TRUE
      BY <1>0, <2>1, <2>2 DEF Reset
    <3>. QED
      BY <1>0, <3>1
  <2>. QED
    BY <1>0, <2>1, <2>2 DEF Usable
<1>4. ASSUME NEW c \in Calls, FinishErase(c) PROVE Goal
  <2>1. resets' = [x \in Resets |-> IF resets[x].user = call[c].who THEN NoReset ELSE resets[x]]
    BY Zenon, <1>4 DEF FinishErase, CommitErase
  <2>2. resets'[k] # NoReset
    BY <1>0, AccountAssumption DEF NoReset
  <2>. QED
    BY <1>0, <2>1, <2>2 DEF Usable
<1>5. ASSUME NEW c \in Calls, Commits(c), ~CommitReset(c), ~Retaken(c), ~FinishErase(c) PROVE resets' = resets
  BY <1>5 DEF Commits, CommitShare, CommitAvatar, FinishAvatar, DeleteAvatar, CommitLanguage, CommitNote, CommitSuspension,
       FinishSuspend, CommitRestoration, FinishRestore, Issued, IssueTokens, Ended, Dropped, Answered, sessionVars
<1>. HIDE DEF Goal
<1>6. CASE \E c \in Calls, u \in Users, x \in DeskKinds : Opens(c, u, x) /\ Reads(c, u, x)
  BY <1>1, <1>6 DEF Opens
<1>7. CASE \E c \in Calls : Ends(c) /\ Commits(c)
  BY Zenon, <1>1, <1>2, <1>3, <1>4, <1>5, <1>7
<1>8. CASE \E c \in Calls : EraseStored(c)
  BY <1>1, <1>8, StoredIs
<1>9. CASE Aside
  BY <1>1, <1>9 DEF Aside
<1>. QED
  BY <1>6, <1>7, <1>8, <1>9 DEF Acts

\* A link that is made is the only usable one when the call saw the others.
LEMMA ResetAlone ==
  ASSUME Typed, NEW v \in Users, NEW c \in Calls, CommitReset(c), Doing(c, v, "forgot"),
         \A k \in Resets : Usable(k, v) => k \in call[c].gone
  PROVE \E f \in Resets : \A k \in Resets : Usable(k, v)' => k = f
<1>0. resets \in [Resets -> Reset]
  BY DEF Typed, RowsTyped, SessionRowsTyped
<1>1. PICK f \in Resets : resets' = [x \in Resets |->
                IF x = f THEN [user |-> call[c].who, used |-> FALSE]
                ELSE IF x \in call[c].gone THEN [resets[x] EXCEPT !.used = TRUE] ELSE resets[x]]
  BY DEF CommitReset, CreateReset
<1>2. ASSUME NEW k \in Resets, Usable(k, v)', k # f PROVE FALSE
  <2>1. resets'[k].user = v /\ ~resets'[k].used
    BY <1>2 DEF Usable
  <2>2. k \notin call[c].gone
    BY <1>0, <1>1, <1>2, <2>1 DEF Reset
  <2>3. Usable(k, v)
    BY <1>1, <1>2, <2>1, <2>2 DEF Usable
  <2>. QED
    BY <2>2, <2>3
<1>. QED
  BY <1>2

LEMMA LinksKept == ASSUME Typed, OverlapsIs, LinksIs, Acts PROVE LinksIs'
<1>. USE Kinds12
<1>1. ASSUME NEW v \in Users, <<v, {"forgot"}>> \notin crossed'
      PROVE /\ \A k, l \in Resets : Usable(k, v)' /\ Usable(l, v)' => k = l
            /\ \A c \in Calls : Doing(c, v, "forgot")' => \A k \in Resets : Usable(k, v)' => k \in call'[c].gone
  <2>0. <<v, {"forgot"}>> \notin crossed
    BY <1>1, GoesOn
  <2>1. /\ \A k, l \in Resets : Usable(k, v) /\ Usable(l, v) => k = l
        /\ \A c \in Calls : Doing(c, v, "forgot") => \A k \in Resets : Usable(k, v) => k \in call[c].gone
    BY <2>0 DEF LinksIs, Usable
  <2>2. ASSUME NEW c \in Calls, CommitReset(c), Doing(c, v, "forgot")
        PROVE \A k, l \in Resets : Usable(k, v)' /\ Usable(l, v)' => k = l
    <3>1. \E f \in Resets : \A k \in Resets : Usable(k, v)' => k = f
      BY <2>1, <2>2, ResetAlone
    <3>. QED
      BY <3>1
  <2>3. \A k, l \in Resets : Usable(k, v)' /\ Usable(l, v)' => k = l
    BY <2>1, <2>2, ResetsEffect
  <2>4. ASSUME NEW c \in Calls, Doing(c, v, "forgot"), call'[c].gone = call[c].gone, Doing(c, v, "forgot")',
               NEW k \in Resets, Usable(k, v)'
        PROVE k \in call'[c].gone
    <3>1. ASSUME NEW d \in Calls, Ends(d), Doing(d, v, "forgot") PROVE FALSE
      <4>1. c # d
        BY <2>4, <3>1, EndsDoing
      <4>2. {"forgot", "forgot"} = {"forgot"}
        OBVIOUS
      <4>3. <<v, {"forgot", "forgot"}>> \in crossed
        BY <2>4, <3>1, <4>1, Meets
      <4>. QED
        BY <2>0, <4>2, <4>3
    <3>2. Usable(k, v)
      BY <2>4, <3>1, ResetsEffect
    <3>. QED
      BY <2>1, <2>4, <3>2
  <2>5. ASSUME NEW c \in Calls, Opens(c, v, "forgot"), Reads(c, v, "forgot"), NEW k \in Resets, Usable(k, v)'
        PROVE k \in call'[c].gone
    BY <2>5 DEF Opens, Reads, Usable
  <2>. QED
    BY <2>3, <2>4, <2>5, GoesOn
<1>. QED
  BY <1>1 DEF LinksIs, Usable

--------------------------------------------------------------------------------
(* Languages.                                                                    *)
LEMMA ListedEffect ==
  ASSUME Typed, ErasersIs, DeskTyped, Acts, NEW v \in Users
  PROVE \/ listed'[v] = listed[v] \/ listed'[v] = {}
        \/ \E c \in Calls : Ends(c) /\ Doing(c, v, "page") /\ listed'[v] = (listed[v] \ plan[c].out) \cup plan[c].add
<1>. DEFINE Goal == \/ listed'[v] = listed[v] \/ listed'[v] = {}
                    \/ \E c \in Calls : Ends(c) /\ Doing(c, v, "page") /\ listed'[v] = (listed[v] \ plan[c].out) \cup plan[c].add
<1>. SUFFICES Goal
  OBVIOUS
<1>0. listed \in [Users -> SUBSET Spellings]
  BY DEF DeskTyped, DirectoryTyped
<1>1. ASSUME listed' = listed PROVE Goal
  BY <1>1
<1>2. ASSUME NEW c \in Calls, Ends(c), CommitLanguage(c) PROVE Goal
  <2>1. /\ call[c].pc = "page"
        /\ listed' = [listed EXCEPT ![call[c].who] = (listed[call[c].who] \ plan[c].out) \cup plan[c].add]
    BY <1>2 DEF CommitLanguage, Answered
  <2>2. CASE call[c].who = v
    BY <1>0, <1>2, <2>1, <2>2 DEF Doing
  <2>. QED
    BY <1>0, <2>1, <2>2
<1>3. ASSUME NEW c \in Calls, FinishErase(c) PROVE Goal
  BY <1>0, <1>3 DEF FinishErase
<1>4. ASSUME NEW c \in Calls, Commits(c), ~CommitLanguage(c), ~FinishErase(c) PROVE listed' = listed
  BY <1>4 DEF Commits, CommitShare, CommitAvatar, FinishAvatar, DeleteAvatar, CommitNote, CommitSuspension,
       CommitRestoration, CommitReset, Issued, Retaken, Ended, Dropped, Desk
<1>. HIDE DEF Goal
<1>5. CASE \E c \in Calls, u \in Users, x \in DeskKinds : Opens(c, u, x) /\ Reads(c, u, x)
  BY <1>1, <1>5 DEF Opens
<1>6. CASE \E c \in Calls : Ends(c) /\ Commits(c)
  BY Zenon, <1>1, <1>2, <1>3, <1>4, <1>6
<1>7. CASE \E c \in Calls : EraseStored(c)
  BY <1>1, <1>7, StoredIs
<1>8. CASE Aside
  <2>1. listed' = listed
    BY <1>8 DEF Aside, ShareLapses, PutPhoto, Desk
  <2>. QED
    BY <1>1, <2>1
<1>. QED
  BY <1>5, <1>6, <1>7, <1>8 DEF Acts
LEMMA ErasedPage ==
  ASSUME DeskTyped, NEW v \in Users, Erased(v)
  PROVE /\ listed'[v] = {} /\ confirmed'[v] = None
        /\ \E c \in Calls : Ends(c) /\ Doing(c, v, "erase") /\ call[c].pc = "objects"
                            /\ avatar'[v] = IF plan[c].photo # None THEN None ELSE avatar[v]
<1>1. PICK c \in Calls : Ends(c) /\ FinishErase(c) /\ Doing(c, v, "erase")
  BY DEF Erased
<1>2. call[c].who = v /\ call[c].pc = "objects"
  BY Zenon, <1>1 DEF Doing, FinishErase, CommitErase
<1>3. /\ listed' = [listed EXCEPT ![v] = {}] /\ confirmed' = [confirmed EXCEPT ![v] = None]
      /\ avatar' = [avatar EXCEPT ![v] = IF plan[c].photo # None THEN None ELSE @]
  BY <1>1, <1>2 DEF FinishErase
<1>4. listed'[v] = {} /\ confirmed'[v] = None /\ avatar'[v] = IF plan[c].photo # None THEN None ELSE avatar[v]
  BY <1>3 DEF DeskTyped, DirectoryTyped
<1>. QED
  BY <1>1, <1>2, <1>4

LEMMA LanguagesKept == ASSUME Typed, ErasersIs, DeskTyped, OverlapsIs, LanguagesIs, Acts PROVE LanguagesIs'
<1>. USE Kinds12
<1>a. {"page", "page"} = {"page"}
  OBVIOUS
<1>1. ASSUME NEW v \in Users, <<v, {"page"}>> \notin crossed' PROVE \A x, y \in listed'[v] : x = y
  <2>0. <<v, {"page"}>> \notin crossed
    BY <1>1, GoesOn
  <2>1. \A x, y \in listed[v] : x = y
    BY <2>0 DEF LanguagesIs
  <2>2. ASSUME NEW c \in Calls, Doing(c, v, "page"), listed'[v] = (listed[v] \ plan[c].out) \cup plan[c].add
        PROVE \A x, y \in listed'[v] : x = y
    <3>1. (\A x, y \in plan[c].add : x = y) /\ (plan[c].add # {} => listed[v] \subseteq plan[c].out)
      BY <2>0, <2>2 DEF LanguagesIs
    <3>. QED
      BY <2>1, <2>2, <3>1
  <2>. QED
    BY <2>1, <2>2, ListedEffect
<1>2. ASSUME NEW v \in Users, users'[v].deleted, <<v, {"page", "erase"}>> \notin crossed' PROVE listed'[v] = {}
  <2>0. <<v, {"page", "erase"}>> \notin crossed
    BY <1>2, GoesOn
  <2>1. ASSUME ~Erased(v) PROVE users[v].deleted
    BY <1>2, <2>1, UserEffect
  <2>2. ASSUME users[v].deleted PROVE listed'[v] = {}
    <3>1. listed[v] = {}
      BY <2>0, <2>2 DEF LanguagesIs
    <3>2. \A c \in Calls : ~Doing(c, v, "page")
      BY <2>0, <2>2 DEF OverlapsIs
    <3>. QED
      BY <3>1, <3>2, ListedEffect
  <2>. QED
    BY <2>1, <2>2, ErasedPage
<1>3. ASSUME NEW v \in Users, NEW c \in Calls, Doing(c, v, "page")'
      PROVE /\ \A x, y \in plan'[c].add : x = y
            /\ plan'[c].add # {} /\ <<v, {"page"}>> \notin crossed' => listed'[v] \subseteq plan'[c].out
  <2>1. ASSUME Opens(c, v, "page"), Reads(c, v, "page")
        PROVE (\A x, y \in plan'[c].add : x = y) /\ (plan'[c].add # {} => listed'[v] \subseteq plan'[c].out)
    <3>1. listed' = listed
      BY <2>1 DEF Opens
    <3>. QED
      BY <2>1, <3>1 DEF Reads
  <2>2. ASSUME Doing(c, v, "page"), plan'[c] = plan[c]
        PROVE /\ \A x, y \in plan'[c].add : x = y
              /\ plan'[c].add # {} /\ <<v, {"page"}>> \notin crossed' => listed'[v] \subseteq plan'[c].out
    <3>1. \A x, y \in plan[c].add : x = y
      BY <2>2 DEF LanguagesIs
    <3>2. ASSUME plan[c].add # {}, <<v, {"page"}>> \notin crossed' PROVE listed'[v] \subseteq plan[c].out
      <4>0. <<v, {"page"}>> \notin crossed
        BY <3>2, GoesOn
      <4>1. listed[v] \subseteq plan[c].out
        BY <2>2, <3>2, <4>0 DEF LanguagesIs
      <4>2. ASSUME NEW d \in Calls, Ends(d), Doing(d, v, "page") PROVE FALSE
        <5>1. c # d
          BY <1>3, <4>2, EndsDoing
        <5>2. <<v, {"page", "page"}>> \in crossed
          BY <2>2, <4>2, <5>1, Meets
        <5>. QED
          BY <1>a, <4>0, <5>2
      <4>. QED
        BY <4>1, <4>2, ListedEffect
    <3>. QED
      BY <2>2, <3>1, <3>2
  <2>. QED
    BY <1>3, <2>1, <2>2, GoesOn
<1>. QED
  BY Zenon, <1>1, <1>2, <1>3 DEF LanguagesIs

--------------------------------------------------------------------------------
(* Photos: what a step does to the photo of an account.                          *)
Quiet(v) ==
  avatar'[v] = avatar[v] /\ confirmed'[v] = confirmed[v] /\ \A f \in Formats : <<v, f>> \in stored => <<v, f>> \in stored'
Replaced(v) == \E c \in Calls : Ends(c) /\ Doing(c, v, "photo") /\ confirmed'[v] = None
Looked(v) ==
  \E c \in Calls :
    /\ Ends(c) /\ Doing(c, v, "look")
    /\ \/ confirmed'[v] = None
       \/ avatar'[v] = avatar[v] /\ confirmed'[v] = plan[c].photo /\ <<v, plan[c].photo>> \in stored'
Removed(v) == \E c \in Calls : Opens(c, v, "unphoto") /\ avatar'[v] = None /\ confirmed'[v] = None
Deleted(v) ==
  \E c \in Calls : Ends(c) /\ Doing(c, v, "unphoto") /\ avatar'[v] = avatar[v] /\ confirmed'[v] = confirmed[v]
Wiped(v) == \E c \in Calls : Doing(c, v, "erase") /\ avatar'[v] = avatar[v] /\ confirmed'[v] = None
LEMMA PhotoEffect ==
  ASSUME Typed, DeskTyped, Acts, NEW v \in Users
  PROVE Quiet(v) \/ Replaced(v) \/ Looked(v) \/ Removed(v) \/ Deleted(v) \/ Wiped(v) \/ Erased(v)
<1>. DEFINE Goal == Quiet(v) \/ Replaced(v) \/ Looked(v) \/ Removed(v) \/ Deleted(v) \/ Wiped(v) \/ Erased(v)
<1>. SUFFICES Goal
  OBVIOUS
<1>. USE Kinds12
<1>0. avatar \in [Users -> Formats \cup {None}] /\ confirmed \in [Users -> Formats \cup {None}]
  BY DEF DeskTyped, DirectoryTyped
<1>1. ASSUME UNCHANGED <<avatar, confirmed>>, stored \subseteq stored' PROVE Goal
  BY <1>1 DEF Quiet
<1>2. ASSUME NEW c \in Calls, Ends(c), CommitAvatar(c) PROVE Goal
  <2>1. /\ call[c].pc = "photo" /\ stored' = stored
        /\ avatar' = [avatar EXCEPT ![call[c].who] = plan[c].photo]
        /\ confirmed' = [confirmed EXCEPT ![call[c].who] = None]
    BY <1>2 DEF CommitAvatar, Answered
  <2>2. CASE call[c].who = v
    BY <1>0, <1>2, <2>1, <2>2 DEF Replaced, Doing
  <2>. QED
    BY <1>0, <2>1, <2>2 DEF Quiet
<1>3. ASSUME NEW c \in Calls, Ends(c), FinishAvatar(c) PROVE Goal
  <2>. DEFINE good == plan[c].photo \notin Unfit /\ <<call[c].who, plan[c].photo>> \in stored
  <2>1. /\ call[c].pc = "look" /\ stored' = stored
        /\ avatar' = [avatar EXCEPT ![call[c].who] = IF good THEN @ ELSE None]
        /\ confirmed' = [confirmed EXCEPT ![call[c].who] = IF good THEN plan[c].photo ELSE None]
    BY <1>3 DEF FinishAvatar, Answered
  <2>2. good => <<call[c].who, plan[c].photo>> \in stored
    OBVIOUS
  <2>. HIDE DEF good
  <2>3. CASE call[c].who = v
    <3>1. confirmed'[v] = None \/ (avatar'[v] = avatar[v] /\ confirmed'[v] = plan[c].photo /\ <<v, plan[c].photo>> \in stored')
      BY <1>0, <2>1, <2>2, <2>3
    <3>2. Doing(c, v, "look")
      BY <2>1, <2>3 DEF Doing
    <3>. QED
      BY <1>3, <3>1, <3>2 DEF Looked
  <2>4. CASE call[c].who # v
    BY <1>0, <2>1, <2>4 DEF Quiet
  <2>. QED
    BY <2>3, <2>4
<1>4. ASSUME NEW c \in Calls, Ends(c), DeleteAvatar(c) PROVE Goal
  <2>1. call[c].pc = "unphoto" /\ UNCHANGED <<avatar, confirmed>> /\ stored' = stored \ {<<call[c].who, plan[c].photo>>}
    BY <1>4 DEF DeleteAvatar, Answered
  <2>2. CASE call[c].who = v
    BY <1>4, <2>1, <2>2 DEF Deleted, Doing
  <2>3. CASE call[c].who # v
    BY <2>1, <2>3 DEF Quiet
  <2>. QED
    BY <2>2, <2>3
<1>5. ASSUME NEW c \in Calls, Ends(c), FinishErase(c) PROVE Goal
  <2>1. call[c].pc = "objects" /\ stored' = stored
    BY Zenon, <1>5 DEF FinishErase, CommitErase
  <2>2. CASE call[c].who = v
    BY <1>5, <2>1, <2>2 DEF Erased, Doing
  <2>3. CASE call[c].who # v
    <3>1. avatar'[v] = avatar[v] /\ confirmed'[v] = confirmed[v]
      BY <1>0, <1>5, <2>3 DEF FinishErase
    <3>. QED
      BY <2>1, <3>1 DEF Quiet
  <2>. QED
    BY <2>2, <2>3
<1>6. ASSUME NEW c \in Calls, Commits(c), ~CommitAvatar(c), ~FinishAvatar(c), ~DeleteAvatar(c), ~FinishErase(c)
      PROVE UNCHANGED <<avatar, confirmed>> /\ stored' = stored
  BY <1>6 DEF Commits, CommitShare, CommitLanguage, CommitNote, CommitSuspension, CommitRestoration, CommitReset,
       Issued, Retaken, Ended, Dropped, Desk
<1>7. ASSUME NEW c \in Calls, NEW u \in Users, NEW x \in DeskKinds, Opens(c, u, x), Reads(c, u, x) PROVE Goal
  <2>1. stored' = stored
    BY <1>7 DEF Opens
  <2>2. CASE x = "unphoto"
    <3>1. avatar' = [avatar EXCEPT ![u] = None] /\ confirmed' = [confirmed EXCEPT ![u] = None]
      BY <1>7, <2>2 DEF Reads
    <3>2. CASE u = v
      BY <1>0, <1>7, <2>2, <3>1, <3>2 DEF Removed
    <3>. QED
      BY <1>0, <2>1, <3>1, <3>2 DEF Quiet
  <2>3. CASE x # "unphoto"
    BY <1>1, <1>7, <2>1, <2>3 DEF Reads
  <2>. QED
    BY <2>2, <2>3
<1>8. ASSUME NEW c \in Calls, EraseStored(c) PROVE Goal
  <2>1. /\ call[c].pc = "erase" /\ avatar' = avatar /\ stored' = stored \ {<<call[c].who, plan[c].photo>>}
        /\ confirmed' = [confirmed EXCEPT ![call[c].who] = None]
    BY <1>8, StoredIs DEF EraseStored
  <2>2. CASE call[c].who = v
    BY <1>0, <2>1, <2>2 DEF Wiped, Doing
  <2>3. CASE call[c].who # v
    BY <1>0, <2>1, <2>3 DEF Quiet
  <2>. QED
    BY <2>2, <2>3
<1>9. ASSUME Aside PROVE UNCHANGED <<avatar, confirmed>> /\ stored \subseteq stored'
  BY <1>9 DEF Aside, ShareLapses, PutPhoto, Desk
<1>. HIDE DEF Goal
<1>10. CASE \E c \in Calls, u \in Users, x \in DeskKinds : Opens(c, u, x) /\ Reads(c, u, x)
  BY <1>7, <1>10
<1>11. CASE \E c \in Calls : Ends(c) /\ Commits(c)
  <2>1. PICK c \in Calls : Ends(c) /\ Commits(c)
    BY <1>11
  <2>2. UNCHANGED <<avatar, confirmed>> /\ stored' = stored => Goal
    BY <1>1
  <2>. QED
    BY Zenon, <1>2, <1>3, <1>4, <1>5, <1>6, <2>1, <2>2
<1>12. CASE \E c \in Calls : EraseStored(c)
  BY <1>8, <1>12
<1>13. CASE Aside
  BY <1>1, <1>9, <1>13
<1>. QED
  BY <1>10, <1>11, <1>12, <1>13 DEF Acts

\* The others that are at work on the photo have met a call that goes on.
LEMMA MetPhoto ==
  ASSUME OverlapsIs, crossed \subseteq crossed', NEW c \in Calls, NEW v \in Users, NEW y \in DeskKinds, Doing(c, v, y), Doing(c, v, y)',
         Replaced(v) \/ Looked(v) \/ Removed(v) \/ Deleted(v) \/ Erased(v)
  PROVE \E x \in Photographed : <<v, {x, y}>> \in crossed'
<1>. USE Kinds12
<1>1. "photo" \in Photographed /\ "look" \in Photographed /\ "unphoto" \in Photographed /\ "erase" \in Photographed
  BY DEF Photographed
<1>2. ASSUME NEW d \in Calls, NEW x \in DeskKinds, Ends(d), Doing(d, v, x) PROVE <<v, {x, y}>> \in crossed'
  <2>1. d # c
    BY <1>2, EndsDoing
  <2>. QED
    BY <1>2, <2>1, Meets
<1>3. ASSUME Removed(v) PROVE <<v, {"unphoto", y}>> \in crossed'
  BY <1>3 DEF Removed, Opens
<1>4. ASSUME Replaced(v) PROVE <<v, {"photo", y}>> \in crossed'
  BY <1>2, <1>4 DEF Replaced
<1>5. ASSUME Looked(v) PROVE <<v, {"look", y}>> \in crossed'
  BY <1>2, <1>5 DEF Looked
<1>6. ASSUME Deleted(v) PROVE <<v, {"unphoto", y}>> \in crossed'
  BY <1>2, <1>6 DEF Deleted
<1>7. ASSUME Erased(v) PROVE <<v, {"erase", y}>> \in crossed'
  BY <1>2, <1>7 DEF Erased
<1>. QED
  BY <1>1, <1>3, <1>4, <1>5, <1>6, <1>7
LEMMA Bystander ==
  ASSUME Typed, DeskTyped, OverlapsIs, Acts, NEW c \in Calls, NEW v \in Users, NEW y \in Photographed,
         Doing(c, v, y), Doing(c, v, y)'
  PROVE /\ Alone(v)' => Quiet(v) \/ Wiped(v)
        /\ Alone(v)' /\ y # "erase" => Quiet(v)
        /\ Spared(v)' /\ y = "erase" => avatar'[v] = avatar[v]
<1>. USE Kinds12, KindsPhotographed
<1>0. crossed \subseteq crossed'
  BY GoesOn
<1>1. ASSUME Alone(v)' PROVE Quiet(v) \/ Wiped(v)
  <2>1. \A x \in Photographed : <<v, {x, y}>> \notin crossed'
    BY <1>1 DEF Alone
  <2>. QED
    BY <1>0, <2>1, MetPhoto, PhotoEffect
<1>2. ASSUME Alone(v)', y # "erase", Wiped(v) PROVE FALSE
  <2>1. PICK d \in Calls : Doing(d, v, "erase")
    BY <1>2 DEF Wiped
  <2>2. d # c
    BY <1>2, <2>1, Kinds12 DEF Doing
  <2>3. <<v, {"erase", y}>> \in crossed /\ "erase" \in Photographed
    BY <2>1, <2>2, Meets DEF Photographed
  <2>. QED
    BY <1>0, <1>2, <2>3 DEF Alone
<1>3. ASSUME Spared(v)', y = "erase" PROVE avatar'[v] = avatar[v]
  <2>1. \A x \in Photographed : <<v, {x, y}>> \notin crossed'
    BY <1>3 DEF Spared
  <2>2. Quiet(v) \/ Wiped(v)
    BY <1>0, <2>1, MetPhoto, PhotoEffect
  <2>. QED
    BY <2>2 DEF Quiet, Wiped
<1>. QED
  BY <1>1, <1>2, <1>3

LEMMA PhotosKept == ASSUME Typed, ErasersIs, DeskTyped, OverlapsIs, PhotosIs, Acts PROVE PhotosIs'
<1>. USE Kinds12
<1>0. crossed \subseteq crossed' /\ "look" \in Photographed /\ "unphoto" \in Photographed /\ "erase" \in Photographed
      /\ "photo" \in Photographed
  BY GoesOn DEF Photographed
<1>a. ASSUME NEW v \in Users PROVE (Alone(v)' => Alone(v)) /\ (Spared(v)' => Spared(v))
  BY <1>0 DEF Alone, Spared
<1>1. ASSUME NEW v \in Users, confirmed'[v] # None, Alone(v)'
      PROVE avatar'[v] = confirmed'[v] /\ <<v, confirmed'[v]>> \in stored'
  <2>0. Alone(v)
    BY <1>1, <1>a
  <2>1. CASE Quiet(v)
    <3>1. avatar[v] = confirmed[v] /\ <<v, confirmed[v]>> \in stored /\ confirmed[v] \in Formats \cup {None} /\ confirmed[v] # None
      BY <1>1, <2>0, <2>1 DEF PhotosIs, Quiet, DeskTyped, DirectoryTyped
    <3>. QED
      BY <2>1, <3>1 DEF Quiet
  <2>2. CASE Looked(v)
    <3>1. PICK c \in Calls : /\ Doing(c, v, "look") /\ avatar'[v] = avatar[v]
                             /\ confirmed'[v] = plan[c].photo /\ <<v, plan[c].photo>> \in stored'
      BY <1>1, <2>2 DEF Looked
    <3>2. avatar[v] = plan[c].photo
      BY <2>0, <3>1 DEF PhotosIs
    <3>. QED
      BY <3>1, <3>2
  <2>3. ~Deleted(v)
    BY <1>1, <2>0 DEF Deleted, PhotosIs
  <2>4. ~Replaced(v) /\ ~Removed(v) /\ ~Wiped(v) /\ ~Erased(v)
    BY <1>1, ErasedPage DEF Replaced, Removed, Wiped
  <2>. QED
    BY <2>1, <2>2, <2>3, <2>4, PhotoEffect
<1>2. ASSUME NEW v \in Users, Spared(v)', users'[v].deleted PROVE avatar'[v] = None
  <2>0. Spared(v)
    BY <1>2, <1>a
  <2>1. CASE Erased(v)
    <3>1. PICK c \in Calls : Doing(c, v, "erase") /\ avatar'[v] = IF plan[c].photo # None THEN None ELSE avatar[v]
      BY <2>1, ErasedPage
    <3>2. avatar[v] = plan[c].photo
      BY <2>0, <3>1 DEF PhotosIs
    <3>. QED
      BY <3>1, <3>2
  <2>2. CASE ~Erased(v)
    <3>1. users[v].deleted
      BY <1>2, <2>2, UserEffect
    <3>2. avatar[v] = None
      BY <2>0, <3>1 DEF PhotosIs
    <3>3. ASSUME NEW c \in Calls, NEW x \in Photographed, Doing(c, v, x) PROVE FALSE
      <4>1. <<v, {x, "erase"}>> \in crossed
        BY <3>1, <3>3, KindsPhotographed DEF OverlapsIs
      <4>. QED
        BY <2>0, <4>1 DEF Spared
    <3>4. ~Replaced(v) /\ ~Looked(v)
      BY <1>0, <3>3 DEF Replaced, Looked
    <3>. QED
      BY <2>2, <3>2, <3>4, PhotoEffect DEF Quiet, Removed, Deleted, Wiped
  <2>. QED
    BY <2>1, <2>2
<1>3. ASSUME NEW v \in Users, NEW c \in Calls, Doing(c, v, "look")', Alone(v)' PROVE avatar'[v] = plan'[c].photo
  <2>0. Alone(v)
    BY <1>3, <1>a
  <2>1. ASSUME Doing(c, v, "look"), plan'[c] = plan[c] PROVE avatar'[v] = plan'[c].photo
    <3>1. Quiet(v)
      BY <1>0, <1>3, <2>1, Bystander
    <3>. QED
      BY <2>0, <2>1, <3>1 DEF PhotosIs, Quiet
  <2>2. ASSUME Opens(c, v, "look"), Reads(c, v, "look") PROVE avatar'[v] = plan'[c].photo
    BY <2>2 DEF Reads
  <2>. QED
    BY <1>3, <2>1, <2>2, GoesOn
<1>4. ASSUME NEW v \in Users, NEW c \in Calls, Doing(c, v, "unphoto")', Alone(v)' PROVE confirmed'[v] = None
  <2>0. Alone(v)
    BY <1>4, <1>a
  <2>1. ASSUME Doing(c, v, "unphoto") PROVE confirmed'[v] = None
    <3>1. Quiet(v)
      BY <1>0, <1>4, <2>1, Bystander
    <3>. QED
      BY <2>0, <2>1, <3>1 DEF PhotosIs, Quiet
  <2>2. ASSUME Reads(c, v, "unphoto") PROVE confirmed'[v] = None
    BY <2>2 DEF Reads, DeskTyped, DirectoryTyped
  <2>. QED
    BY <1>4, <2>1, <2>2, GoesOn
<1>5. ASSUME NEW v \in Users, NEW c \in Calls, call'[c].pc = "objects", call'[c].who = v, Alone(v)' PROVE confirmed'[v] = None
  <2>0. Alone(v) /\ Doing(c, v, "erase")'
    BY <1>5, <1>a DEF Doing
  <2>1. Doing(c, v, "erase")
    BY <1>5, <2>0, GoesOn DEF Opens
  <2>2. CASE Wiped(v)
    BY <2>2 DEF Wiped
  <2>3. CASE Quiet(v) /\ call[c].pc = "objects"
    BY <2>0, <2>1, <2>3 DEF PhotosIs, Quiet, Doing
  <2>4. CASE call[c].pc # "objects"
    <3>1. call[c].pc = "erase"
      BY <2>1, <2>4 DEF Doing
    <3>2. EraseStored(c)
      <4>1. ASSUME NEW d \in Calls, NEW u \in Users, NEW x \in DeskKinds, Opens(d, u, x) PROVE FALSE
        BY <1>5, <2>4, <4>1 DEF Opens
      <4>2. ASSUME NEW d \in Calls, Ends(d) PROVE FALSE
        BY <1>5, <2>4, <4>2 DEF Ends
      <4>3. ASSUME NEW d \in Calls, EraseStored(d) PROVE d = c
        BY <1>5, <2>4, <4>3, StoredIs
      <4>4. ~Aside
        BY <1>5, <2>4 DEF Aside
      <4>. QED
        BY <4>1, <4>2, <4>3, <4>4 DEF Acts
    <3>3. call[c].who = v /\ confirmed' = [confirmed EXCEPT ![v] = None]
      BY <2>1, <3>1, <3>2 DEF Doing, EraseStored
    <3>. QED
      BY <3>3 DEF DeskTyped, DirectoryTyped
  <2>. QED
    BY <1>0, <1>5, <2>0, <2>1, <2>2, <2>3, <2>4, Bystander
<1>6. ASSUME NEW v \in Users, NEW c \in Calls, Doing(c, v, "erase")', Spared(v)' PROVE avatar'[v] = plan'[c].photo
  <2>0. Spared(v)
    BY <1>6, <1>a
  <2>1. ASSUME Doing(c, v, "erase"), plan'[c] = plan[c] PROVE avatar'[v] = plan'[c].photo
    <3>1. avatar'[v] = avatar[v]
      BY <1>0, <1>6, <2>1, Bystander
    <3>. QED
      BY <2>0, <2>1, <3>1 DEF PhotosIs
  <2>2. ASSUME Opens(c, v, "erase"), Reads(c, v, "erase") PROVE avatar'[v] = plan'[c].photo
    BY <2>2 DEF Reads
  <2>. QED
    BY <1>6, <2>1, <2>2, GoesOn
<1>. QED
  BY Zenon, <1>1, <1>2, <1>3, <1>4, <1>5, <1>6 DEF PhotosIs

--------------------------------------------------------------------------------
(* The invariant of the directory, and what follows from it.                     *)
LEMMA InitDesk == ASSUME Init, part = "directory" PROVE DInv
<1>0. PICK s \in Starts :
        /\ users = s.users /\ part = s.part
        /\ shares = [h \in Shares |-> IF \E u \in Users : h \in s.pages[u].shares
                      THEN [owner |-> CHOOSE u \in Users : h \in s.pages[u].shares, state |-> "live"] ELSE NoShare]
        /\ avatar = [u \in Users |-> s.pages[u].photo] /\ confirmed = avatar
        /\ stored = {<<u, avatar[u]>> : u \in {v \in Users : avatar[v] # None}}
        /\ listed = [u \in Users |-> s.pages[u].languages]
  BY DEF Init
<1>1. s \in Start /\ InOrder(s)
  BY <1>0, StartsAssumption
<1>2. /\ \A c \in Calls : call[c].pc = "idle"
      /\ tokens = [t \in Tokens |-> NoToken] /\ resets = [k \in Resets |-> NoReset]
      /\ events = <<>> /\ crossed = {} /\ plan = [c \in Calls |-> NoPlan]
  BY DEF Init, Blank
<1>3. \A c \in Calls, u \in Users, x \in DeskKinds : ~Doing(c, u, x)
  BY <1>2, Kinds12 DEF Doing
<1>4. \A u \in Users : IF users[u].email = None THEN users[u] = NoUser ELSE ~users[u].deleted /\ users[u].active
  BY <1>0, <1>1 DEF InOrder
<1>5. \A u \in Users : ~users[u].deleted
  BY <1>4 DEF NoUser
<1>6. s.pages \in [Users -> Page]
  BY <1>1 DEF Start
<1>7. avatar \in [Users -> Formats \cup {None}] /\ confirmed = avatar
  BY <1>0, <1>6 DEF Page
<1>8. DeskTyped
  <2>1. shares \in [Shares -> Share]
    BY <1>0 DEF Share, NoShare
  <2>2. listed \in [Users -> SUBSET Spellings]
    BY <1>0, <1>6 DEF Page
  <2>3. stored \subseteq Users \X Formats
    <3>1. \A u \in {v \in Users : avatar[v] # None} : <<u, avatar[u]>> \in Users \X Formats
      BY <1>7
    <3>2. stored = {<<u, avatar[u]>> : u \in {v \in Users : avatar[v] # None}}
      BY <1>0
    <3>. QED
      BY <3>1, <3>2
  <2>4. plan \in [Calls -> Plan]
    BY Zenon, <1>2, PlansTyped
  <2>5. events \in Seq(Event) /\ Len(events) = 0
    BY <1>2
  <2>. QED
    BY <1>7, <2>1, <2>2, <2>3, <2>4, <2>5 DEF DeskTyped, DirectoryTyped
<1>9. OverlapsIs
  BY <1>2, <1>3, <1>4 DEF OverlapsIs
<1>10. ShutIs
  <2>1. \A u \in Users : users[u] # NoUser => users[u].active
    BY <1>4
  <2>. QED
    BY <1>3, <2>1, Kinds12 DEF ShutIs
<1>11. LastWord
  <2>1. \A u \in Users : Found(u) => users[u].active
    BY <1>4 DEF Found
  <2>2. \A u \in Users : Found(u) => users[u].active \in BOOLEAN
    BY <1>0, <1>1 DEF Start, User
  <2>3. \A u \in Users : Restored(events, u)
    BY <1>2 DEF Restored, Said
  <2>4. \A u \in Users : Restored(events, u) \in BOOLEAN
    BY DEF Restored
  <2>. QED
    BY <2>1, <2>2, <2>3, <2>4, LastWordIs
<1>12. LinksIs
  BY <1>2, <1>3, Kinds12, AccountAssumption DEF LinksIs, NoReset
<1>13. PhotosIs
  <2>1. \A u \in Users : confirmed[u] # None => avatar[u] = confirmed[u] /\ <<u, confirmed[u]>> \in stored
    BY <1>0
  <2>. QED
    BY <1>2, <1>3, <1>5, <2>1, Kinds12 DEF PhotosIs
<1>14. LanguagesIs
  <2>1. \A u \in Users : \A x, y \in listed[u] : x = y
    BY <1>0, <1>1 DEF InOrder
  <2>. QED
    BY <1>3, <1>5, <2>1, Kinds12 DEF LanguagesIs
<1>15. OwnersIs
  BY <1>0, <1>5 DEF OwnersIs, NoShare
<1>. QED
  BY <1>8, <1>9, <1>10, <1>11, <1>12, <1>13, <1>14, <1>15 DEF DInv

Desks == part = "directory" => DInv
LEMMA DeskStep == ASSUME IInv, Desks, [Next]_accountVars PROVE Desks'
<1>1. part' = part
  BY DEF Next, accountVars
<1>2. CASE part = "directory"
  <2>1. DirectoryNext \/ (\E c \in Calls : Crash(c) /\ UNCHANGED deskVars) \/ UNCHANGED <<vars, deskVars>>
    BY <1>2 DEF Next, accountVars
  <2>2. Acts
    BY <1>2, <2>1, NextActs DEF Desks, DInv, DeskTyped, IInv
  <2>. QED
    BY <1>2, <2>2, DeskKept, OverlapsKept, ShutKept, WordsKept, LinksKept, PhotosKept, LanguagesKept, OwnersKept
       DEF Desks, DInv, IInv
<1>. QED
  BY <1>1, <1>2 DEF Desks
\* What a call read of an account on the directory's page stays true of it (user_service.py, admin_directory_service.py,
\* account_deletion_service.py lock no row), but for the calls it met.
THEOREM DirectoryInvariant == Spec => []Desks
<1>1. Init => Desks
  BY InitDesk DEF Desks
<1>2. IInv /\ Desks /\ [Next]_accountVars => Desks'
  BY DeskStep
<1>. QED
  BY <1>1, <1>2, AccountsInvariant, PTL DEF Spec

\* One or none.
LEMMA FewAre == ASSUME NEW S, \A x, y \in S : x = y PROVE Cardinality(S) <= 1
<1>1. CASE S = {}
  BY <1>1, FS_EmptySet
<1>2. CASE S # {}
  <2>1. PICK x \in S : TRUE
    BY <1>2
  <2>2. S = {x}
    BY <2>1
  <2>. QED
    BY <2>2, FS_Singleton
<1>. QED
  BY <1>1, <1>2
LEMMA Parted ==
  ASSUME NEW S, NEW T, IsFiniteSet(S), IsFiniteSet(T), S \cap T = {}
  PROVE Cardinality(S \cup T) = Cardinality(S) + Cardinality(T)
<1>1. Cardinality(S \cup T) = Cardinality(S) + Cardinality(T) - Cardinality(S \cap T)
  BY FS_Union
<1>2. Cardinality(S \cap T) = 0
  BY FS_EmptySet
<1>3. Cardinality(S) \in Nat /\ Cardinality(T) \in Nat
  BY FS_CardinalityType
<1>. QED
  BY <1>1, <1>2, <1>3

LEMMA SharesCounted ==
  ASSUME DInv, NEW u \in Users PROVE Cardinality(SharesOf(u)) = Links(u, "live") + Links(u, "lapsed")
<1>. DEFINE L(state) == {s \in Shares : shares[s].owner = u /\ shares[s].state = state}
<1>1. SharesOf(u) = L("live") \cup L("lapsed")
  BY AccountAssumption DEF SharesOf, DInv, OwnersIs, DeskTyped, DirectoryTyped, Share
<1>2. L("live") \cap L("lapsed") = {}
  OBVIOUS
<1>3. IsFiniteSet(L("live")) /\ IsFiniteSet(L("lapsed"))
  <2>1. L("live") \subseteq Shares /\ L("lapsed") \subseteq Shares
    OBVIOUS
  <2>. QED
    BY <2>1, DirectoryAssumption, FS_Subset
<1>4. Links(u, "live") = Cardinality(L("live")) /\ Links(u, "lapsed") = Cardinality(L("lapsed"))
  BY DEF Links
<1>. HIDE DEF L
<1>. QED
  BY <1>1, <1>2, <1>3, <1>4, Parted
LEMMA RequestsCounted ==
  ASSUME NEW u \in Users
  PROVE Cardinality({q \in RequestsAbout(u) : ~Over(q)}) + Cardinality({q \in RequestsAbout(u) : Over(q)})
          = Cardinality({[request |-> q, status |-> requests[q].status] : q \in RequestsAbout(u)})
<1>. DEFINE Q == RequestsAbout(u)
            A == {q \in Q : ~Over(q)}
            B == {q \in Q : Over(q)}
            V == {[request |-> q, status |-> requests[q].status] : q \in Q}
            f == [q \in Q |-> [request |-> q, status |-> requests[q].status]]
<1>1. IsFiniteSet(Q) /\ A \cup B = Q /\ A \cap B = {}
  <2>1. Q \subseteq Requests
    BY DEF RequestsAbout
  <2>. QED
    BY <2>1, AccountAssumption, FS_Subset
<1>2. IsFiniteSet(A) /\ IsFiniteSet(B)
  <2>1. A \subseteq Q /\ B \subseteq Q
    OBVIOUS
  <2>. QED
    BY <1>1, <2>1, FS_Subset
<1>3. Cardinality(Q) = Cardinality(A) + Cardinality(B)
  BY <1>1, <1>2, Parted
<1>4. f \in Bijection(Q, V)
  <2>1. f \in [Q -> V] /\ \A q \in Q : f[q].request = q
    OBVIOUS
  <2>2. \A y \in V : \E q \in Q : f[q] = y
    OBVIOUS
  <2>. HIDE DEF f, V, Q
  <2>3. \A q, r \in Q : f[q] = f[r] => q = r
    BY <2>1
  <2>. QED
    BY <2>1, <2>2, <2>3 DEF Bijection, Injection, IsInjective, Surjection
<1>5. Cardinality(Q) = Cardinality(V)
  <2>1. ExistsBijection(Q, V)
    BY <1>4 DEF ExistsBijection
  <2>. HIDE DEF Q, V, f
  <2>. QED
    BY <1>1, <2>1, FS_Bijection
<1>. QED
  BY <1>3, <1>5
LEMMA Agreed == DInv => DirectoryAgrees
<1>. SUFFICES ASSUME DInv, NEW u \in Users, Candidate(u)
     PROVE LET item == DirectoryItem(u)
               detail == UserDetail(u) IN
           /\ item.shares = detail.passport["live"] + detail.passport["lapsed"]
           /\ item.completion = detail.completion
           /\ item.active + item.completed = Cardinality(detail.verifications)
           /\ item.career = Cardinality(detail.career)
           /\ \A status \in {"active", "suspended", "deleted"} : u \in ListUsers({status}) <=> item.status = status
           /\ item.status = "deleted" =>
                /\ item.email = None /\ item.completion = 0 /\ detail.career = {}
                /\ detail.sessions = {} /\ detail.capabilities = {} /\ ~detail.ready
           /\ users[u].emailOK => ("reset" \in detail.capabilities) = Resettable(u)
  BY DEF DirectoryAgrees, ListUsers
<1>. DEFINE item == DirectoryItem(u)
            detail == UserDetail(u)
<1>1. item.shares = detail.passport["live"] + detail.passport["lapsed"]
  BY SharesCounted DEF DirectoryItem, UserDetail
<1>2. item.completion = detail.completion
  BY DEF DirectoryItem, UserDetail
<1>3. item.active + item.completed = Cardinality(detail.verifications)
  BY RequestsCounted DEF DirectoryItem, UserDetail
<1>4. item.career = Cardinality(detail.career)
  BY FS_EmptySet DEF DirectoryItem, UserDetail
<1>5. ASSUME NEW status \in {"active", "suspended", "deleted"} PROVE u \in ListUsers({status}) <=> item.status = status
  <2>1. item.status = Status(u)
    BY DEF DirectoryItem
  <2>2. u \in ListUsers({status}) <=> HasStatus(u, status)
    BY DEF ListUsers
  <2>3. HasStatus(u, status) <=> Status(u) = status
    BY <1>5 DEF HasStatus, Status
  <2>. QED
    BY <2>1, <2>2, <2>3
<1>6. Status(u) = "deleted" <=> users[u].deleted
  BY DEF Status
<1>7. users[u].deleted => Capabilities(u) = {}
  BY <1>6 DEF Capabilities
<1>8. item.status = "deleted" =>
        /\ item.email = None /\ item.completion = 0 /\ detail.career = {}
        /\ detail.sessions = {} /\ detail.capabilities = {} /\ ~detail.ready
  BY <1>6, <1>7 DEF DirectoryItem, UserDetail
<1>9. "reset" \in Capabilities(u) <=> ~users[u].deleted /\ users[u].active
  BY <1>6 DEF Capabilities
<1>10. users[u].emailOK => ("reset" \in detail.capabilities) = Resettable(u)
  <2>1. detail.capabilities = Capabilities(u)
    BY DEF UserDetail
  <2>. QED
    BY <1>9, <2>1 DEF Resettable
<1>. HIDE DEF item, detail
<1>11. /\ item.shares = detail.passport["live"] + detail.passport["lapsed"]
       /\ item.completion = detail.completion
       /\ item.active + item.completed = Cardinality(detail.verifications)
       /\ item.career = Cardinality(detail.career)
       /\ \A status \in {"active", "suspended", "deleted"} : u \in ListUsers({status}) <=> item.status = status
       /\ item.status = "deleted" =>
            /\ item.email = None /\ item.completion = 0 /\ detail.career = {}
            /\ detail.sessions = {} /\ detail.capabilities = {} /\ ~detail.ready
       /\ users[u].emailOK => ("reset" \in detail.capabilities) = Resettable(u)
  BY Zenon, <1>1, <1>2, <1>3, <1>4, <1>5, <1>8, <1>10
<1>. QED
  BY <1>11 DEF item, detail

LEMMA DirectoryKeeps == ASSUME DInv PROVE SuspendedShut /\ OneResetLink /\ PhotoKept /\ LanguageOnce /\ NothingLeft
<1>1. SuspendedShut
  <2>1. \A u \in Users : Status(u) = "suspended" <=> ~users[u].deleted /\ ~users[u].active
    BY DEF Status
  <2>. QED
    BY <2>1 DEF DInv, ShutIs, SuspendedShut, Crossed
<1>2. OneResetLink
  <2>1. ASSUME NEW u \in Users, ~Crossed(u, {"forgot"}) PROVE \A k, l \in {k \in Resets : resets[k].user = u /\ ~resets[k].used} : k = l
    BY <2>1 DEF DInv, LinksIs, Crossed
  <2>. QED
    BY <2>1, FewAre DEF OneResetLink
<1>3. PhotoKept
  BY DEF DInv, PhotosIs, Alone, PhotoKept, Crossed
<1>4. LanguageOnce
  BY FewAre DEF DInv, LanguagesIs, LanguageOnce, Crossed
<1>5. NothingLeft
  BY DEF DInv, OwnersIs, LanguagesIs, PhotosIs, Spared, NothingLeft, Crossed
<1>. QED
  BY <1>1, <1>2, <1>3, <1>4, <1>5

\* Every row and call is of its type.
THEOREM AccountsTyped == Spec => []TypeOK
<1>1. IInv /\ Desks => TypeOK
  BY TypedRecords DEF IInv, Desks, DInv, DeskTyped, TypeOK
<1>. QED
  BY <1>1, AccountsInvariant, DirectoryInvariant, PTL
\* Who can sign in, through which sign-up, and until when: a suspension shuts the account and its links, the history of
\* the account explains it, one link at a time resets its password, an accepted photo stays, a language is listed once,
\* and the list agrees with the page (admin_directory_service.py, user_service.py), but for calls that overlapped.
THEOREM SessionsStayInOrder == Spec => []SessionsInOrder
<1>1. IInv /\ Desks => SessionsInOrder
  <2>1. IInv => CodeUsedOnce /\ ReusedFamilyDies /\ KeepsLoginMethod
    BY LoginsKeep DEF IInv, CodesIs, TokensInv
  <2>2. Desks /\ part = "directory" => LastWord
    BY DEF Desks, DInv
  <2>. QED
    BY <2>1, <2>2, DirectoryKeeps, Agreed DEF Desks, SessionsInOrder
<1>. QED
  BY <1>1, AccountsInvariant, DirectoryInvariant, PTL
\* What an erasure leaves (account_deletion_service.py): no sign-up that points at the account, no request without its
\* claim, no object stored before it began, and no link, language or photo, but for calls that were under way then.
THEOREM AccountsErasedForGood == Spec => []ErasedForGood
<1>1. IInv /\ Desks => ErasedForGood
  <2>1. IInv => ErasedSignups
    BY DEF IInv, SignupsIs, SignupRow, ErasedSignups
  <2>2. IInv => RequestsKeepClaims /\ OnlyLateObjects
    BY ObjectsKeep DEF IInv
  <2>. QED
    BY <2>1, <2>2, DirectoryKeeps DEF Desks, ErasedForGood
<1>. QED
  BY <1>1, AccountsInvariant, DirectoryInvariant, PTL
=================================================================================
