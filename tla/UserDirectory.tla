----------------------------- MODULE UserDirectory -----------------------------
(* The administrators' directory of candidates, with what they do to an account   *)
(* from it, beside what its owner does meanwhile: signing in, sharing, and        *)
(* keeping the profile page, its photo and languages. No row is locked.           *)
EXTENDS Sessions, AccountErasure, Sequences

CONSTANTS Shares,     \* passport links, a bound on those made
          Formats, Unfit, \* of photos; Unfit: taken at the start of an upload, refused at its end
          Spellings,    \* of one language
          MaxEvents     \* of the account
ASSUME DirectoryAssumption ==
  Unfit \subseteq Formats /\ None \notin Formats /\ MaxEvents \in Nat /\ IsFiniteSet(Shares)

VARIABLES shares, avatar,
          stored,       \* photos in storage, by owner and format: an upload writes over the last
          listed,       \* profile_languages, as spelled
          events,       \* user_account_events, oldest first
          plan,         \* what a call read or was asked for
          confirmed,    \* ghost: the photo an upload's end accepted
          crossed       \* ghost: <<user, kinds>> of calls about a user that overlapped
deskVars == <<shares, avatar, stored, listed, events, plan, confirmed, crossed>>

Share == [owner: Users \cup {None}, state: {"none", "live", "lapsed", "revoked"}]
NoShare == [owner |-> None, state |-> "none"]
EventType == {"admin_note_added", "account_suspended", "account_restored", "session_revoked",
              "all_sessions_revoked", "password_reset_initiated"}
NoPlan == [shares |-> {}, photo |-> None, out |-> {}, add |-> {}, admin |-> FALSE]
Plan == [shares: SUBSET Shares, photo: Formats \cup {None},
         out: SUBSET Spellings, add: SUBSET Spellings, admin: BOOLEAN]

SharesOf(u) == {s \in Shares : shares[s].owner = u /\ shares[s].state # "revoked"}
Revoking(S) == [s \in Shares |-> IF s \in S THEN [shares[s] EXCEPT !.state = "revoked"] ELSE shares[s]]
Record(u, event) ==
  /\ Len(events) < MaxEvents
  /\ events' = Append(events, [user |-> u, type |-> event])

\* What calls overlap: erasing is one kind, before its storage step and after.
Kind(pc) == IF pc = "objects" THEN "erase" ELSE pc
About(u) == {d \in Calls : call[d].pc \notin {"idle", "done"} /\ call[d].who = u}
Starting(c, u, kind) == crossed' = crossed \cup {<<u, {kind, Kind(call[d].pc)}>> : d \in About(u)}
Crossed(u, kinds) == <<u, kinds>> \in crossed
Ask(c, pc, u, p) ==
  /\ Begin(c, pc, u) /\ Starting(c, u, pc)
  /\ plan' = [plan EXCEPT ![c] = p]
  /\ UNCHANGED <<shares, avatar, stored, listed, events, confirmed>>
Answered(c, pc) == call[c].pc = pc /\ Finish(c) /\ UNCHANGED <<users, signupVars, sessionVars, careerVars>>
KeepsDesk == UNCHANGED <<shares, avatar, stored, listed, events, plan, confirmed>>

(* ---- the owner: links, photo and languages ---- *)
Signed(u) == Allowed(u) /\ users[u].emailOK
CreateShare(c, u) == Signed(u) /\ Ask(c, "share", u, NoPlan)
CommitShare(c) ==
  /\ Answered(c, "share")
  /\ \E s \in {x \in Shares : shares[x] = NoShare} :
       shares' = [shares EXCEPT ![s] = [owner |-> call[c].who, state |-> "live"]]
  /\ UNCHANGED <<avatar, stored, listed, events, plan, confirmed, crossed>>
ShareLapses ==
  \E s \in Shares :
    /\ shares[s].state = "live"
    /\ shares' = [shares EXCEPT ![s].state = "lapsed"]
    /\ UNCHANGED <<vars, avatar, stored, listed, events, plan, confirmed, crossed>>

\* The row names the photo before it is uploaded, under a key that only its owner and format make up.
AvatarIntent(c, u, f) == Signed(u) /\ Ask(c, "photo", u, [NoPlan EXCEPT !.photo = f])
CommitAvatar(c) ==
  /\ Answered(c, "photo")
  /\ avatar' = [avatar EXCEPT ![call[c].who] = plan[c].photo]
  /\ confirmed' = [confirmed EXCEPT ![call[c].who] = None]
  /\ UNCHANGED <<shares, stored, listed, events, plan, crossed>>
PutPhoto(u) ==
  /\ avatar[u] # None /\ <<u, avatar[u]>> \notin stored
  /\ stored' = stored \cup {<<u, avatar[u]>>}
  /\ UNCHANGED <<vars, shares, avatar, listed, events, plan, confirmed, crossed>>
\* The object is looked at after the row is read; what fails is taken off the page.
CompleteAvatar(c, u) == Signed(u) /\ avatar[u] # None /\ Ask(c, "look", u, [NoPlan EXCEPT !.photo = avatar[u]])
FinishAvatar(c) ==
  LET u == call[c].who
      f == plan[c].photo
      good == f \notin Unfit /\ <<u, f>> \in stored IN
  /\ Answered(c, "look")
  /\ avatar' = [avatar EXCEPT ![u] = IF good THEN @ ELSE None]
  /\ confirmed' = [confirmed EXCEPT ![u] = IF good THEN f ELSE None]
  /\ UNCHANGED <<shares, stored, listed, events, plan, crossed>>
\* The row first, then the object the row named when it was read.
RemoveAvatar(c, u) ==
  /\ Signed(u) /\ avatar[u] # None
  /\ Begin(c, "unphoto", u) /\ Starting(c, u, "unphoto")
  /\ plan' = [plan EXCEPT ![c] = [NoPlan EXCEPT !.photo = avatar[u]]]
  /\ avatar' = [avatar EXCEPT ![u] = None]
  /\ confirmed' = [confirmed EXCEPT ![u] = None]
  /\ UNCHANGED <<shares, stored, listed, events>>
DeleteAvatar(c) ==
  /\ Answered(c, "unphoto")
  /\ stored' = stored \ {<<call[c].who, plan[c].photo>>}
  /\ UNCHANGED <<shares, avatar, listed, events, plan, confirmed, crossed>>

\* Made, spelled otherwise or deleted. It is looked for however it is spelled; the unique key compares spellings.
ListLanguage(c, u) ==
  \E out \in {{}} \cup {{y} : y \in listed[u]}, add \in {{}} \cup {{y} : y \in Spellings} :
    /\ Signed(u) /\ out # add
    /\ add # {} => listed[u] \ out = {}
    /\ Ask(c, "page", u, [NoPlan EXCEPT !.out = out, !.add = add])
CommitLanguage(c) ==
  LET u == call[c].who
      others == listed[u] \ plan[c].out IN
  /\ Answered(c, "page")
  /\ plan[c].out \subseteq listed[u] /\ plan[c].add \cap others = {}
  /\ listed' = [listed EXCEPT ![u] = others \cup plan[c].add]
  /\ UNCHANGED <<shares, avatar, stored, events, plan, confirmed, crossed>>

(* ---- the administrators: AdminDirectoryService ---- *)
Status(u) == IF users[u].deleted THEN "deleted" ELSE IF users[u].active THEN "active" ELSE "suspended"
Candidate(u) == users[u] # NoUser
Capabilities(u) ==
  LET kept == Status(u) # "deleted" IN
  {a \in {"note"} : kept} \cup {a \in {"suspend"} : Status(u) = "active"} \cup {a \in {"restore"} : Status(u) = "suspended"}
  \cup {a \in {"revoke"} : kept} \cup {a \in {"reset"} : kept /\ users[u].active}

\* The note and its event, in one transaction; notes are counted by their events.
AddNote(c, u) == Candidate(u) /\ ~users[u].deleted /\ Ask(c, "note", u, NoPlan)
CommitNote(c) ==
  /\ Answered(c, "note")
  /\ Record(call[c].who, "admin_note_added")
  /\ UNCHANGED <<shares, avatar, stored, listed, plan, confirmed, crossed>>
SuspendUser(c, u) == Status(u) = "active" /\ Candidate(u) /\ Ask(c, "suspend", u, [NoPlan EXCEPT !.shares = SharesOf(u)])
CommitSuspension(c) ==
  /\ FinishSuspend(c)
  /\ shares' = Revoking(plan[c].shares)
  /\ Record(call[c].who, "account_suspended")
  /\ UNCHANGED <<avatar, stored, listed, plan, confirmed, crossed>>
RestoreUser(c, u) == Candidate(u) /\ Status(u) = "suspended" /\ Ask(c, "restore", u, NoPlan)
CommitRestoration(c) ==
  /\ FinishRestore(c)
  /\ Record(call[c].who, "account_restored")
  /\ UNCHANGED <<shares, avatar, stored, listed, plan, confirmed, crossed>>
RevokeUserSession(c, t) ==
  /\ Idle(c) /\ tokens[t].live
  /\ tokens' = Revoked({t})
  /\ Record(tokens[t].user, "session_revoked")
  /\ Finish(c)
  /\ UNCHANGED <<users, signupVars, resets, reused, raced, careerVars, shares, avatar, stored, listed, plan, confirmed, crossed>>
RevokeUserSessions(c, u) ==
  /\ Idle(c) /\ Candidate(u) /\ ~users[u].deleted
  /\ tokens' = Revoked({t \in Tokens : tokens[t].user = u})
  /\ Record(u, "all_sessions_revoked")
  /\ Finish(c)
  /\ UNCHANGED <<users, signupVars, resets, reused, raced, careerVars, shares, avatar, stored, listed, plan, confirmed, crossed>>
\* A reset the administrator asked for; when its mail fails, the links before it live on.
Resettable(u) == Candidate(u) /\ ~users[u].deleted /\ users[u].emailOK /\ users[u].active
SendReset(c, u) ==
  /\ Resettable(u)
  /\ BeginForgot(c, u) /\ Starting(c, u, "forgot")
  /\ plan' = [plan EXCEPT ![c] = [NoPlan EXCEPT !.admin = TRUE]]
  /\ UNCHANGED <<shares, avatar, stored, listed, events, confirmed>>
CommitReset(c) ==
  /\ CreateReset(c)
  /\ IF plan[c].admin THEN Record(call[c].who, "password_reset_initiated") ELSE UNCHANGED events
  /\ UNCHANGED <<shares, avatar, stored, listed, plan, confirmed, crossed>>
ResetUnsent(c) == Answered(c, "forgot") /\ plan[c].admin /\ KeepsDesk /\ UNCHANGED crossed

(* ---- the directory and an account in it ---- *)
\* Requests are counted as under way or over, whoever's account is erased.
Over(q) == requests[q].status \notin {"purgeable", "underway"}
RequestsAbout(u) == {q \in Requests : requests[q].owner = u}
CareerItems(u) == (IF claims[u] = "kept" THEN {u} ELSE {}) \cup {d \in Documents : docs[d].owner = u /\ docs[d].row}
Completion(u) ==
  Cardinality({f \in {"photo", "email", "phone", "languages"} :
    \/ f = "photo" /\ avatar[u] # None
    \/ f = "email" /\ users[u].emailOK
    \/ f = "phone" /\ users[u].phoneOK
    \/ f = "languages" /\ listed[u] # {}})
\* What an erased account shows on the list and on its page: that it is one, and its requests.
DirectoryItem(u) ==
  LET deleted == users[u].deleted IN
  [status |-> Status(u), email |-> IF deleted THEN None ELSE users[u].email,
   completion |-> IF deleted THEN 0 ELSE Completion(u),
   active |-> Cardinality({q \in RequestsAbout(u) : ~Over(q)}),
   completed |-> Cardinality({q \in RequestsAbout(u) : Over(q)}),
   career |-> IF deleted THEN 0 ELSE Cardinality(CareerItems(u)),
   shares |-> IF deleted THEN 0 ELSE Cardinality(SharesOf(u))]
\* The list's filter by status asks the columns.
HasStatus(u, status) ==
  \/ status = "active" /\ ~users[u].deleted /\ users[u].active
  \/ status = "suspended" /\ ~users[u].deleted /\ ~users[u].active
  \/ status = "deleted" /\ users[u].deleted
ListUsers(wanted) == {u \in Users : Candidate(u) /\ \E status \in wanted : HasStatus(u, status)}
Links(u, state) == Cardinality({s \in Shares : shares[s].owner = u /\ shares[s].state = state})
UserDetail(u) ==
  LET deleted == users[u].deleted IN
  [status |-> Status(u), email |-> IF deleted THEN None ELSE users[u].email,
   completion |-> IF deleted THEN 0 ELSE Completion(u),
   verifications |-> {[request |-> q, status |-> requests[q].status] : q \in RequestsAbout(u)},
   career |-> IF deleted THEN {} ELSE CareerItems(u),
   passport |-> [st \in {"live", "lapsed", "revoked"} |-> IF deleted THEN 0 ELSE Links(u, st)],
   ready |-> ~deleted /\ users[u].emailOK /\ users[u].phoneOK,
   sessions |-> IF deleted THEN {} ELSE {t \in Tokens : tokens[t].user = u},
   capabilities |-> Capabilities(u),
   activity |-> SelectSeq(events, LAMBDA e : e.user = u)]

(* ---- sessions and the erasure, on this page ---- *)
StartLogin(c, u) ==
  /\ BeginLogin(c, u) /\ Starting(c, u, "mint")
  /\ KeepsDesk
StartForgot(c, u) ==
  /\ BeginForgot(c, u) /\ Starting(c, u, "forgot")
  /\ plan' = [plan EXCEPT ![c] = NoPlan]
  /\ UNCHANGED <<shares, avatar, stored, listed, events, confirmed>>
StartReset(c, k) ==
  /\ BeginReset(c, k) /\ Starting(c, resets[k].user, "reset")
  /\ KeepsDesk
\* The snapshot holds the photo; the links and languages go by their owner, the photo's name if it was read.
StartErase(c, u) ==
  /\ Signed(u)
  /\ BeginErase(c, u) /\ Starting(c, u, "erase")
  /\ plan' = [plan EXCEPT ![c] = [NoPlan EXCEPT !.photo = avatar[u]]]
  /\ UNCHANGED <<shares, avatar, stored, listed, events, confirmed>>
EraseStored(c) ==
  /\ EraseObjects(c)
  /\ stored' = stored \ {<<call[c].who, plan[c].photo>>}
  /\ confirmed' = [confirmed EXCEPT ![call[c].who] = None]
  /\ UNCHANGED <<shares, avatar, listed, events, plan, crossed>>
FinishErase(c) ==
  LET u == call[c].who IN
  /\ CommitErase(c)
  /\ shares' = [s \in Shares |-> IF shares[s].owner = u THEN NoShare ELSE shares[s]]
  /\ avatar' = [avatar EXCEPT ![u] = IF plan[c].photo # None THEN None ELSE @]
  /\ listed' = [listed EXCEPT ![u] = {}]
  /\ confirmed' = [confirmed EXCEPT ![u] = None]
  /\ UNCHANGED <<stored, events, plan, crossed>>

DirectoryNext ==
  \/ \E c \in Calls :
       \/ CommitShare(c) \/ CommitAvatar(c) \/ FinishAvatar(c) \/ DeleteAvatar(c) \/ CommitLanguage(c)
       \/ CommitNote(c) \/ CommitSuspension(c) \/ CommitRestoration(c) \/ CommitReset(c) \/ ResetUnsent(c)
       \/ EraseStored(c) \/ FinishErase(c)
       \/ (IssueTokens(c) \/ ResetPassword(c)) /\ KeepsDesk /\ UNCHANGED crossed
       \/ Idle(c) /\ \E u \in Users :
            \/ CreateShare(c, u) \/ CompleteAvatar(c, u) \/ RemoveAvatar(c, u) \/ AddNote(c, u) \/ SuspendUser(c, u)
            \/ RestoreUser(c, u) \/ RevokeUserSessions(c, u) \/ SendReset(c, u)
            \/ StartLogin(c, u) \/ StartForgot(c, u) \/ StartErase(c, u) \/ ListLanguage(c, u)
            \/ \E f \in Formats : AvatarIntent(c, u, f)
       \/ \E t \in Tokens : RevokeUserSession(c, t)
       \/ \E k \in Resets : StartReset(c, k)
  \/ ShareLapses
  \/ \E u \in Users : PutPhoto(u)

DirectoryTyped ==
  /\ shares \in [Shares -> Share] /\ avatar \in [Users -> Formats \cup {None}]
  /\ stored \subseteq Users \X Formats
  /\ listed \in [Users -> SUBSET Spellings]
  /\ \A i \in 1..Len(events) : events[i] \in [user: Users, type: EventType]
  /\ plan \in [Calls -> Plan] /\ confirmed \in [Users -> Formats \cup {None}]

\* Nobody stays signed in to a suspended account, and no link of it is open (admin_directory_service.py:673-716), unless a sign-in or a new link was under way at the suspension.
SuspendedShut ==
  \A u \in Users : users[u] # NoUser /\ Status(u) = "suspended" =>
    /\ ~Crossed(u, {"mint", "suspend"}) => \A t \in Tokens : tokens[t].user = u => ~tokens[t].live
    /\ ~Crossed(u, {"share", "suspend"}) => SharesOf(u) = {}

\* The account's history explains its state: it is suspended when the last suspension came after the last restoration (admin_directory_service.py:686-743).
LastWord ==
  \A u \in Users : Found(u) =>
    LET said == {i \in DOMAIN events : events[i].user = u /\ events[i].type \in {"account_suspended", "account_restored"}} IN
    users[u].active = (\A i \in said : (\A j \in said : j <= i) => events[i].type = "account_restored")

\* One link at a time resets a password (admin_directory_service.py:826-835), whoever asked for it, unless two were asked for at once.
OneResetLink ==
  \A u \in Users : ~Crossed(u, {"forgot"}) => Cardinality({k \in Resets : resets[k].user = u /\ ~resets[k].used}) <= 1

\* A photo that was accepted stays named and stored until it is replaced, removed or its account's erasure begins (user_service.py:219-245, :276-290), unless two calls about it overlapped.
Photographed == {"photo", "unphoto", "look", "erase"}
PhotoKept ==
  \A u \in Users : confirmed[u] # None /\ (\A x, y \in Photographed : ~Crossed(u, {x, y})) =>
    avatar[u] = confirmed[u] /\ <<u, confirmed[u]>> \in stored

\* A language is on the page once, however it is spelled (user_service.py:122-147), unless two changes overlapped.
LanguageOnce == \A u \in Users : ~Crossed(u, {"page"}) => Cardinality(listed[u]) <= 1

\* An erased account leaves no link, no language and no photo (account_deletion_service.py:352, :453-487, :731), but for calls that were under way then.
NothingLeft ==
  \A u \in Users : users[u].deleted =>
    /\ ~Crossed(u, {"share", "erase"}) => \A s \in Shares : shares[s].owner # u
    /\ ~Crossed(u, {"page", "erase"}) => listed[u] = {}
    /\ (\A x \in Photographed : ~Crossed(u, {x, "erase"})) => avatar[u] = None

\* The list and the page of an account agree, show nothing of an erased one but its requests, and offer what is then accepted, but for a reset to an address nobody confirmed (admin_directory_service.py:229-249, :400-597, :812-823).
DirectoryAgrees ==
  \A u \in ListUsers({"active", "suspended", "deleted"}) :
    LET item == DirectoryItem(u)
        detail == UserDetail(u) IN
    /\ item.shares = detail.passport["live"] + detail.passport["lapsed"]
    /\ item.completion = detail.completion
    /\ item.active + item.completed = Cardinality(detail.verifications)
    /\ item.career = Cardinality(detail.career)
    /\ \A status \in {"active", "suspended", "deleted"} : u \in ListUsers({status}) <=> item.status = status
    /\ item.status = "deleted" =>
         /\ item.email = None /\ item.completion = 0 /\ detail.career = {}
         /\ detail.sessions = {} /\ detail.capabilities = {} /\ ~detail.ready
    /\ users[u].emailOK => ("reset" \in detail.capabilities) = Resettable(u)
================================================================================
