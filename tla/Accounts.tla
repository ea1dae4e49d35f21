------------------------------- MODULE Accounts --------------------------------
(* Sign-up, sessions and erasure of accounts over the rows they share, or the    *)
(* directory of candidates beside what the owner of an account does.             *)
EXTENDS Signup, UserDirectory

VARIABLE part   \* which of the two this is, chosen at the start

Page == [photo: Formats \cup {None}, languages: SUBSET Spellings, shares: SUBSET Shares]
NoPage == [photo |-> None, languages |-> {}, shares |-> {}]

CONSTANT Starts   \* the rows there may be at the start, with the codes last sent

Start == [users: [Users -> User], signups: [Signups -> Signup],
          sent: [Signups -> Code \cup {None}], texted: [Signups -> Phones \cup {None}],
          docs: [Documents -> Document], requests: [Requests -> Request],
          part: {"accounts", "directory"}, pages: [Users -> Page]]
\* Nobody is erased yet. Accounts have a way to sign in, sign-ups a password or Google until they are completed,
\* and rows point at rows that are there; on the directory's page nobody is suspended.
InOrder(s) ==
  /\ \A u \in Users :
       IF s.users[u].email = None THEN s.users[u] = NoUser
       ELSE /\ ~s.users[u].deleted
            /\ s.users[u].password \/ \E p \in Providers : s.users[u].links[p] # None
            /\ s.part = "directory" => s.users[u].active
  /\ \A i \in Signups :
       /\ IF s.signups[i].done # None THEN s.signups[i].email # None /\ s.users[s.signups[i].done].email # None
          ELSE s.signups[i].email = None \/ s.signups[i].password \/ s.signups[i].google
       /\ s.sent[i] # None => s.sent[i].id = i
  /\ \A d \in Documents : s.docs[d].owner # None => s.docs[d].row
  /\ \A q \in Requests : s.requests[q].owner # None => s.users[s.requests[q].owner] # NoUser
  /\ \A u \in Users : \A x, y \in s.pages[u].languages : x = y
ASSUME StartsAssumption == Starts \subseteq Start /\ \A s \in Starts : InOrder(s)

Init ==
  /\ \E s \in Starts :
       /\ users = s.users /\ signups = s.signups
       /\ otp = [i \in Signups |-> [email |-> s.sent[i], phone |-> s.texted[i]]]
       /\ sends = [i \in Signups |->
                     [ch \in Channels |-> IF ch = "email" /\ s.sent[i] # None THEN s.sent[i].n ELSE 0]]
       /\ mail = {s.sent[i] : i \in Signups} \ {None}
       /\ docs = s.docs /\ requests = s.requests
       /\ claims = [u \in Users |-> IF s.users[u] = NoUser THEN "none" ELSE "kept"]
       /\ part = s.part
       /\ shares = [h \in Shares |-> IF \E u \in Users : h \in s.pages[u].shares
                     THEN [owner |-> CHOOSE u \in Users : h \in s.pages[u].shares, state |-> "live"] ELSE NoShare]
       /\ avatar = [u \in Users |-> s.pages[u].photo] /\ confirmed = avatar
       /\ stored = {<<u, avatar[u]>> : u \in {v \in Users : avatar[v] # None}}
       /\ listed = [u \in Users |-> s.pages[u].languages]
  /\ call = [c \in Calls |-> Blank]
  /\ accepted = {} /\ restarted = {}
  /\ tokens = [t \in Tokens |-> NoToken]
  /\ resets = [k \in Resets |-> NoReset]
  /\ reused = {} /\ raced = {}
  /\ events = <<>> /\ crossed = {}
  /\ plan = [c \in Calls |-> NoPlan]

Next ==
  /\ \/ /\ part = "accounts"
        /\ SignupNext \/ SessionsNext \/ ErasureNext
        /\ UNCHANGED deskVars
     \/ part = "directory" /\ DirectoryNext
     \/ \E c \in Calls : Crash(c) /\ UNCHANGED deskVars
  /\ UNCHANGED part
accountVars == <<vars, deskVars, part>>
Spec == Init /\ [][Next]_accountVars

TypeOK == RecordsTyped /\ (part = "directory" => DirectoryTyped)

(* Who can sign in, through which sign-up, and until when.                       *)
SessionsInOrder ==
  /\ CodeUsedOnce /\ ReusedFamilyDies /\ KeepsLoginMethod
  /\ part = "directory" =>
       SuspendedShut /\ LastWord /\ OneResetLink /\ PhotoKept /\ LanguageOnce /\ DirectoryAgrees

(* What the erasure of an account leaves behind.                                 *)
ErasedForGood == ErasedSignups /\ RequestsKeepClaims /\ OnlyLateObjects /\ (part = "directory" => NothingLeft)
================================================================================
