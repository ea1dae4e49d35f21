---------------------------- MODULE AccountErasure -----------------------------
(* Erasure of a candidate's account: a snapshot of what is to go, the objects in *)
(* storage first, then one transaction over the rows. The requests and claims    *)
(* that organizations rely on are retained, and the user row stays as a tombstone.*)
EXTENDS AccountRecords

\* The rows an erasure must reckon with, made while it is under way: what was made
\* before is there at the start.
Erasing(u) == \E c \in Calls : call[c].pc \in {"erase", "objects"} /\ call[c].who = u
CreateUpload(u, d) ==
  /\ Found(u) /\ users[u].active /\ docs[d].owner = None /\ Erasing(u)
  /\ docs' = [docs EXCEPT ![d] = [owner |-> u, row |-> TRUE, object |-> FALSE, late |-> FALSE]]
  /\ UNCHANGED <<users, signupVars, sessionVars, claims, requests, call>>
\* The client stores the object under the presigned URL, whatever became of the row.
PutObject(d) ==
  /\ docs[d].owner # None /\ ~docs[d].object
  /\ docs' = [docs EXCEPT ![d].object = TRUE,
                          ![d].late = Erasing(docs[d].owner) \/ users[docs[d].owner].deleted]
  /\ UNCHANGED <<users, signupVars, sessionVars, claims, requests, call>>
OpenRequest(u, q) ==
  /\ Found(u) /\ users[u].active /\ claims[u] = "kept" /\ requests[q].owner = None
  /\ Erasing(u)
  /\ requests' = [requests EXCEPT ![q] = [owner |-> u, status |-> "purgeable"]]
  /\ UNCHANGED <<users, signupVars, sessionVars, docs, claims, call>>
DispatchRequest(q) ==
  /\ requests[q].status = "purgeable" /\ Erasing(requests[q].owner)
  /\ requests' = [requests EXCEPT ![q].status = "underway"]
  /\ UNCHANGED <<users, signupVars, sessionVars, docs, claims, call>>

RequestsOf(u) == {q \in Requests : requests[q].owner = u}
\* _PURGEABLE_VERIFICATION_STATUSES: what no organization has been shown.
Purgeable(u) == {q \in RequestsOf(u) : requests[q].status = "purgeable"}

\* The password is asked again; then the snapshot.
BeginErase(c, u) ==
  /\ Idle(c) /\ Found(u) /\ users[u].active
  /\ call' = [call EXCEPT ![c] =
       [Blank EXCEPT !.pc = "erase", !.who = u, !.view = users[u],
          !.gone = Purgeable(u), !.retain = RequestsOf(u) # Purgeable(u),
          !.listed = {d \in Documents : docs[d].owner = u /\ docs[d].row}]]
  /\ UNCHANGED <<users, signupVars, sessionVars, careerVars>>

SignupsOf(u, view) ==
  {i \in Signups : \/ signups[i].done = u
                   \/ signups[i].email # None /\ signups[i].email = view.email
                   \/ signups[i].phone # None /\ signups[i].phone = view.phone}
\* The codes and the stored objects go before any row does.
ErasedObjects(c) == [d \in Documents |-> IF d \in call[c].listed
                                         THEN [docs[d] EXCEPT !.object = FALSE] ELSE docs[d]]
EraseObjects(c) ==
  /\ call[c].pc = "erase"
  /\ otp' = [i \in Signups |-> IF i \in SignupsOf(call[c].who, call[c].view)
                               THEN [email |-> None, phone |-> None] ELSE otp[i]]
  /\ docs' = ErasedObjects(c)
  /\ call' = [call EXCEPT ![c].pc = "objects"]
  /\ UNCHANGED <<users, signups, sends, mail, accepted, restarted, sessionVars, claims, requests>>

ByItsEmail(c) == {i \in Signups : /\ signups[i].email # None
                                  /\ signups[i].email = call[c].view.email}
PurgedSignups(c) == SignupsOf(call[c].who, call[c].view)

Tombstone(view) ==
  [view EXCEPT !.email = None, !.phone = None, !.password = FALSE, !.emailOK = FALSE,
     !.phoneOK = FALSE, !.active = FALSE, !.deleted = TRUE]
\* Foreign key of a request on its claim: a deletion under it is refused.
Unreferenced(claim, left) == \A q \in left : requests[q].owner # claim
CommitErase(c) ==
  /\ call[c].pc = "objects"
  /\ LET u == call[c].who
         view == call[c].view
         left == Requests \ call[c].gone IN
     /\ call[c].retain \/ Unreferenced(u, left)
     /\ requests' = [q \in Requests |-> IF q \in left THEN requests[q]
                                        ELSE [owner |-> None, status |-> "none"]]
     /\ claims' = [claims EXCEPT ![u] = IF @ = "none" THEN @
                                        ELSE IF call[c].retain THEN "retired" ELSE "none"]
     /\ docs' = [d \in Documents |-> IF docs[d].owner = u THEN [docs[d] EXCEPT !.row = FALSE]
                                     ELSE docs[d]]
     /\ signups' = [i \in Signups |-> IF i \in PurgedSignups(c) THEN NoSignup ELSE signups[i]]
     /\ tokens' = [t \in Tokens |-> IF tokens[t].user = u
                                    THEN [tokens[t] EXCEPT !.user = None, !.live = FALSE] ELSE tokens[t]]
     /\ resets' = [k \in Resets |-> IF resets[k].user = u THEN NoReset ELSE resets[k]]
     /\ users' = [users EXCEPT ![u] = [Written(@, view, Tombstone(view)) EXCEPT
                                         !.links = [p \in Providers |-> None]]]
  /\ Finish(c)
  /\ UNCHANGED <<otp, sends, mail, accepted, restarted, reused, raced>>

ErasureNext ==
  \/ \E c \in Calls : \/ \E u \in Users : BeginErase(c, u)
                      \/ EraseObjects(c) \/ CommitErase(c)
  \/ \E u \in Users, d \in Documents : CreateUpload(u, d)
  \/ \E d \in Documents : PutObject(d)
  \/ \E u \in Users, q \in Requests : OpenRequest(u, q)
  \/ \E q \in Requests : DispatchRequest(q)

(* No staged sign-up points at an erased account, whatever was signing up or     *)
(* completing while the erasure ran: the row would sign its owner in again.      *)
ErasedSignups == \A i \in Signups : signups[i].done # None => ~users[signups[i].done].deleted

(* No request is left without its claim, one opened while an erasure ran neither: *)
(* the erasure is refused then, its objects already gone.                        *)
RequestsKeepClaims ==
  \A q \in Requests : requests[q].owner # None => claims[requests[q].owner] # "none"

(* What is still stored of an erased account was put there during or after the    *)
(* erasure, under an upload URL given out before.                                *)
OnlyLateObjects ==
  \A d \in Documents : docs[d].object /\ docs[d].owner # None /\ users[docs[d].owner].deleted
                      => docs[d].late
================================================================================
