------------------------------- MODULE MCWorkspace -------------------------------
(* One family of starts for each part, with the calls that part is explored with. *)
EXTENDS Workspace, TLC

CONSTANTS u1, u2, e1, e2, t1

MCEmailOf == u1 :> e1 @@ u2 :> e2
MCPhoneOf == u1 :> t1 @@ u2 :> None

Unless(S, none, one) == [x \in S |-> IF x \in DOMAIN one THEN one[x] ELSE none]
Empty == [persons |-> [p \in Persons |-> NoPerson], invites |-> [i \in Invites |-> NoInvite],
          requests |-> [r \in Requests |-> NoRequest], shares |-> [s \in Shares |-> NoShare],
          parts |-> {}, calls |-> {}]

Known(u, e, t, rel) == [there |-> TRUE, user |-> u, email |-> e, phone |-> t, relationship |-> rel]
Sent(e, t, p) == [NoInvite EXCEPT !.there = TRUE, !.status = "pending", !.email = e, !.phone = t,
                                  !.person = p, !.delivery = "delivered"]

Inviting == [Empty EXCEPT !.parts = {"issuing"}, !.calls = 1..3,
  !.invites = Unless(Invites, NoInvite, 1 :> [Sent(e2, t1, None) EXCEPT !.status = "draft", !.delivery = "queued"])]
Replying == [Empty EXCEPT !.parts = {"issuing", "answering"}, !.calls = 1..3,
  !.persons = Unless(Persons, NoPerson, 1 :> Known(None, e1, t1, "employee")),
  !.invites = Unless(Invites, NoInvite, 1 :> Sent(e1, t1, 1) @@ 2 :> [Sent(e2, t1, None) EXCEPT !.status = "draft"])]
Asking == [Empty EXCEPT !.parts = {"intake"}, !.calls = 1..4]
Seeding == [Replying EXCEPT !.parts = {"answering", "intake"}, !.calls = 1..3,
  !.invites = Unless(Invites, NoInvite, 1 :> Sent(e2, t1, None))]
Sharing == [Empty EXCEPT !.parts = {"shares"}, !.calls = 1..5]
MCStarts == {Inviting, Replying, Asking, Seeding, Sharing}
================================================================================
