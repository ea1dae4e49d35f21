---------------------------- MODULE MCAdministration ----------------------------
(* Two superadmins; one, and an address without an account; one, and what there   *)
(* is to look into; and two administrators who are told things.                   *)
EXTENDS Administration

CONSTANTS p1, p2, k1

As(role) == [role |-> role, active |-> TRUE]
Quiet == [people |-> [p \in People |-> IF p = p1 THEN As("superadmin") ELSE Nobody],
          cases |-> [n \in Cases |-> NoCase], adverse |-> [s \in Subjects |-> 0],
          notices |-> [n \in Notices |-> NoNotice], prefs |-> [x \in People \X Keys |-> "none"],
          calls |-> {}, parts |-> {}]
Reigning == [Quiet EXCEPT !.calls = 1..5, !.parts = {"access"},
  !.people = [p \in People |-> IF p \in {p1, p2} THEN As("superadmin") ELSE Nobody]]
Hiring == [Quiet EXCEPT !.calls = 1..5, !.parts = {"access"}]
Looking == [Quiet EXCEPT !.calls = 1..4, !.parts = {"safety"}]
Reporting == [Quiet EXCEPT !.calls = 1..5, !.parts = {"incidents"}]
Telling == [Reigning EXCEPT !.calls = 1..3, !.parts = {"notices"},
  !.people = [p \in People |-> As(IF p = p1 THEN "superadmin" ELSE "admin")]]
\* Administrators come and go, and one was told already.
Coming == [Reigning EXCEPT !.calls = 1..3, !.parts = {"notices", "access"},
  !.notices = [n \in Notices |-> IF n = 1 THEN [NoNotice EXCEPT !.to = p1, !.key = k1, !.status = "sent", !.tries = 1] ELSE NoNotice]]
\* One wants one thing by e-mail, and an e-mail about it failed.
Mailing == [Telling EXCEPT !.calls = 1..2, !.parts = {"notices", "mails"},
  !.prefs = [x \in People \X Keys |-> IF x = <<p1, k1>> THEN "email" ELSE "off"],
  !.notices = [n \in Notices |-> IF n # 1 THEN NoNotice ELSE
    [NoNotice EXCEPT !.to = p2, !.key = k1, !.channel = "email", !.status = "failed",
                     !.mails = <<[status |-> "failed", failed |-> TRUE, delivery |-> "failed"]>>]]]
MCStarts == {Reigning, Hiring, Looking, Reporting, Telling, Coming, Mailing}
\* One call at a time; a superadmin suspended, invited and restored.
MCSequel == {[Reigning EXCEPT !.calls = 1..6]}
================================================================================
