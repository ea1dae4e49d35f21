------------------------ MODULE VerificationLifecycle ------------------------
(***************************************************************************)
(* What a verification request promises its candidate, its organization    *)
(* and the administrators, with no rows, sessions or e-mails: the phase it *)
(* is in, whether it was ever released to an organization, and what its    *)
(* claim ended up as.  VerificationRequest implements it when requests are *)
(* served one at a time.                                                   *)
(***************************************************************************)
CONSTANT Verdicts   \* how quality review may close a request

VARIABLES phase,    \* where the request is
          released, \* an administrator approved it for an organization
          verdict   \* how it was closed, or "none"

lifecycle == <<phase, released, verdict>>

Phases == {"candidate", "review", "corrections", "dispatch", "organization",
           "quality", "closed"}

Init == phase = "candidate" /\ released = FALSE /\ verdict = "none"

Move(from, to) == phase \in from /\ phase' = to /\ UNCHANGED <<released, verdict>>

Submit == Move({"candidate"}, "review")
AskForCorrections == Move({"review", "quality"}, "corrections")
Resubmit == Move({"corrections"}, "review")
Dispatch == Move({"dispatch"}, "organization")
Respond == Move({"organization"}, "quality")
ReturnToVerifier == Move({"quality"}, "organization")

\* Approval dispatches at once, or leaves the dispatch to a later step.
Release ==
  /\ phase = "review"
  /\ released' = TRUE
  /\ phase' \in {"dispatch", "organization"}
  /\ UNCHANGED verdict

Close(from, v) ==
  /\ phase \in from
  /\ phase' = "closed" /\ verdict' = v
  /\ UNCHANGED released

\* A candidate may withdraw only what no organization was ever asked about.
Withdraw == ~released /\ Close({"review"}, "withdrawn")
Reject == Close({"review"}, "rejected")
Cancel == Close(Phases \ {"closed"}, "cancelled")
Finalize == \E v \in Verdicts : released /\ Close({"quality"}, v)

Next == \/ Submit \/ AskForCorrections \/ Resubmit \/ Release \/ Dispatch
        \/ Respond \/ ReturnToVerifier \/ Withdraw \/ Reject \/ Cancel \/ Finalize

Spec == Init /\ [][Next]_lifecycle
=============================================================================
