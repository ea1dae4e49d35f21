------------------------------ MODULE Notifications ------------------------------
(* What users are told: a notification for each recipient under a key that keeps   *)
(* it from being told twice, in the app or by e-mail, as the recipient prefers;    *)
(* read marks, resends, and what the console shows of the e-mails. A call commits  *)
(* once for each recipient. How a queued e-mail is handled is in EmailJobs.        *)
EXTENDS TrustSafety, Sequences

CONSTANTS Keys,      \* what there is to tell: dedupe keys without their recipient
          Fanned,    \* those told to every administrator, in the app; the others go to one user, by e-mail
          Notices    \* rows, numbered in the order they are made
ASSUME NoticesAssumption == Fanned \subseteq Keys /\ Notices \subseteq Nat /\ IsFiniteSet(Notices)

VARIABLES notices,   \* notifications
          prefs,     \* notification_preferences, of a user and the event of a key
          told,      \* ghost: keys with the recipients a call that ended well had for them
          hurried,   \* ghost: notices two resends were about at once
          cut        \* ghost: notices whose e-mail was queued by a call that died then
noticeVars == <<notices, prefs, told, hurried, cut>>

\* The delivery that links an e-mail to its notification, when there is one.
Delivery == {"none", "queued", "sent", "failed"}
\* failed: it failed once.
Mail == [status: {"queued", "sent", "failed"}, failed: BOOLEAN, delivery: Delivery]
\* mails: e-mails queued for it; tries: deliveries in the app; recent: resends in the last 30 seconds.
Notice == [to: People \cup {None}, key: Keys \cup {None}, channel: {"in_app", "email"},
           status: {"pending", "skipped", "queued", "sent", "failed"}, read: BOOLEAN,
           mails: Seq(Mail), tries: Nat, recent: Nat]
NoNotice == [to |-> None, key |-> None, channel |-> "in_app", status |-> "pending", read |-> FALSE,
             mails |-> <<>>, tries |-> 0, recent |-> 0]
QueuedMail == [status |-> "queued", failed |-> FALSE, delivery |-> "none"]
\* "email": enabled, and nothing but e-mail is preferred.
Preference == {"none", "on", "off", "email"}

Rows == {n \in Notices : notices[n] # NoNotice}
Inbox(p) == {n \in Rows : notices[n].to = p}
Unread(p) == {n \in Inbox(p) : ~notices[n].read}
KeyedTo(p, k) == {n \in Inbox(p) : notices[n].key = k}
Signed(p) == people[p] # Nobody
Recipients == {p \in People : people[p].active /\ people[p].role \in Managers}
Requested(k) == IF k \in Fanned THEN "in_app" ELSE "email"
Selected(p, k) == IF prefs[<<p, k>>] = "email" THEN "email" ELSE Requested(k)

UpdatePreference(c) ==
  \E p \in People, k \in Keys, v \in Preference \ {"none"} :
    /\ Signed(p) /\ prefs[<<p, k>>] # v
    /\ prefs' = [prefs EXCEPT ![<<p, k>>] = v]
    /\ Finish(c)
    /\ UNCHANGED <<notices, told, hurried, cut, adminVars, safetyVars>>

\* Rows as calls that ended left them: everybody told once, and every e-mail with its delivery.
Accounted(m) == /\ m.status = "failed" \/ m.delivery = "failed" => m.failed
                /\ m.delivery = "sent" => m.status = "sent"
Settled(ns) ==
  LET rows == {n \in Notices : ns[n] # NoNotice} IN
  /\ \A n, m \in rows : ns[n].to = ns[m].to /\ ns[n].key = ns[m].key => n = m
  /\ \A n \in rows : /\ ns[n].status # "pending" /\ ns[n].recent <= 1
                     /\ ns[n].mails # <<>> => ns[n].channel = "email"
                     /\ \A i \in DOMAIN ns[n].mails :
                           Accounted(ns[n].mails[i]) /\ ns[n].mails[i].delivery # "none"

(* ---- create_and_dispatch, for one user or for each administrator ---- *)
\* view: those still to be told; arg: all of them.
Tell(c, k, S) ==
  /\ call' = [call EXCEPT ![c] = Call("fan", {}, k, S, S)]
  /\ UNCHANGED <<noticeVars, adminVars, safetyVars>>
TellAdmins(c) == \E k \in Fanned : Tell(c, k, Recipients)
TellUser(c) == \E k \in Keys \ Fanned, p \in People : Signed(p) /\ Tell(c, k, {p})

AlreadyTold(p, k) == KeyedTo(p, k) # {}
\* The key is looked up, then the preference.
Consider(c) ==
  LET k == call[c] IN
  /\ k.pc = "fan"
  /\ \E p \in k.view :
       call' = [call EXCEPT ![c] =
         IF AlreadyTold(p, k.on) THEN [k EXCEPT !.view = @ \ {p}]
         ELSE Call("tell", {}, k.on, k.view \ {p},
                   [all |-> k.arg, to |-> p, channel |-> Selected(p, k.on),
                    enabled |-> prefs[<<p, k.on>>] # "off"])]
  /\ UNCHANGED <<noticeVars, adminVars, safetyVars>>
\* The row and, unless the recipient wants none, its first dispatch: delivered in the app, or queued as an e-mail.
CommitNotice(c) ==
  LET k == call[c] IN
  /\ k.pc = "tell" /\ ~AlreadyTold(k.arg.to, k.on)
  /\ \E n \in Notices \ Rows :
       /\ \A m \in Notices \ Rows : n <= m
       /\ LET row == [NoNotice EXCEPT !.to = k.arg.to, !.key = k.on, !.channel = k.arg.channel]
              mailed == k.arg.enabled /\ k.arg.channel = "email" IN
          /\ notices' = [notices EXCEPT ![n] =
               IF ~k.arg.enabled THEN [row EXCEPT !.status = "skipped"]
               ELSE IF mailed THEN [row EXCEPT !.status = "queued", !.mails = <<QueuedMail>>]
               ELSE [row EXCEPT !.status = "sent", !.tries = 1]]
          /\ call' = [call EXCEPT ![c] = IF mailed THEN Call("link", {<<n, 1>>}, k.on, k.view, k.arg)
                                         ELSE Call("fan", {}, k.on, k.view, k.arg.all)]
  /\ UNCHANGED <<prefs, told, hurried, cut, adminVars, safetyVars>>
\* The unique key refuses the row, and the call ends there.
RefuseNotice(c) ==
  /\ call[c].pc = "tell" /\ AlreadyTold(call[c].arg.to, call[c].on)
  /\ Finish(c)
  /\ UNCHANGED <<noticeVars, adminVars, safetyVars>>
\* The delivery is recorded in a transaction after the one that queued the e-mail, with the status read in between.
SeenOf(m) == {"queued", m.status} \cup {s \in {"failed"} : m.failed}
Delivered(k) ==
  \E x \in k.about : \E seen \in SeenOf(notices[x[1]].mails[x[2]]) :
    notices' = [notices EXCEPT ![x[1]].mails[x[2]].delivery = seen, ![x[1]].status = seen]
CommitDelivery(c) ==
  LET k == call[c] IN
  /\ k.pc = "link"
  /\ Delivered(k)
  /\ call' = [call EXCEPT ![c] = Call("fan", {}, k.on, k.view, k.arg.all)]
  /\ UNCHANGED <<prefs, told, hurried, cut, adminVars, safetyVars>>
AllTold(c) ==
  /\ call[c].pc = "fan" /\ call[c].view = {}
  /\ told' = told \cup {<<call[c].on, call[c].arg>>}
  /\ Finish(c)
  /\ UNCHANGED <<notices, prefs, hurried, cut, adminVars, safetyVars>>

(* ---- reading ---- *)
MarkRead(c) ==
  \E p \in People : \E n \in Unread(p) :
    /\ notices' = [notices EXCEPT ![n].read = TRUE]
    /\ Finish(c)
    /\ UNCHANGED <<prefs, told, hurried, cut, adminVars, safetyVars>>
MarkAllRead(c) ==
  \E p \in People :
    /\ Unread(p) # {}
    /\ notices' = [n \in Notices |-> IF n \in Unread(p) THEN [notices[n] EXCEPT !.read = TRUE]
                                     ELSE notices[n]]
    /\ Finish(c)
    /\ UNCHANGED <<prefs, told, hurried, cut, adminVars, safetyVars>>

(* ---- what becomes of an e-mail ---- *)
Mails == UNION {{n} \X DOMAIN notices[n].mails : n \in Rows}
MailOf(x) == notices[x[1]].mails[x[2]]
Linked(x) == MailOf(x).delivery # "none"
\* The worker handles it, again if it failed and the job came back, and tells the notification it is linked to.
Reconciled(x, s) ==
  LET m == [MailOf(x) EXCEPT !.status = s, !.failed = @ \/ s = "failed"] IN
  IF Linked(x) THEN [notices EXCEPT ![x[1]].mails[x[2]] = [m EXCEPT !.delivery = s], ![x[1]].status = s]
  ELSE [notices EXCEPT ![x[1]].mails[x[2]] = m]
MailHandled ==
  \E x \in Mails, s \in {"sent", "failed"} :
    /\ MailOf(x).status # "sent"
    /\ notices' = Reconciled(x, s)
    /\ UNCHANGED <<prefs, told, hurried, cut, call, adminVars, safetyVars>>

(* ---- resending: from the notification, or from one of its e-mails ---- *)
CoolingDown(n) == notices[n].recent > 0
Resend(c, n) ==
  /\ ~CoolingDown(n)
  /\ call' = [call EXCEPT ![c] = Call("again", {n}, n, None, None)]
  /\ hurried' = hurried \cup {m \in {n} : \E d \in Flying : call[d].pc = "again" /\ call[d].on = n}
  /\ UNCHANGED <<notices, prefs, told, cut, adminVars, safetyVars>>
ResendNotice(c) == \E n \in Rows : Resend(c, n)
\* Only an e-mail with a recorded delivery leads back to its notification.
ResendCommunication(c) ==
  \E x \in Mails : Linked(x) /\ notices[x[1]].channel = "email" /\ Resend(c, x[1])
\* Neither the preference nor the status of the notice is asked.
CommitResending(c) ==
  LET n == call[c].on
      mailed == notices[n].channel = "email" IN
  /\ call[c].pc = "again"
  /\ notices' = [notices EXCEPT ![n].recent = @ + 1, ![n].status = IF mailed THEN "queued" ELSE "sent",
                                ![n].mails = IF mailed THEN Append(@, QueuedMail) ELSE @,
                                ![n].tries = IF mailed THEN @ ELSE @ + 1]
  /\ call' = [call EXCEPT ![c] =
       IF mailed THEN Call("relink", {<<n, Len(notices[n].mails) + 1>>}, n, None, None) ELSE Over]
  /\ UNCHANGED <<prefs, told, hurried, cut, adminVars, safetyVars>>
CommitRedelivery(c) ==
  /\ call[c].pc = "relink"
  /\ Delivered(call[c])
  /\ Finish(c)
  /\ UNCHANGED <<prefs, told, hurried, cut, adminVars, safetyVars>>
CooldownPasses ==
  \E n \in Rows :
    /\ CoolingDown(n)
    /\ notices' = [notices EXCEPT ![n].recent = 0]
    /\ UNCHANGED <<prefs, told, hurried, cut, call, adminVars, safetyVars>>

NoticesNext ==
  \/ \E c \in Calls :
       \/ Turn(c) /\ (\/ TellAdmins(c) \/ TellUser(c) \/ ResendNotice(c) \/ ResendCommunication(c)
                      \/ UpdatePreference(c) \/ MarkRead(c) \/ MarkAllRead(c))
       \/ Consider(c) \/ CommitNotice(c) \/ RefuseNotice(c) \/ CommitDelivery(c) \/ AllTold(c)
       \/ CommitResending(c) \/ CommitRedelivery(c)
  \/ CooldownPasses
\* Of a call that dies, what it queued stays queued without a delivery.
Severed(c) == IF call[c].pc \in {"link", "relink"} THEN {x[1] : x \in call[c].about} ELSE {}

(* ---- the console, over all that was queued: the e-mails are of the last day ---- *)
MailsIn(s) == {x \in Mails : MailOf(x).status = s}
DeliveriesIn(s) == {x \in Mails : MailOf(x).delivery = s}
AppDeliveries == UNION {{n} \X (1..notices[n].tries) : n \in Rows}
RetryPolicy(x) ==
  CASE ~Linked(x) -> "not_linked_to_notification"
    [] Linked(x) /\ notices[x[1]].channel # "email" -> "unsupported_channel"
    [] Linked(x) /\ notices[x[1]].channel = "email" /\ MailOf(x).status = "queued" -> "already_queued"
    [] OTHER -> "manual_resend_available"
Item(x) == [status |-> MailOf(x).status, retryable |-> RetryPolicy(x) = "manual_resend_available",
            notification |-> IF Linked(x) THEN notices[x[1]].status ELSE "none"]
DeliveryAttempts(x) == IF Linked(x) THEN {y \in Mails : y[1] = x[1] /\ Linked(y)} ELSE {}
DeliveryTimeline(x) ==
  LET m == MailOf(x) IN
  {"queued"} \cup {k \in {"sent"} : m.status = "sent"} \cup {k \in {"failed"} : m.failed}
    \cup {k \in {"notification_dispatch"} : Linked(x)}
    \cup {k \in {"notification_delivered"} : m.delivery = "sent"}
    \cup {k \in {"notification_failed"} : m.delivery = "failed" \/ (m.delivery = "sent" /\ m.failed)}
\* Joined from the e-mail, where there may be no notification; and from the notification.
ResendableFailed == {x \in MailsIn("failed") : Linked(x) /\ notices[x[1]].channel = "email"}
RetryableFailed == {x \in Mails : notices[x[1]].channel = "email" /\ Linked(x) /\ MailOf(x).status = "failed"}
Summary == [total |-> Cardinality(Mails), queued |-> Cardinality(MailsIn("queued")),
            sent |-> Cardinality(MailsIn("sent")), failed |-> Cardinality(MailsIn("failed")),
            resendable_failed |-> Cardinality(ResendableFailed)]
WorkloadStatus(failed, pending) == IF failed > 0 \/ pending > 100 THEN "degraded" ELSE "healthy"
EmailWorkload ==
  LET failed == Cardinality(MailsIn("failed"))
      pending == Cardinality(MailsIn("queued")) IN
  [pending |-> pending, failed |-> failed, succeeded_recent |-> Cardinality(MailsIn("sent")),
   retryable |-> Cardinality(RetryableFailed), status |-> WorkloadStatus(failed, pending)]
NotificationWorkload ==
  LET failed == Cardinality(DeliveriesIn("failed"))
      pending == Cardinality(DeliveriesIn("queued")) IN
  [pending |-> pending, failed |-> failed,
   succeeded_recent |-> Cardinality(DeliveriesIn("sent")) + Cardinality(AppDeliveries),
   status |-> WorkloadStatus(failed, pending)]
CommunicationFailures == [x \in MailsIn("failed") |-> [status |-> MailOf(x).status, retry_supported |-> Linked(x)]]
Statistics == [total |-> Cardinality(Rows),
               by_status |-> [s \in {"pending", "skipped", "queued", "sent", "failed"} |->
                 Cardinality({n \in Rows : notices[n].status = s})],
               by_channel |-> [h \in {"in_app", "email"} |-> Cardinality({n \in Rows : notices[n].channel = h})]]

\* Everybody whom a call was to tell has been told when it ends (notification_service.py:251-288), once, however often it is called again after it failed half way, and with two such calls at once (notification_service.py:100-105, models/notification.py:30).
ToldEverybody ==
  /\ \A x \in told : \A p \in x[2] : KeyedTo(p, x[1]) # {}
  /\ \A n, m \in Rows : notices[n].to = notices[m].to /\ notices[n].key = notices[m].key => n = m

\* An e-mail is dispatched for a notice once in 30 seconds by a resend (notification_service.py:399-420), unless two resends of it overlapped.
ResentOnce == \A n \in Notices \ hurried : notices[n].recent <= 1

\* An e-mail that was queued for a notice is linked to it by a delivery (notification_service.py:435-480), from which it can be sent again, unless its call is under way or died.
MailLinked ==
  \A n \in Rows \ cut :
    (\A c \in Flying : n \notin Severed(c)) => \A i \in DOMAIN notices[n].mails : Linked(<<n, i>>)

\* What the console says of the e-mails agrees between its pages (admin_communication_service.py:110-196 and 629-641, admin_system_service.py:421-519, 637-668 and 928-942): what one counts as retryable another offers to send again, and nobody reads of a delivery of an e-mail that is not in the other's counts. A failed e-mail can be sent again from there unless its call died or is under way.
ConsoleAgrees ==
  LET sum == Summary
      work == EmailWorkload
      failures == CommunicationFailures
      stats == Statistics IN
  /\ sum.total = sum.queued + sum.sent + sum.failed
  /\ <<sum.queued, sum.sent, sum.failed>> = <<work.pending, work.succeeded_recent, work.failed>>
  /\ sum.resendable_failed = work.retryable
  /\ work.retryable = Cardinality({x \in DOMAIN failures : failures[x].retry_supported})
  /\ \A x \in DOMAIN failures :
       /\ failures[x].retry_supported <=> Item(x).retryable
       /\ failures[x].retry_supported <=> x \in DeliveryAttempts(x)
       /\ Item(x).retryable \/ x[1] \in cut \cup UNION {Severed(c) : c \in Flying}
  \* A delivery may be left behind its e-mail, never ahead of it.
  /\ NotificationWorkload.succeeded_recent - Cardinality(AppDeliveries) <= work.succeeded_recent
  /\ \A x \in Mails :
       /\ "notification_delivered" \in DeliveryTimeline(x) => "sent" \in DeliveryTimeline(x)
       /\ "notification_failed" \in DeliveryTimeline(x) => "failed" \in DeliveryTimeline(x)
  /\ stats.by_status["pending"] = 0
  /\ stats.by_channel["email"] + stats.by_channel["in_app"] = stats.total

NoticesInOrder == ToldEverybody /\ ResentOnce /\ MailLinked /\ ConsoleAgrees
================================================================================
