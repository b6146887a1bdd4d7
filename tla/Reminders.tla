--------------------------------- MODULE Reminders ---------------------------------
(***************************************************************************)
(* RemindersScheduler, NotificationEventsListener, NotificationsService    *)
(* and the email worker.                                                   *)
(*                                                                         *)
(* A run of the scheduler looks through what is due and emits an event for *)
(* whatever nobody has been notified of.  The event's handler is not       *)
(* awaited: it enqueues a mail and then inserts the notification that the  *)
(* next look finds.                                                        *)
(***************************************************************************)
EXTENDS PlatformTables

HandlerSteps == {"none", "resolve", "enqueue", "notify"}
NoRun == [at |-> "idle", todo |-> {}]

RemindersTypeOK ==
    /\ cron \in [at : {"idle", "loop"}, todo : SUBSET Reminders]
    /\ handlers \in [Reminders -> HandlerSteps]
    /\ mails \in Seq([target : Targets, at : {"waiting", "active", "finished"},
                      stalled : BOOLEAN])
    /\ notices \in [Targets -> [rows : Nat, cleared : BOOLEAN]]
    /\ lostHandlers \in Nat

RemindersInit ==
    /\ cron = NoRun
    /\ handlers = [r \in Reminders |-> "none"]
    /\ mails = <<>>
    /\ notices = [t \in Targets |-> [rows |-> 0, cleared |-> FALSE]]
    /\ lostHandlers = 0

-----------------------------------------------------------------------------
ElsewhereFromReminders == UNCHANGED <<scenario, accountVars, jobVars, trackVars>>

(* The next day's run: what is due is within the threshold, a subset of    *)
(* the assignments and registrations that are still open or confirmed.     *)
(* The handlers of the day before have ended.                              *)
StartCron(due) ==
    /\ Called("remind") /\ cron.at = "idle"
    /\ \A r \in Reminders : handlers[r] = "none"
    /\ Len(mails) + Cardinality(due) <= MaxDays * Cardinality(Reminders)
    /\ cron' = [at |-> "loop", todo |-> due]
    /\ UNCHANGED <<handlers, mails, notices, lostHandlers>>
    /\ ElsewhereFromReminders

(* Mutant: notifications that their user has cleared do not count.         *)
FindUnclearedNotification(r) ==
    /\ cron.at = "loop" /\ r \in cron.todo
    /\ cron' = [cron EXCEPT !.todo = @ \ {r}]
    /\ handlers' = IF notices[TargetOf[r]].rows > 0 /\ ~notices[TargetOf[r]].cleared THEN handlers
                   ELSE [handlers EXCEPT ![r] = "resolve"]
    /\ UNCHANGED <<mails, notices, lostHandlers>>
    /\ ElsewhereFromReminders

(* alreadyNotified, and the event that starts a handler.                   *)
FindNotification(r) ==
    /\ cron.at = "loop" /\ r \in cron.todo
    /\ cron' = [cron EXCEPT !.todo = @ \ {r}]
    /\ handlers' = IF notices[TargetOf[r]].rows > 0 THEN handlers
                   ELSE [handlers EXCEPT ![r] = "resolve"]
    /\ UNCHANGED <<mails, notices, lostHandlers>>
    /\ ElsewhereFromReminders

EndCron ==
    /\ cron.at = "loop" /\ cron.todo = {}
    /\ cron' = NoRun
    /\ UNCHANGED <<handlers, mails, notices, lostHandlers>>
    /\ ElsewhereFromReminders

(* handle: without a template nothing is sent.                             *)
ResolveTemplate(r) ==
    /\ handlers[r] = "resolve"
    /\ \/ handlers' = [handlers EXCEPT ![r] = "enqueue"]
       \/ Called("noTemplate") /\ handlers' = [handlers EXCEPT ![r] = "none"]
    /\ UNCHANGED <<cron, mails, notices, lostHandlers>>
    /\ ElsewhereFromReminders

EnqueueMail(r) ==
    /\ handlers[r] = "enqueue"
    /\ mails' = Append(mails, [target |-> TargetOf[r], at |-> "waiting", stalled |-> FALSE])
    /\ handlers' = [handlers EXCEPT ![r] = "notify"]
    /\ UNCHANGED <<cron, notices, lostHandlers>>
    /\ ElsewhereFromReminders

Notify(r) ==
    /\ handlers[r] = "notify"
    /\ notices' = [notices EXCEPT ![TargetOf[r]] = [rows |-> @.rows + 1, cleared |-> FALSE]]
    /\ handlers' = [handlers EXCEPT ![r] = "none"]
    /\ UNCHANGED <<cron, mails, lostHandlers>>
    /\ ElsewhereFromReminders

(* clearMine hides what there is, and keeps the rows.                      *)
ClearMine(t) ==
    /\ Called("clearMine")
    /\ notices[t].rows > 0 /\ ~notices[t].cleared
    /\ notices' = [notices EXCEPT ![t].cleared = TRUE]
    /\ UNCHANGED <<cron, handlers, mails, lostHandlers>>
    /\ ElsewhereFromReminders

(* An exception ends the one handler that it is thrown in.                 *)
Lost(rs) == lostHandlers' = lostHandlers + Cardinality({r \in rs : handlers[r] = "notify"})

FailHandler(r) ==
    /\ Called("abort")
    /\ handlers[r] # "none"
    /\ handlers' = [handlers EXCEPT ![r] = "none"]
    /\ Lost({r})
    /\ UNCHANGED <<cron, mails, notices>>
    /\ ElsewhereFromReminders

(* One in the run ends its loop; the handlers it has started go on.        *)
FailCron ==
    /\ Called("abort")
    /\ cron.at = "loop"
    /\ cron' = NoRun
    /\ UNCHANGED <<handlers, mails, notices, lostHandlers>>
    /\ ElsewhereFromReminders

(* A restart ends all of them.                                             *)
AbortReminders ==
    /\ Called("abort")
    /\ cron.at = "loop" \/ \E r \in Reminders : handlers[r] # "none"
    /\ cron' = NoRun
    /\ handlers' = [r \in Reminders |-> "none"]
    /\ Lost(Reminders)
    /\ UNCHANGED <<mails, notices>>
    /\ ElsewhereFromReminders

-----------------------------------------------------------------------------
(* The email worker.                                                       *)
TakeMail(i) ==
    /\ Called("mail")
    /\ mails[i].at = "waiting"
    /\ mails' = [mails EXCEPT ![i].at = "active"]
    /\ UNCHANGED <<cron, handlers, notices, lostHandlers>>
    /\ ElsewhereFromReminders

MailGoes(i, mail) ==
    /\ mails[i].at = "active"
    /\ mails' = [mails EXCEPT ![i] = mail]
    /\ UNCHANGED <<cron, handlers, notices, lostHandlers>>
    /\ ElsewhereFromReminders

(* processEmailJob: whether it is sent, refused by Resend or skipped       *)
(* because no key is configured, the job is not tried again.               *)
SendMail(i) == MailGoes(i, [mails[i] EXCEPT !.at = "finished"])

(* The worker dies before BullMQ learns of it: the job is delivered again, *)
(* once.  That nothing is sent twice is the promise of Resend's key.       *)
RedeliverMail(i) ==
    /\ Called("crash") /\ ~mails[i].stalled
    /\ MailGoes(i, [mails[i] EXCEPT !.at = "waiting", !.stalled = TRUE])

ContinueCron == (\E r \in Reminders : FindNotification(r)) \/ EndCron
ContinueHandler(r) == ResolveTemplate(r) \/ EnqueueMail(r) \/ Notify(r)
ContinueMail(i) == TakeMail(i) \/ SendMail(i) \/ RedeliverMail(i)

RemindersNext ==
    \/ \E due \in SUBSET Reminders : StartCron(due)
    \/ ContinueCron
    \/ \E r \in Reminders : ContinueHandler(r) \/ FailHandler(r)
    \/ \E t \in Targets : ClearMine(t)
    \/ FailCron \/ AbortReminders
    \/ \E i \in DOMAIN mails : ContinueMail(i)

-----------------------------------------------------------------------------
(* Properties.                                                             *)

MailsTo(t) == {i \in DOMAIN mails : mails[i].target = t}
Due(t) == {r \in Reminders : TargetOf[r] = t}

(* Nobody is reminded again and again: however many days something is due, *)
(* and whatever the user clears, one assignment brings one mail, and a     *)
(* user's registrations for one conference at most one each; but for       *)
(* handlers that were ended between the mail and the notification.  And    *)
(* whoever finds a notification had a mail put on its way first.           *)
RemindersBounded ==
    \A t \in Targets :
        /\ Cardinality(MailsTo(t)) <= Cardinality(Due(t)) + lostHandlers
        /\ notices[t].rows <= Cardinality(MailsTo(t))
=============================================================================
