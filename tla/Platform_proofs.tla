---------------------------- MODULE Platform_proofs ----------------------------
(***************************************************************************)
(* Proofs about reminders and tracks, and the types of all the tables.     *)
(***************************************************************************)
EXTENDS Jobs_proofs, Accounts_proofs

MailType == [target : Targets, at : {"waiting", "active", "finished"},
             stalled : BOOLEAN]

(* The reminders of a target whose handler runs, or has only to insert its *)
(* notification.                                                           *)
Active(t) == {r \in Reminders : TargetOf[r] = t /\ handlers[r] # "none"}
Notifying(t) == {r \in Reminders : TargetOf[r] = t /\ handlers[r] = "notify"}

(* Notifications and the handlers that may still insert one are no more    *)
(* than the reminders; mails are no more than notifications, those about   *)
(* to be inserted, and the lost.                                           *)
TargetOK(t) ==
    /\ notices[t].rows + Cardinality(Active(t)) <= Cardinality(Due(t))
    /\ notices[t].rows + Cardinality(Notifying(t)) <= Cardinality(MailsTo(t))
    /\ Cardinality(MailsTo(t)) <= notices[t].rows + Cardinality(Notifying(t)) + lostHandlers

RemindersInv ==
    /\ RemindersTypeOK
    /\ \A r \in cron.todo : handlers[r] = "none"
    /\ \A t \in Targets : TargetOK(t)

-----------------------------------------------------------------------------
(* Reminders.                                                              *)

(* Everything counted is finite.                                           *)
LEMMA RemindersFinite ==
  ASSUME NEW t \in Targets, NEW S \in SUBSET Reminders
  PROVE  IsFiniteSet(S) /\ Cardinality(S) \in Nat
  BY PlatformAssumption, FS_Subset, FS_CardinalityType

LEMMA MailsFinite ==
  ASSUME RemindersTypeOK, NEW S \in SUBSET DOMAIN mails
  PROVE  IsFiniteSet(S) /\ Cardinality(S) \in Nat
  <1>1. DOMAIN mails = 1 .. Len(mails) /\ Len(mails) \in Nat
    BY DEF RemindersTypeOK
  <1>2. IsFiniteSet(DOMAIN mails)
    BY <1>1, FS_Interval
  <1> QED
    BY <1>2, FS_Subset, FS_CardinalityType

LEMMA Numbers ==
  ASSUME RemindersInv, NEW t \in Targets
  PROVE  /\ notices[t].rows \in Nat /\ lostHandlers \in Nat
         /\ IsFiniteSet(Active(t)) /\ Cardinality(Active(t)) \in Nat
         /\ IsFiniteSet(Notifying(t)) /\ Cardinality(Notifying(t)) \in Nat
         /\ IsFiniteSet(Due(t)) /\ Cardinality(Due(t)) \in Nat
         /\ IsFiniteSet(MailsTo(t)) /\ Cardinality(MailsTo(t)) \in Nat
         /\ Notifying(t) \subseteq Active(t) /\ Active(t) \subseteq Due(t)
         /\ TargetOK(t)
  <1>1. /\ Notifying(t) \subseteq Active(t) /\ Active(t) \subseteq Due(t)
        /\ Due(t) \in SUBSET Reminders /\ MailsTo(t) \in SUBSET DOMAIN mails
    BY DEF Active, Notifying, Due, MailsTo
  <1>2. Active(t) \in SUBSET Reminders /\ Notifying(t) \in SUBSET Reminders
    BY <1>1
  <1> QED
    BY <1>1, <1>2, RemindersFinite, MailsFinite DEF RemindersInv, RemindersTypeOK

(* A step that leaves mails and notifications as they are, and starts only *)
(* handlers of targets that have none.                                     *)
LEMMA HandlersStep ==
  ASSUME RemindersInv, UNCHANGED <<mails, notices>>,
         UNCHANGED lostHandlers, NEW t \in Targets, Notifying(t)' = Notifying(t),
         Active(t)' \subseteq Active(t) \/ notices[t].rows = 0
  PROVE  TargetOK(t)'
  <1>1. Active(t)' \subseteq Due(t) /\ Due(t)' = Due(t) /\ MailsTo(t)' = MailsTo(t)
    BY DEF Active, Due, MailsTo
  <1>2. /\ IsFiniteSet(Active(t)') /\ Cardinality(Active(t)') \in Nat
        /\ Cardinality(Active(t)') <= Cardinality(Due(t))
        /\ Active(t)' \subseteq Active(t) => Cardinality(Active(t)') <= Cardinality(Active(t))
    BY <1>1, Numbers, FS_Subset, FS_CardinalityType
  <1> QED
    BY <1>1, <1>2, Numbers DEF TargetOK

LEMMA StartCronStep ==
  ASSUME RemindersInv, NEW due \in SUBSET Reminders, StartCron(due)
  PROVE  RemindersInv'
  <1>1. UNCHANGED <<handlers, mails, notices, lostHandlers>> /\ cron' = [at |-> "loop", todo |-> due]
        /\ \A r \in Reminders : handlers[r] = "none"
    BY DEF StartCron
  <1>2. \A t \in Targets : TargetOK(t)'
    BY <1>1 DEF RemindersInv, TargetOK, Active, Notifying, Due, MailsTo
  <1> QED
    BY <1>1, <1>2 DEF RemindersInv, RemindersTypeOK

LEMMA FindNotificationStep ==
  ASSUME RemindersInv, NEW r \in Reminders, FindNotification(r)
  PROVE  RemindersInv'
  <1>1. /\ UNCHANGED <<mails, notices, lostHandlers>> /\ cron' = [cron EXCEPT !.todo = @ \ {r}]
        /\ \/ UNCHANGED handlers
           \/ /\ ~(notices[TargetOf[r]].rows > 0)
              /\ handlers' = [handlers EXCEPT ![r] = "resolve"]
    BY DEF FindNotification
  <1>2. RemindersTypeOK'
    BY <1>1 DEF RemindersInv, RemindersTypeOK, HandlerSteps
  <1>3. ASSUME NEW t \in Targets
        PROVE  TargetOK(t)'
    <2>1. CASE UNCHANGED handlers
      BY <1>1, <2>1 DEF RemindersInv, TargetOK, Active, Notifying, Due, MailsTo
    <2>2. CASE handlers' = [handlers EXCEPT ![r] = "resolve"] /\ ~(notices[TargetOf[r]].rows > 0)
      <3>1. \A q \in Reminders : handlers'[q] = IF q = r THEN "resolve" ELSE handlers[q]
        BY <2>2 DEF RemindersInv, RemindersTypeOK
      <3>2. handlers[r] = "none"
        BY DEF RemindersInv, FindNotification
      <3>3. Notifying(t)' = Notifying(t)
        BY <3>1, <3>2 DEF Notifying
      <3>4. Active(t)' = Active(t) \/ t = TargetOf[r]
        BY <3>1, <3>2 DEF Active
      <3>5. t = TargetOf[r] => notices[t].rows = 0
        BY <2>2, Numbers
      <3> QED
        BY <1>1, <3>3, <3>4, <3>5, HandlersStep
    <2> QED
      BY <1>1, <2>1, <2>2
  <1>4. \A q \in cron'.todo : handlers'[q] = "none"
    <2>1. cron'.todo = cron.todo \ {r}
      BY <1>1 DEF RemindersInv, RemindersTypeOK
    <2> QED
      BY <1>1, <2>1 DEF RemindersInv, RemindersTypeOK
  <1> QED
    BY <1>1, <1>2, <1>3, <1>4 DEF RemindersInv

LEMMA ResolveTemplateStep ==
  ASSUME RemindersInv, NEW r \in Reminders, ResolveTemplate(r)
  PROVE  RemindersInv'
  <1>1. UNCHANGED <<cron, mails, notices, lostHandlers>>
    BY DEF ResolveTemplate
  <1>2. PICK at \in {"enqueue", "none"} :
          handlers[r] = "resolve" /\ handlers' = [handlers EXCEPT ![r] = at]
    BY DEF ResolveTemplate
  <1>3. \A q \in Reminders : handlers'[q] = IF q = r THEN at ELSE handlers[q]
    BY <1>2 DEF RemindersInv, RemindersTypeOK
  <1>4. RemindersTypeOK'
    BY <1>1, <1>2 DEF RemindersInv, RemindersTypeOK, HandlerSteps
  <1>5. ASSUME NEW t \in Targets
        PROVE  TargetOK(t)'
    <2>1. Active(t)' \subseteq Active(t) /\ Notifying(t)' = Notifying(t)
      BY <1>2, <1>3 DEF Active, Notifying
    <2> QED
      BY <1>1, <2>1, HandlersStep
  <1>6. \A q \in cron'.todo : handlers'[q] = "none"
    BY <1>1, <1>2, <1>3 DEF RemindersInv, RemindersTypeOK
  <1> QED
    BY <1>1, <1>4, <1>5, <1>6 DEF RemindersInv

(* A mail more, and a notification more to come.                           *)
LEMMA EnqueueMailStep ==
  ASSUME RemindersInv, NEW r \in Reminders, EnqueueMail(r)
  PROVE  RemindersInv'
  <1>0. PICK n \in Nat : n = Len(mails)
    BY DEF RemindersInv, RemindersTypeOK
  <1> DEFINE mail == [target |-> TargetOf[r], at |-> "waiting", stalled |-> FALSE]
  <1>1. /\ UNCHANGED <<cron, notices, lostHandlers>> /\ mails' = Append(mails, mail)
        /\ handlers[r] = "enqueue" /\ handlers' = [handlers EXCEPT ![r] = "notify"]
    BY DEF EnqueueMail
  <1>2. mail \in MailType /\ mail.target = TargetOf[r] /\ TargetOf[r] \in Targets
    BY PlatformAssumption DEF MailType
  <1> HIDE DEF mail
  <1>3. /\ mails \in Seq(MailType) /\ mails' \in Seq(MailType) /\ Len(mails') = n + 1
        /\ DOMAIN mails = 1 .. n /\ DOMAIN mails' = 1 .. (n + 1) /\ mails'[n + 1] = mail
        /\ \A i \in 1 .. n : mails'[i] = mails[i]
    BY <1>0, <1>1, <1>2 DEF RemindersInv, RemindersTypeOK, MailType
  <1>4. \A q \in Reminders : handlers'[q] = IF q = r THEN "notify" ELSE handlers[q]
    BY <1>1 DEF RemindersInv, RemindersTypeOK
  <1>5. RemindersTypeOK'
    BY <1>1, <1>3 DEF RemindersInv, RemindersTypeOK, HandlerSteps, MailType
  <1>6. ASSUME NEW t \in Targets
        PROVE  TargetOK(t)'
    <2>1. Active(t)' = Active(t) /\ Due(t)' = Due(t)
      BY <1>1, <1>4 DEF Active, Due
    <2>2. CASE t = TargetOf[r]
      <3>1. MailsTo(t)' = MailsTo(t) \cup {n + 1} /\ n + 1 \notin MailsTo(t)
        BY <1>2, <1>3, <2>2 DEF MailsTo
      <3>2. Notifying(t)' = Notifying(t) \cup {r} /\ r \notin Notifying(t)
        BY <1>1, <1>4, <2>2 DEF Notifying
      <3>3. /\ Cardinality(MailsTo(t)') = Cardinality(MailsTo(t)) + 1
            /\ Cardinality(Notifying(t)') = Cardinality(Notifying(t)) + 1
        BY <3>1, <3>2, Numbers, FS_AddElement
      <3> QED
        BY <1>1, <2>1, <3>3, Numbers DEF TargetOK
    <2>3. CASE t # TargetOf[r]
      <3>1. MailsTo(t)' = MailsTo(t)
        BY <1>2, <1>3, <2>3 DEF MailsTo
      <3>2. Notifying(t)' = Notifying(t)
        BY <1>1, <1>4, <2>3 DEF Notifying
      <3> QED
        BY <1>1, <2>1, <3>1, <3>2, Numbers DEF TargetOK
    <2> QED
      BY <2>2, <2>3
  <1>7. \A q \in cron'.todo : handlers'[q] = "none"
    BY <1>1, <1>4 DEF RemindersInv, RemindersTypeOK
  <1> QED
    BY <1>5, <1>6, <1>7 DEF RemindersInv

(* The notification that was to come is there.                             *)
LEMMA NotifyStep ==
  ASSUME RemindersInv, NEW r \in Reminders, Notify(r)
  PROVE  RemindersInv'
  <1> DEFINE u == TargetOf[r]
             notice == [rows |-> notices[u].rows + 1, cleared |-> FALSE]
  <1>1. /\ UNCHANGED <<cron, mails, lostHandlers>> /\ notices' = [notices EXCEPT ![u] = notice]
        /\ handlers[r] = "notify" /\ handlers' = [handlers EXCEPT ![r] = "none"]
    BY DEF Notify
  <1>2. u \in Targets /\ notices[u].rows \in Nat
    BY PlatformAssumption, Numbers
  <1>3. notices' \in [Targets -> [rows : Nat, cleared : BOOLEAN]]
    BY <1>1, <1>2 DEF RemindersInv, RemindersTypeOK
  <1>4. \A t \in Targets : notices'[t].rows = IF t = u THEN notices[t].rows + 1 ELSE notices[t].rows
    BY <1>1, <1>2 DEF RemindersInv, RemindersTypeOK
  <1>5. \A q \in Reminders : handlers'[q] = IF q = r THEN "none" ELSE handlers[q]
    BY <1>1 DEF RemindersInv, RemindersTypeOK
  <1> HIDE DEF notice, u
  <1>6. RemindersTypeOK'
    BY <1>1, <1>3 DEF RemindersInv, RemindersTypeOK, HandlerSteps
  <1>7. ASSUME NEW t \in Targets
        PROVE  TargetOK(t)'
    <2>1. Due(t)' = Due(t) /\ MailsTo(t)' = MailsTo(t)
      BY <1>1 DEF Due, MailsTo
    <2>2. CASE t = u
      <3>1. /\ Active(t)' = Active(t) \ {r} /\ r \in Active(t)
            /\ Notifying(t)' = Notifying(t) \ {r} /\ r \in Notifying(t)
        BY <1>1, <1>5, <2>2 DEF Active, Notifying, u
      <3>2. /\ Cardinality(Active(t)') = Cardinality(Active(t)) - 1
            /\ Cardinality(Notifying(t)') = Cardinality(Notifying(t)) - 1
        BY <3>1, Numbers, FS_RemoveElement
      <3> QED
        BY <1>1, <1>4, <2>1, <2>2, <3>2, Numbers DEF TargetOK
    <2>3. CASE t # u
      <3>1. Active(t)' = Active(t) /\ Notifying(t)' = Notifying(t)
        BY <1>1, <1>5, <2>3 DEF Active, Notifying, u
      <3> QED
        BY <1>1, <1>4, <2>1, <2>3, <3>1, Numbers DEF TargetOK
    <2> QED
      BY <2>2, <2>3
  <1>8. \A q \in cron'.todo : handlers'[q] = "none"
    BY <1>1, <1>5 DEF RemindersInv, RemindersTypeOK
  <1> QED
    BY <1>1, <1>6, <1>7, <1>8 DEF RemindersInv

LEMMA ClearMineStep ==
  ASSUME RemindersInv, NEW t \in Targets, ClearMine(t)
  PROVE  RemindersInv'
  <1>1. /\ UNCHANGED <<cron, handlers, mails, lostHandlers>>
        /\ notices' = [notices EXCEPT ![t].cleared = TRUE]
    BY DEF ClearMine
  <1>2. /\ notices' \in [Targets -> [rows : Nat, cleared : BOOLEAN]]
        /\ \A u \in Targets : notices'[u].rows = notices[u].rows
    BY <1>1 DEF RemindersInv, RemindersTypeOK
  <1>3. \A u \in Targets : TargetOK(u)'
    BY <1>1, <1>2 DEF RemindersInv, TargetOK, Active, Notifying, Due, MailsTo
  <1> QED
    BY <1>1, <1>2, <1>3 DEF RemindersInv, RemindersTypeOK

(* The notifications that will not come are counted.                       *)
LEMMA AbortRemindersStep ==
  ASSUME RemindersInv, AbortReminders
  PROVE  RemindersInv'
  <1> DEFINE ended == {r \in Reminders : handlers[r] = "notify"}
  <1>1. /\ UNCHANGED <<mails, notices>> /\ cron' = NoRun
        /\ handlers' = [r \in Reminders |-> "none"]
        /\ lostHandlers' = lostHandlers + Cardinality(ended)
    BY DEF AbortReminders, Lost
  <1>2. lostHandlers \in Nat
    BY DEF RemindersInv, RemindersTypeOK
  <1>3. IsFiniteSet(ended) /\ Cardinality(ended) \in Nat
    BY PlatformAssumption, FS_Subset, FS_CardinalityType
  <1>4. \A t \in Targets : Cardinality(Notifying(t)) <= Cardinality(ended)
    <2>1. \A t \in Targets : Notifying(t) \in SUBSET ended
      BY DEF Notifying
    <2> QED
      BY <1>3, <2>1, FS_Subset
  <1> HIDE DEF ended
  <1>5. RemindersTypeOK'
    BY <1>1, <1>2, <1>3 DEF RemindersInv, RemindersTypeOK, NoRun, HandlerSteps
  <1>6. ASSUME NEW t \in Targets
        PROVE  TargetOK(t)'
    <2>1. Due(t)' = Due(t) /\ MailsTo(t)' = MailsTo(t) /\ Active(t)' = {} /\ Notifying(t)' = {}
      BY <1>1 DEF Due, MailsTo, Active, Notifying
    <2>2. Cardinality(Active(t)') = 0 /\ Cardinality(Notifying(t)') = 0
      BY <2>1, FS_EmptySet
    <2> QED
      BY <1>1, <1>2, <1>3, <1>4, <2>1, <2>2, Numbers DEF TargetOK
  <1>7. cron'.todo = {}
    BY <1>1 DEF NoRun
  <1> QED
    BY <1>1, <1>5, <1>6, <1>7 DEF RemindersInv

(* One handler ends, and its notification, if it was to come, is counted.  *)
LEMMA FailHandlerStep ==
  ASSUME RemindersInv, NEW r \in Reminders, FailHandler(r)
  PROVE  RemindersInv'
  <1> DEFINE ended == {q \in {r} : handlers[q] = "notify"}
  <1>1. /\ UNCHANGED <<cron, mails, notices>> /\ handlers[r] # "none"
        /\ handlers' = [handlers EXCEPT ![r] = "none"]
        /\ lostHandlers' = lostHandlers + Cardinality(ended)
    BY DEF FailHandler, Lost
  <1>2. Cardinality(ended) = IF handlers[r] = "notify" THEN 1 ELSE 0
    <2>1. CASE handlers[r] = "notify"
      <3>1. ended = {r}
        BY <2>1
      <3> QED
        BY <2>1, <3>1, FS_Singleton
    <2>2. CASE handlers[r] # "notify"
      <3>1. ended = {}
        BY <2>2
      <3> QED
        BY <2>2, <3>1, FS_EmptySet
    <2> QED
      BY <2>1, <2>2
  <1> HIDE DEF ended
  <1>3. \A q \in Reminders : handlers'[q] = IF q = r THEN "none" ELSE handlers[q]
    BY <1>1 DEF RemindersInv, RemindersTypeOK
  <1>4. lostHandlers \in Nat /\ lostHandlers' \in Nat
    BY <1>1, <1>2 DEF RemindersInv, RemindersTypeOK
  <1>5. RemindersTypeOK'
    BY <1>1, <1>4 DEF RemindersInv, RemindersTypeOK, HandlerSteps
  <1>6. ASSUME NEW t \in Targets
        PROVE  TargetOK(t)'
    <2>1. Due(t)' = Due(t) /\ MailsTo(t)' = MailsTo(t) /\ Active(t)' \subseteq Active(t)
      BY <1>1, <1>3 DEF Due, MailsTo, Active
    <2>2. Cardinality(Active(t)') <= Cardinality(Active(t)) /\ Cardinality(Active(t)') \in Nat
      BY <2>1, Numbers, FS_Subset, FS_CardinalityType
    <2>3. CASE r \in Notifying(t)
      <3>1. Notifying(t)' = Notifying(t) \ {r} /\ handlers[r] = "notify"
        BY <1>3, <2>3 DEF Notifying
      <3>2. Cardinality(Notifying(t)') = Cardinality(Notifying(t)) - 1
        BY <2>3, <3>1, Numbers, FS_RemoveElement
      <3> QED
        BY <1>1, <1>2, <2>1, <2>2, <3>1, <3>2, Numbers DEF TargetOK
    <2>4. CASE r \notin Notifying(t)
      <3>1. Notifying(t)' = Notifying(t)
        BY <1>3, <2>4 DEF Notifying
      <3>2. lostHandlers <= lostHandlers'
        BY <1>1, <1>2, <1>4
      <3> QED
        BY <1>1, <1>4, <2>1, <2>2, <3>1, <3>2, Numbers DEF TargetOK
    <2> QED
      BY <2>3, <2>4
  <1>7. \A q \in cron'.todo : handlers'[q] = "none"
    BY <1>1, <1>3 DEF RemindersInv, RemindersTypeOK
  <1> QED
    BY <1>5, <1>6, <1>7 DEF RemindersInv

(* A mail that is delivered stays the mail to its target.                  *)
LEMMA MailStep ==
  ASSUME RemindersInv, NEW i \in DOMAIN mails, ContinueMail(i)
  PROVE  RemindersInv'
  <1>1. UNCHANGED <<cron, handlers, notices, lostHandlers>>
    BY DEF ContinueMail, TakeMail, SendMail, RedeliverMail, MailGoes
  <1>2. mails \in Seq(MailType) /\ mails[i] \in MailType
    <2>1. mails \in Seq(MailType)
      BY DEF RemindersInv, RemindersTypeOK, MailType
    <2> QED
      BY <2>1
  <1>3. PICK mail \in MailType :
           mails' = [mails EXCEPT ![i] = mail] /\ mail.target = mails[i].target
    <2>1. CASE TakeMail(i)
      <3> DEFINE mail == [mails[i] EXCEPT !.at = "active"]
      <3>1. mails' = [mails EXCEPT ![i] = mail]
        BY <2>1 DEF TakeMail
      <3>2. mail \in MailType /\ mail.target = mails[i].target
        BY <1>2 DEF MailType
      <3> QED
        BY <3>1, <3>2
    <2>2. CASE SendMail(i)
      <3> DEFINE mail == [mails[i] EXCEPT !.at = "finished"]
      <3>1. mails' = [mails EXCEPT ![i] = mail]
        BY <2>2 DEF SendMail, MailGoes
      <3>2. mail \in MailType /\ mail.target = mails[i].target
        BY <1>2 DEF MailType
      <3> QED
        BY <3>1, <3>2
    <2>3. CASE RedeliverMail(i)
      <3> DEFINE mail == [mails[i] EXCEPT !.at = "waiting", !.stalled = TRUE]
      <3>1. mails' = [mails EXCEPT ![i] = mail]
        BY <2>3 DEF RedeliverMail, MailGoes
      <3>2. mail \in MailType /\ mail.target = mails[i].target
        BY <1>2 DEF MailType
      <3> QED
        BY <3>1, <3>2
    <2> QED
      BY <2>1, <2>2, <2>3 DEF ContinueMail
  <1>4. /\ mails' \in Seq(MailType) /\ DOMAIN mails' = DOMAIN mails
        /\ \A j \in DOMAIN mails : mails'[j] = IF j = i THEN mail ELSE mails[j]
    BY <1>2, <1>3
  <1>5. \A t \in Targets : MailsTo(t)' = MailsTo(t)
    BY <1>3, <1>4 DEF MailsTo
  <1>6. \A t \in Targets : TargetOK(t)'
    BY <1>1, <1>5 DEF RemindersInv, TargetOK, Active, Notifying, Due
  <1>7. RemindersTypeOK'
    BY <1>1, <1>4 DEF RemindersInv, RemindersTypeOK, MailType
  <1> QED
    BY <1>1, <1>6, <1>7 DEF RemindersInv

LEMMA RemindersStep == RemindersInv /\ [Next]_vars => RemindersInv'
  <1> SUFFICES ASSUME RemindersInv, [Next]_vars
               PROVE  RemindersInv'
    OBVIOUS
  <1>1. CASE RemindersNext
    <2>1. CASE EndCron \/ FailCron
      <3>1. UNCHANGED <<handlers, mails, notices, lostHandlers>> /\ cron' = NoRun
        BY <2>1 DEF EndCron, FailCron
      <3>2. \A t \in Targets : TargetOK(t)'
        BY <3>1 DEF RemindersInv, TargetOK, Active, Notifying, Due, MailsTo
      <3> QED
        BY <3>1, <3>2 DEF RemindersInv, RemindersTypeOK, NoRun
    <2> QED
      BY <1>1, <2>1, StartCronStep, FindNotificationStep, ResolveTemplateStep, EnqueueMailStep,
         NotifyStep, ClearMineStep, FailHandlerStep, AbortRemindersStep, MailStep
         DEF RemindersNext, ContinueCron, ContinueHandler
  <1>2. CASE UNCHANGED reminderVars
    <2>1. UNCHANGED <<cron, handlers, mails, notices, lostHandlers>>
      BY <1>2 DEF reminderVars
    <2>2. \A t \in Targets : TargetOK(t)'
      BY <2>1 DEF RemindersInv, TargetOK, Active, Notifying, Due, MailsTo
    <2> QED
      BY <2>1, <2>2 DEF RemindersInv, RemindersTypeOK
  <1> QED
    BY <1>1, <1>2, StepsOfReminders

LEMMA RemindersInitial == Init => RemindersInv
  <1> SUFFICES ASSUME Init PROVE RemindersInv
    OBVIOUS
  <1> USE DEF Init, RemindersInit
  <1>1. RemindersTypeOK
    BY DEF RemindersTypeOK, NoRun, HandlerSteps
  <1>2. ASSUME NEW t \in Targets
        PROVE  TargetOK(t)
    <2>1. Active(t) = {} /\ Notifying(t) = {} /\ MailsTo(t) = {}
      BY DEF Active, Notifying, MailsTo
    <2>2. Cardinality({}) = 0
      BY FS_EmptySet
    <2>3. Cardinality(Due(t)) \in Nat
      BY RemindersFinite DEF Due
    <2> QED
      BY <2>1, <2>2, <2>3 DEF TargetOK
  <1>3. cron.todo = {} /\ DOMAIN mails = {}
    BY DEF NoRun
  <1> QED
    BY <1>1, <1>2, <1>3 DEF RemindersInv

LEMMA RemindersInvariance == Spec => []RemindersInv
  BY RemindersInitial, RemindersStep, PTL DEF Spec

(* Nobody is reminded again and again.                                     *)
THEOREM RemindersAreBounded == Spec => []RemindersBounded
  <1>1. RemindersInv => RemindersBounded
    <2> SUFFICES ASSUME RemindersInv, NEW t \in Targets
                 PROVE  /\ Cardinality(MailsTo(t)) <= Cardinality(Due(t)) + lostHandlers
                        /\ notices[t].rows <= Cardinality(MailsTo(t))
      BY DEF RemindersBounded
    <2>1. Cardinality(Notifying(t)) <= Cardinality(Active(t))
      BY Numbers, FS_Subset
    <2> QED
      BY <2>1, Numbers DEF TargetOK
  <1> QED
    BY <1>1, RemindersInvariance, PTL

-----------------------------------------------------------------------------
(* Tracks.                                                                 *)

OrderingType == [at : {"idle", "create", "find", "write"}, place : Nat,
                 order : Orders, left : SUBSET (Nat \ {0})]

LEMMA IdleOrderingType == IdleOrdering \in OrderingType
  <1>1. <<>> \in Orders
    <2>1. <<>> \in [1 .. 0 -> 1 .. MaxTracks] /\ 0 \in 0 .. MaxListed
      BY PlatformAssumption
    <2> QED
      BY <2>1 DEF Orders
  <1> QED
    BY <1>1 DEF IdleOrdering, OrderingType

(* An order lists its tracks by number.                                    *)
LEMMA OrderDomain ==
  ASSUME NEW order \in Orders
  PROVE  DOMAIN order \in SUBSET (Nat \ {0}) /\ \A i \in DOMAIN order : order[i] \in Nat
  BY PlatformAssumption DEF Orders

(* The page's lists and any others are of tracks that there are.           *)
LEMMA ListsAreOrders ==
  ASSUME TracksTypeOK
  PROVE  /\ \A n \in 1 .. Len(places) : Permutations(n) \subseteq Orders
         /\ Lists \subseteq Orders
  <1>1. Len(places) \in Nat /\ Len(places) <= MaxTracks /\ MaxTracks \in Nat
        /\ MaxListed \in Nat /\ MaxTracks <= MaxListed
    BY PlatformAssumption DEF TracksTypeOK
  <1>2. ASSUME NEW n \in 1 .. Len(places), NEW order \in Permutations(n)
        PROVE  order \in Orders
    <2>1. n \in 0 .. MaxListed /\ order \in [1 .. n -> 1 .. n]
      BY <1>1 DEF Permutations
    <2>2. order \in [1 .. n -> 1 .. MaxTracks]
      BY <1>1, <2>1
    <2> QED
      BY <2>1, <2>2 DEF Orders
  <1>3. ASSUME NEW n \in 1 .. MaxListed, NEW order \in [1 .. n -> 1 .. Len(places)]
        PROVE  order \in Orders
    <2>1. n \in 0 .. MaxListed /\ order \in [1 .. n -> 1 .. MaxTracks]
      BY <1>1
    <2> QED
      BY <2>1 DEF Orders
  <1> QED
    BY <1>2, <1>3 DEF Lists

LEMMA BeginTracksType ==
  ASSUME TracksTypeOK, NEW p \in Requests, BeginTracks(p)
  PROVE  TracksTypeOK'
  <1>1. CASE CountTracks(p)
    <2> DEFINE q == [IdleOrdering EXCEPT !.at = "create", !.place = Len(places)]
    <2>1. q \in OrderingType
      <3>1. Len(places) \in Nat
        BY DEF TracksTypeOK
      <3> QED
        BY <3>1, IdleOrderingType DEF OrderingType
    <2>2. ordering' = [ordering EXCEPT ![p] = q] /\ UNCHANGED places
      BY <1>1 DEF CountTracks, BeginOrdering
    <2> HIDE DEF q
    <2> QED
      BY <2>1, <2>2 DEF TracksTypeOK, OrderingType
  <1>2. ASSUME NEW order \in Orders, ReorderTracks(p, order)
        PROVE  TracksTypeOK'
    <2> DEFINE q == [IdleOrdering EXCEPT !.at = "find", !.order = order]
    <2>1. q \in OrderingType
      BY IdleOrderingType DEF OrderingType
    <2>2. ordering' = [ordering EXCEPT ![p] = q] /\ UNCHANGED places
      BY <1>2 DEF ReorderTracks, BeginOrdering
    <2> HIDE DEF q
    <2> QED
      BY <2>1, <2>2 DEF TracksTypeOK, OrderingType
  <1> QED
    BY <1>1, <1>2, ListsAreOrders DEF BeginTracks

LEMMA ExceptKeepsSeq ==
  ASSUME NEW s \in Seq(Nat), NEW t, NEW n \in Nat
  PROVE  [s EXCEPT ![t] = n] \in Seq(Nat) /\ Len([s EXCEPT ![t] = n]) = Len(s)
  <1>1. CASE t \in DOMAIN s
    BY <1>1
  <1>2. CASE t \notin DOMAIN s
    <2>1. [s EXCEPT ![t] = n] = s
      BY <1>2
    <2> QED
      BY <2>1
  <1> QED
    BY <1>1, <1>2

LEMMA ContinueOrderingType ==
  ASSUME TracksTypeOK, NEW p \in Requests,
         \/ ContinueOrdering(p) \/ AbortOrdering(p)
         \/ \E i \in ordering[p].left : FailPlace(p, i)
  PROVE  TracksTypeOK'
  <1> DEFINE q == ordering[p]
  <1>0. /\ q \in OrderingType /\ places \in Seq(Nat) /\ Len(places) <= MaxTracks
        /\ ordering \in [Requests -> OrderingType]
    BY DEF TracksTypeOK, OrderingType
  <1>1. OrderingEnds(p) => ordering' \in [Requests -> OrderingType]
    BY <1>0, IdleOrderingType DEF OrderingEnds
  <1>2. CASE CreateTrack(p)
    <2>1. PICK n \in Nat :
             \/ UNCHANGED places
             \/ Len(places) < MaxTracks /\ places' = Append(places, n)
      BY <1>0, <1>2 DEF CreateTrack, OrderingType
    <2>2. CASE UNCHANGED places
      BY <1>0, <1>1, <1>2, <2>2 DEF CreateTrack, TracksTypeOK, OrderingType
    <2>3. CASE Len(places) < MaxTracks /\ places' = Append(places, n)
      <3>1. places' \in Seq(Nat) /\ Len(places') = Len(places) + 1 /\ Len(places) \in Nat
        BY <1>0, <2>3
      <3>2. Len(places') <= MaxTracks
        BY <2>3, <3>1, PlatformAssumption
      <3> QED
        BY <1>1, <1>2, <3>1, <3>2 DEF CreateTrack, TracksTypeOK, OrderingType
    <2> QED
      BY <2>1, <2>2, <2>3
  <1>3. CASE FindTracks(p)
    <2>1. UNCHANGED places
      BY <1>3 DEF FindTracks
    <2>2. CASE OrderingEnds(p)
      BY <1>0, <1>1, <2>1, <2>2 DEF TracksTypeOK, OrderingType
    <2>3. CASE ordering' = [ordering EXCEPT ![p].at = "write", ![p].left = DOMAIN q.order]
      <3> DEFINE new == [q EXCEPT !.at = "write", !.left = DOMAIN q.order]
      <3>1. new \in OrderingType
        BY <1>0, OrderDomain DEF OrderingType
      <3>2. ordering' = [ordering EXCEPT ![p] = new]
        BY <2>3
      <3> HIDE DEF new
      <3> QED
        BY <1>0, <2>1, <3>1, <3>2 DEF TracksTypeOK, OrderingType
    <2> QED
      BY <1>3, <2>2, <2>3 DEF FindTracks
  <1>4. ASSUME NEW i \in q.left, WritePlace(p, i) \/ FailPlace(p, i)
        PROVE  TracksTypeOK'
    <2>1. i \in Nat \ {0} /\ i - 1 \in Nat
      BY <1>0 DEF OrderingType
    <2>2. places' \in Seq(Nat) /\ Len(places') <= MaxTracks
      <3>1. CASE places' = [places EXCEPT ![q.order[i]] = i - 1]
        BY <1>0, <2>1, <3>1, ExceptKeepsSeq
      <3>2. CASE UNCHANGED places
        BY <1>0, <3>2
      <3> QED
        BY <1>4, <3>1, <3>2 DEF WritePlace, FailPlace
    <2>3. CASE OrderingEnds(p)
      BY <1>1, <2>2, <2>3 DEF TracksTypeOK, OrderingType
    <2>4. CASE ordering' = [ordering EXCEPT ![p].left = @ \ {i}]
      <3> DEFINE new == [q EXCEPT !.left = q.left \ {i}]
      <3>1. new \in OrderingType
        BY <1>0 DEF OrderingType
      <3>2. ordering' = [ordering EXCEPT ![p] = new]
        BY <2>4
      <3> HIDE DEF new
      <3> QED
        BY <1>0, <2>2, <3>1, <3>2 DEF TracksTypeOK, OrderingType
    <2> QED
      BY <1>4, <2>3, <2>4 DEF WritePlace, FailPlace, Settles
  <1>5. CASE AbortOrdering(p)
    BY <1>0, <1>1, <1>5 DEF AbortOrdering, TracksTypeOK, OrderingType
  <1> QED
    BY <1>2, <1>3, <1>4, <1>5 DEF ContinueOrdering

LEMMA TracksStep == TracksTypeOK /\ [Next]_vars => TracksTypeOK'
  <1> SUFFICES ASSUME TracksTypeOK, [Next]_vars
               PROVE  TracksTypeOK'
    OBVIOUS
  <1>1. CASE TracksNext
    BY <1>1, BeginTracksType, ContinueOrderingType DEF TracksNext
  <1>2. CASE UNCHANGED trackVars
    BY <1>2 DEF trackVars, TracksTypeOK
  <1> QED
    BY <1>1, <1>2, StepsOfTracks

LEMMA TracksInitial == Init => TracksTypeOK
  BY IdleOrderingType, PlatformAssumption DEF Init, TracksInit, TracksTypeOK, OrderingType

-----------------------------------------------------------------------------
(* The places of tracks.  A track at a place is settled when no request is *)
(* about to give it another, and a request is coming to a place when it is *)
(* about to put a track there: both together are no more than the requests *)
(* that are served.  Where lists repeat a track, this is so only for those *)
(* that reorder, and as long as the list is too short for the place: then  *)
(* as many again may create a track there.                                 *)

Doomed(t) ==
    \E p \in Requests : /\ ordering[p].at = "write"
                        /\ \E i \in ordering[p].left : ordering[p].order[i] = t

Settled(k) == {t \in DOMAIN places : places[t] = k /\ ~Doomed(t)}

WritesTo(q, k) == q.at = "write" /\ k + 1 \in q.left
ComesTo(q, k) == (q.at = "create" /\ q.place = k) \/ WritesTo(q, k)

Writing(k) == {p \in Requests : WritesTo(ordering[p], k)}
Coming(k) == {p \in Requests : ComesTo(ordering[p], k)}

Served == Cardinality(scenario.requests)
Bound == IF Called("repeatTracks") THEN 2 * Served ELSE Served

PlaceShared(k) ==
    /\ Cardinality(Settled(k)) + Cardinality(Coming(k)) <= Bound
    /\ Len(places) <= k => Cardinality(Settled(k)) + Cardinality(Writing(k)) <= Served

(* The tracks that a request knows of stay.                                *)
OrderOK(q) ==
    /\ q.at = "create" => q.place <= Len(places)
    /\ q.at \in {"find", "write"} =>
           \A i \in DOMAIN q.order : /\ q.order[i] \in 1 .. Len(places)
                                     /\ ~Called("repeatTracks") => i \in 1 .. Len(places)
    /\ q.at = "write" => q.left \subseteq DOMAIN q.order

AreServed ==
    /\ scenario \in Scenarios
    /\ \A p \in Requests : ordering[p] = IdleOrdering \/ p \in scenario.requests

PlacesInv ==
    /\ AreServed
    /\ ~Called("repeatTracks") => \A t \in DOMAIN places : places[t] < Len(places)
    /\ \A p \in Requests : OrderOK(ordering[p])
    /\ ~Called("abort") => \A k \in Nat : PlaceShared(k)

LEMMA IdleIsOK == OrderOK(IdleOrdering) /\ OrderOK(IdleOrdering)' /\ IdleOrdering.at = "idle"
  BY DEF IdleOrdering, OrderOK

LEMMA TracksFinite ==
  ASSUME TracksTypeOK, AreServed, NEW k
  PROVE  /\ IsFiniteSet(Settled(k)) /\ Cardinality(Settled(k)) \in Nat
         /\ IsFiniteSet(Coming(k)) /\ Cardinality(Coming(k)) \in Nat
         /\ IsFiniteSet(Writing(k)) /\ Cardinality(Writing(k)) \in Nat
         /\ Coming(k) \subseteq scenario.requests /\ Writing(k) \subseteq Coming(k)
         /\ IsFiniteSet(scenario.requests) /\ Served \in Nat /\ Bound \in Nat /\ Served <= Bound
  <1>1. Len(places) \in Nat /\ Settled(k) \subseteq 1 .. Len(places)
    BY DEF TracksTypeOK, Settled
  <1>2. IsFiniteSet(1 .. Len(places))
    BY <1>1, FS_Interval
  <1>3. Coming(k) \subseteq scenario.requests /\ Writing(k) \subseteq Coming(k)
    BY IdleIsOK DEF Coming, Writing, ComesTo, WritesTo, AreServed
  <1>4. scenario.requests \in SUBSET Requests
    BY PlatformAssumption DEF AreServed
  <1>5. IsFiniteSet(scenario.requests) /\ Served \in Nat
    BY <1>4, PlatformAssumption, FS_Subset, FS_CardinalityType DEF Served
  <1>6. IsFiniteSet(Coming(k)) /\ IsFiniteSet(Writing(k)) /\ IsFiniteSet(Settled(k))
    BY <1>1, <1>2, <1>3, <1>5, FS_Subset
  <1>7. Bound \in Nat /\ Served <= Bound
    BY <1>5 DEF Bound
  <1> QED
    BY <1>3, <1>5, <1>6, <1>7, FS_CardinalityType

(* Counting two sets together.                                             *)
LEMMA FewerOfBoth ==
  ASSUME NEW S, NEW C, IsFiniteSet(S), IsFiniteSet(C), NEW T \in SUBSET S, NEW E \in SUBSET C,
         NEW n \in Nat, Cardinality(S) + Cardinality(C) <= n
  PROVE  Cardinality(T) + Cardinality(E) <= n
  <1>1. /\ IsFiniteSet(T) /\ Cardinality(T) <= Cardinality(S)
        /\ IsFiniteSet(E) /\ Cardinality(E) <= Cardinality(C)
    BY FS_Subset
  <1>2. /\ Cardinality(S) \in Nat /\ Cardinality(C) \in Nat
        /\ Cardinality(T) \in Nat /\ Cardinality(E) \in Nat
    BY <1>1, FS_CardinalityType
  <1> QED
    BY <1>1, <1>2

LEMMA OneToTheOther ==
  ASSUME NEW S, NEW C, IsFiniteSet(S), IsFiniteSet(C), NEW t, NEW p \in C,
         NEW T \in SUBSET (S \cup {t}), NEW E \in SUBSET (C \ {p}),
         NEW n \in Nat, Cardinality(S) + Cardinality(C) <= n
  PROVE  Cardinality(T) + Cardinality(E) <= n
  <1>1. /\ IsFiniteSet(S \cup {t}) /\ IsFiniteSet(C \ {p})
        /\ Cardinality(C \ {p}) = Cardinality(C) - 1
        /\ Cardinality(S \cup {t}) = IF t \in S THEN Cardinality(S) ELSE Cardinality(S) + 1
    BY FS_AddElement, FS_RemoveElement
  <1>2. /\ Cardinality(S) \in Nat /\ Cardinality(C) \in Nat
        /\ Cardinality(S \cup {t}) \in Nat /\ Cardinality(C \ {p}) \in Nat
    BY <1>1, FS_CardinalityType
  <1>3. Cardinality(S \cup {t}) + Cardinality(C \ {p}) <= n
    BY <1>1, <1>2
  <1> QED
    BY <1>1, <1>3, FewerOfBoth

LEMMA NobodyWasThere ==
  ASSUME TracksTypeOK', AreServed', NEW k, Settled(k)' = {}
  PROVE  PlaceShared(k)'
  <1>1. Coming(k)' \subseteq scenario'.requests /\ Writing(k)' \subseteq scenario'.requests
    BY IdleIsOK DEF Coming, Writing, ComesTo, WritesTo, AreServed
  <1>2. scenario'.requests \in SUBSET Requests
    BY PlatformAssumption DEF AreServed
  <1>3. IsFiniteSet(scenario'.requests) /\ Served' \in Nat
    BY <1>2, PlatformAssumption, FS_Subset, FS_CardinalityType DEF Served
  <1>4. /\ Cardinality(Coming(k)') <= Served' /\ Cardinality(Coming(k)') \in Nat
        /\ Cardinality(Writing(k)') <= Served' /\ Cardinality(Writing(k)') \in Nat
    BY <1>1, <1>3, FS_Subset, FS_CardinalityType DEF Served
  <1>5. Cardinality(Settled(k)') = 0
    BY FS_EmptySet
  <1>6. Bound' \in Nat /\ Served' <= Bound'
    <2>1. Bound' = Served' \/ Bound' = 2 * Served'
      BY Zenon DEF Bound
    <2>2. PICK n \in Nat : n = Served'
      BY <1>3
    <2> QED
      BY <2>1, <2>2
  <1> QED
    BY <1>3, <1>4, <1>5, <1>6 DEF PlaceShared

LEMMA NobodyComes ==
  ASSUME TracksTypeOK, TracksTypeOK', AreServed, UNCHANGED scenario, NEW k \in Nat, PlaceShared(k),
         Settled(k)' \subseteq Settled(k), Coming(k)' \subseteq Coming(k),
         Writing(k)' \subseteq Writing(k), Len(places) <= Len(places')
  PROVE  PlaceShared(k)'
  <1>1. UNCHANGED <<Bound, Served>>
    BY DEF Bound, Served, Called
  <1>2. Cardinality(Settled(k)') + Cardinality(Coming(k)') <= Bound
    BY TracksFinite, FewerOfBoth DEF PlaceShared
  <1>3. ASSUME Len(places') <= k
        PROVE  Cardinality(Settled(k)') + Cardinality(Writing(k)') <= Served
    <2>1. Cardinality(Settled(k)) + Cardinality(Writing(k)) <= Served
      BY <1>3 DEF PlaceShared, TracksTypeOK
    <2> QED
      BY <2>1, TracksFinite, FewerOfBoth
  <1> QED
    BY <1>1, <1>2, <1>3 DEF PlaceShared

(* Who was coming has come.                                                *)
LEMMA OneHasCome ==
  ASSUME TracksTypeOK, TracksTypeOK', AreServed, UNCHANGED scenario, NEW k \in Nat, PlaceShared(k),
         NEW t, NEW p \in Coming(k), Settled(k)' \subseteq Settled(k) \cup {t},
         Coming(k)' \subseteq Coming(k) \ {p}, Len(places) <= Len(places'),
         Len(places') <= k => p \in Writing(k) /\ Writing(k)' \subseteq Writing(k) \ {p}
  PROVE  PlaceShared(k)'
  <1>1. UNCHANGED <<Bound, Served>>
    BY DEF Bound, Served, Called
  <1>2. Cardinality(Settled(k)') + Cardinality(Coming(k)') <= Bound
    BY TracksFinite, OneToTheOther DEF PlaceShared
  <1>3. ASSUME Len(places') <= k
        PROVE  Cardinality(Settled(k)') + Cardinality(Writing(k)') <= Served
    <2>1. Cardinality(Settled(k)) + Cardinality(Writing(k)) <= Served
      BY <1>3 DEF PlaceShared, TracksTypeOK
    <2> QED
      BY <1>3, <2>1, TracksFinite, OneToTheOther
  <1> QED
    BY <1>1, <1>2, <1>3 DEF PlaceShared

LEMMA OrderStaysOK ==
  ASSUME TracksTypeOK, TracksTypeOK', UNCHANGED scenario, NEW q \in OrderingType, OrderOK(q),
         Len(places) <= Len(places')
  PROVE  OrderOK(q)'
  <1>1. Len(places) \in Nat /\ Len(places') \in Nat
    BY DEF TracksTypeOK
  <1>2. \A i : i \in 1 .. Len(places) => i \in 1 .. Len(places')
    BY <1>1
  <1>3. q.place \in Nat
    BY DEF OrderingType
  <1>4. q.at = "create" => q.place <= Len(places')
    BY <1>1, <1>3 DEF OrderOK
  <1>5. q.at \in {"find", "write"} =>
            \A i \in DOMAIN q.order : /\ q.order[i] \in 1 .. Len(places')
                                      /\ ~Called("repeatTracks")' => i \in 1 .. Len(places')
    BY <1>2 DEF OrderOK, Called
  <1>6. q.at = "write" => q.left \subseteq DOMAIN q.order
    BY DEF OrderOK
  <1> QED
    BY <1>4, <1>5, <1>6 DEF OrderOK

(* One request goes on; what the others know stays true.                   *)
LEMMA OneOrder ==
  ASSUME TracksTypeOK, TracksTypeOK', PlacesInv, UNCHANGED scenario, Len(places) <= Len(places'),
         NEW p \in Requests, p \in scenario.requests,
         NEW o, ordering' = [ordering EXCEPT ![p] = o], OrderOK(o)'
  PROVE  /\ \A r \in Requests : ordering'[r] = IF r = p THEN o ELSE ordering[r]
         /\ \A r \in Requests : OrderOK(ordering[r])'
         /\ AreServed'
  <1>1. \A r \in Requests : ordering'[r] = IF r = p THEN o ELSE ordering[r]
    BY DEF TracksTypeOK
  <1>2. ASSUME NEW r \in Requests
        PROVE  OrderOK(ordering[r])'
    <2>1. PICK q : q = ordering'[r]
      OBVIOUS
    <2>2. CASE r = p
      BY <1>1, <2>2
    <2>3. CASE r # p
      <3>1. PICK b \in OrderingType : b = ordering[r] /\ OrderOK(b)
        BY DEF TracksTypeOK, PlacesInv, OrderingType
      <3> QED
        BY <1>1, <2>3, <3>1, OrderStaysOK
    <2> QED
      BY <2>2, <2>3
  <1>3. AreServed'
    BY <1>1 DEF PlacesInv, AreServed
  <1> QED
    BY <1>1, <1>2, <1>3

(* Whoever is at work is served.                                           *)
LEMMA AtWorkIsServed ==
  ASSUME PlacesInv, NEW p \in Requests, ordering[p].at # "idle"
  PROVE  p \in scenario.requests
  BY IdleIsOK DEF PlacesInv, AreServed

LEMMA CountKeepsPlaces ==
  ASSUME TracksTypeOK, TracksTypeOK', PlacesInv, UNCHANGED scenario,
         NEW p \in Requests, CountTracks(p)
  PROVE  PlacesInv'
  <1>1. PICK n \in Nat : n = Len(places)
    BY DEF TracksTypeOK
  <1> DEFINE o == [IdleOrdering EXCEPT !.at = "create", !.place = n]
  <1>2. /\ UNCHANGED places /\ ordering' = [ordering EXCEPT ![p] = o] /\ ordering[p] = IdleOrdering
        /\ p \in scenario.requests
    BY <1>1 DEF CountTracks, BeginOrdering
  <1>3. o.at = "create" /\ o.place = n
    BY DEF IdleOrdering
  <1> HIDE DEF o
  <1>4. OrderOK(o)'
    BY <1>2, <1>1, <1>3 DEF OrderOK
  <1>5. Len(places) <= Len(places')
    BY <1>2, <1>1
  <1>6. ordering' = [ordering EXCEPT ![p] = o]
    BY <1>2
  <1>7. /\ \A r \in Requests : ordering'[r] = IF r = p THEN o ELSE ordering[r]
        /\ \A r \in Requests : OrderOK(ordering[r])'
        /\ AreServed /\ AreServed'
    BY <1>2, <1>5, <1>6, <1>4, OneOrder DEF PlacesInv
  <1>8. ASSUME ~Called("abort")', NEW k \in Nat
        PROVE  PlaceShared(k)'
    <2>1. PlaceShared(k)
      BY <1>8 DEF PlacesInv, Called
    <2>2. \A t : Doomed(t) <=> Doomed(t)'
      BY <1>2, <1>3, <1>7, IdleIsOK DEF Doomed
    <2>3. Settled(k)' = Settled(k)
      BY <1>2, <2>2 DEF Settled
    <2>4. Writing(k)' = Writing(k)
      BY <1>2, <1>3, <1>7, IdleIsOK DEF Writing, WritesTo
    <2>5. CASE k = n /\ ~Called("repeatTracks")
      <3>1. Settled(k) = {}
        BY <1>1, <2>5 DEF PlacesInv, Settled, TracksTypeOK
      <3>2. (Settled(k) = {})'
        BY <2>3, <3>1
      <3> QED
        BY <1>7, <3>2, NobodyWasThere
    <2>6. CASE k = n /\ Called("repeatTracks")
      <3>1. UNCHANGED <<Bound, Served>> /\ Bound = 2 * Served
        BY <2>6 DEF Bound, Served, Called
      <3>2. /\ Cardinality(Settled(k)) + Cardinality(Writing(k)) <= Served
            /\ Cardinality(Settled(k)) \in Nat /\ Cardinality(Writing(k)) \in Nat
            /\ Served \in Nat /\ IsFiniteSet(scenario.requests)
        BY <1>1, <1>7, <2>1, <2>6, TracksFinite DEF PlaceShared
      <3>3. Coming(k)' \subseteq scenario.requests
        BY <1>7, IdleIsOK DEF Coming, ComesTo, WritesTo, AreServed
      <3>4. Cardinality(Coming(k)') <= Served /\ Cardinality(Coming(k)') \in Nat
        BY <3>2, <3>3, FS_Subset, FS_CardinalityType DEF Served
      <3> QED
        BY <2>3, <2>4, <3>1, <3>2, <3>4 DEF PlaceShared
    <2>7. CASE k # n
      <3>1. Coming(k)' \subseteq Coming(k)
        BY <1>3, <1>7, <2>7 DEF Coming, ComesTo, WritesTo
      <3> QED
        BY <1>5, <1>7, <2>1, <2>3, <2>4, <3>1, NobodyComes
    <2> QED
      BY <2>5, <2>6, <2>7
  <1> QED
    BY <1>2, <1>7, <1>8 DEF PlacesInv, Called

(* A request that is neither coming nor about to write, before or after.   *)
LEMMA StandsStill ==
  ASSUME TracksTypeOK, TracksTypeOK', PlacesInv, UNCHANGED <<scenario, places>>,
         NEW p \in Requests, p \in scenario.requests,
         NEW o, ordering' = [ordering EXCEPT ![p] = o], OrderOK(o)',
         ordering[p].at # "write" \/ Called("abort"),
         o.at \notin {"create", "write"} \/ Called("abort")
  PROVE  PlacesInv'
  <1>1. Len(places) <= Len(places')
    BY DEF TracksTypeOK
  <1>2. /\ \A r \in Requests : ordering'[r] = IF r = p THEN o ELSE ordering[r]
        /\ \A r \in Requests : OrderOK(ordering[r])'
        /\ AreServed /\ AreServed'
    BY <1>1, OneOrder DEF PlacesInv
  <1>3. ASSUME ~Called("abort")', NEW k \in Nat
        PROVE  PlaceShared(k)'
    <2>1. PlaceShared(k) /\ ordering[p].at # "write" /\ o.at \notin {"create", "write"}
      BY <1>3 DEF PlacesInv, Called
    <2>2. \A t : Doomed(t) <=> Doomed(t)'
      BY <1>2, <2>1 DEF Doomed
    <2>3. Settled(k)' = Settled(k)
      BY <2>2 DEF Settled
    <2>4. Coming(k)' \subseteq Coming(k) /\ Writing(k)' \subseteq Writing(k)
      BY <1>2, <2>1 DEF Coming, Writing, ComesTo, WritesTo
    <2> QED
      BY <1>1, <1>2, <2>1, <2>3, <2>4, NobodyComes
  <1> QED
    BY <1>2, <1>3 DEF PlacesInv, Called

LEMMA ReorderKeepsPlaces ==
  ASSUME TracksTypeOK, TracksTypeOK', PlacesInv, UNCHANGED scenario, NEW p \in Requests,
         NEW n \in Nat, NEW order \in [1 .. n -> 1 .. Len(places)],
         n <= Len(places) \/ Called("repeatTracks"), ReorderTracks(p, order)
  PROVE  PlacesInv'
  <1> DEFINE o == [IdleOrdering EXCEPT !.at = "find", !.order = order]
  <1>1. /\ UNCHANGED places /\ ordering' = [ordering EXCEPT ![p] = o] /\ ordering[p] = IdleOrdering
        /\ p \in scenario.requests
    BY DEF ReorderTracks, BeginOrdering
  <1>2. o.at = "find" /\ o.order = order
    BY DEF IdleOrdering
  <1> HIDE DEF o
  <1>3. \A i \in 1 .. n : /\ order[i] \in 1 .. Len(places)
                          /\ ~Called("repeatTracks") => i \in 1 .. Len(places)
    BY DEF TracksTypeOK
  <1>4. OrderOK(o)'
    BY <1>1, <1>2, <1>3 DEF OrderOK, Called
  <1> QED
    BY <1>1, <1>2, <1>4, IdleIsOK, StandsStill

(* What the list names is all there is: every track gets a place.          *)
LEMMA FindKeepsPlaces ==
  ASSUME TracksTypeOK, TracksTypeOK', PlacesInv, UNCHANGED scenario, NEW p \in Requests,
         FindTracks(p)
  PROVE  PlacesInv'
  <1>1. PICK q \in OrderingType : q = ordering[p] /\ OrderOK(q)
    BY DEF TracksTypeOK, OrderingType, PlacesInv
  <1>2. UNCHANGED places /\ q.at = "find" /\ p \in scenario.requests
    BY <1>1, AtWorkIsServed DEF FindTracks
  <1>3. CASE OrderingEnds(p)
    BY <1>1, <1>2, <1>3, IdleIsOK, StandsStill DEF OrderingEnds
  <1>4. CASE /\ ordering' = [ordering EXCEPT ![p].at = "write", ![p].left = DOMAIN q.order]
             /\ {q.order[i] : i \in DOMAIN q.order} = DOMAIN places
    <2>1. PICK left : left = DOMAIN q.order
      OBVIOUS
    <2> DEFINE o == [q EXCEPT !.at = "write", !.left = left]
    <2>2. ordering' = [ordering EXCEPT ![p] = o]
      BY <1>1, <1>4, <2>1
    <2>3. o.at = "write" /\ o.left = DOMAIN q.order /\ o.order = q.order
      BY <2>1 DEF OrderingType
    <2> HIDE DEF o
    <2>4. OrderOK(o)'
      BY <1>1, <1>2, <2>3 DEF OrderOK, Called
    <2>5. Len(places) <= Len(places')
      BY <1>2 DEF TracksTypeOK
    <2>6. /\ \A r \in Requests : ordering'[r] = IF r = p THEN o ELSE ordering[r]
          /\ \A r \in Requests : OrderOK(ordering[r])'
          /\ AreServed'
      BY <1>2, <2>2, <2>4, <2>5, OneOrder
    <2>7. ASSUME NEW k
          PROVE  Settled(k)' = {}
      <3>1. ASSUME NEW t \in DOMAIN places
            PROVE  Doomed(t)'
        <4>1. PICK i \in DOMAIN q.order : q.order[i] = t
          BY <1>4
        <4>2. ordering'[p] = o
          BY <2>6
        <4> QED
          BY <2>3, <4>1, <4>2 DEF Doomed
      <3> QED
        BY <1>2, <3>1 DEF Settled
    <2>8. ASSUME NEW k
          PROVE  PlaceShared(k)'
      BY <2>6, <2>7, NobodyWasThere
    <2> QED
      BY <1>2, <2>6, <2>8 DEF PlacesInv, Called
  <1> QED
    BY <1>1, <1>3, <1>4 DEF FindTracks

LEMMA CreateKeepsPlaces ==
  ASSUME TracksTypeOK, TracksTypeOK', PlacesInv, UNCHANGED scenario, NEW p \in Requests,
         CreateTrack(p)
  PROVE  PlacesInv'
  <1>1. PICK q \in OrderingType : q = ordering[p] /\ OrderOK(q)
    BY DEF TracksTypeOK, OrderingType, PlacesInv
  <1>2. /\ q.at = "create" /\ ordering' = [ordering EXCEPT ![p] = IdleOrdering]
        /\ p \in scenario.requests
    BY <1>1, AtWorkIsServed DEF CreateTrack, OrderingEnds
  <1>3. CASE UNCHANGED places
    BY <1>1, <1>2, <1>3, IdleIsOK, StandsStill
  <1>4. CASE places' = Append(places, q.place)
    <2>1. PICK n \in Nat : n = Len(places)
      BY DEF TracksTypeOK
    <2>2. q.place \in Nat /\ q.place <= n
      BY <1>1, <1>2, <2>1 DEF OrderOK, OrderingType
    <2>3. /\ Len(places') = n + 1 /\ DOMAIN places = 1 .. n /\ DOMAIN places' = 1 .. (n + 1)
          /\ \A t \in 1 .. n : places'[t] = places[t] /\ places[t] \in Nat
          /\ places'[n + 1] = q.place
      BY <1>4, <2>1, <2>2 DEF TracksTypeOK
    <2>4. \A t \in 1 .. (n + 1) : t \in 1 .. n \/ t = n + 1
      OBVIOUS
    <2>5. ASSUME ~Called("repeatTracks")', NEW t \in DOMAIN places'
          PROVE  places'[t] < Len(places')
      <3>1. \A u \in 1 .. n : places[u] < n
        BY <2>1, <2>3, <2>5 DEF PlacesInv, Called
      <3> QED
        BY <2>2, <2>3, <2>4, <2>5, <3>1
    <2>6. Len(places) <= Len(places')
      BY <2>1, <2>3
    <2>7. /\ \A r \in Requests : ordering'[r] = IF r = p THEN IdleOrdering ELSE ordering[r]
          /\ \A r \in Requests : OrderOK(ordering[r])'
          /\ AreServed /\ AreServed'
      BY <1>2, <2>6, IdleIsOK, OneOrder DEF PlacesInv
    <2>8. ASSUME ~Called("abort")', NEW k \in Nat
          PROVE  PlaceShared(k)'
      <3>1. PlaceShared(k)
        BY <2>8 DEF PlacesInv, Called
      <3>2. \A t : Doomed(t) <=> Doomed(t)'
        BY <1>1, <1>2, <2>7, IdleIsOK DEF Doomed
      <3>3. CASE k = q.place
        <4>1. Settled(k)' \subseteq Settled(k) \cup {n + 1}
          BY <2>3, <2>4, <3>2 DEF Settled
        <4>2. p \in Coming(k) /\ Coming(k)' \subseteq Coming(k) \ {p}
          BY <1>1, <1>2, <2>7, <3>3, IdleIsOK DEF Coming, ComesTo, WritesTo
        <4>3. ~(Len(places') <= k)
          BY <2>2, <2>3, <3>3
        <4> QED
          BY <2>6, <2>7, <3>1, <4>1, <4>2, <4>3, OneHasCome
      <3>4. CASE k # q.place
        <4>1. Settled(k)' \subseteq Settled(k)
          BY <2>3, <2>4, <3>2, <3>4 DEF Settled
        <4>2. Coming(k)' \subseteq Coming(k) /\ Writing(k)' \subseteq Writing(k)
          BY <2>7, IdleIsOK DEF Coming, Writing, ComesTo, WritesTo
        <4> QED
          BY <2>6, <2>7, <3>1, <4>1, <4>2, NobodyComes
      <3> QED
        BY <3>3, <3>4
    <2> QED
      BY <2>5, <2>7, <2>8 DEF PlacesInv
  <1> QED
    BY <1>1, <1>3, <1>4 DEF CreateTrack

(* One update of a reordering is answered: what is left for the request.   *)
LEMMA OneSettles ==
  ASSUME TracksTypeOK, TracksTypeOK', PlacesInv, UNCHANGED scenario,
         Len(places') = Len(places), NEW p \in Requests, NEW i, Settles(p, i)
  PROVE  /\ i \in ordering[p].left /\ ordering[p].at = "write" /\ p \in scenario.requests
         /\ \E o : /\ ordering' = [ordering EXCEPT ![p] = o] /\ OrderOK(o)'
                   /\ \/ o = IdleOrdering /\ ordering[p].left = {i}
                      \/ /\ o.at = "write" /\ o.left = ordering[p].left \ {i}
                         /\ o.order = ordering[p].order
  <1>1. PICK q \in OrderingType : q = ordering[p] /\ OrderOK(q)
    BY DEF TracksTypeOK, OrderingType, PlacesInv
  <1>2. q.at = "write" /\ i \in q.left /\ p \in scenario.requests
    BY <1>1, AtWorkIsServed DEF Settles
  <1>3. Len(places) \in Nat /\ Len(places) <= Len(places')
    BY DEF TracksTypeOK
  <1>4. CASE q.left = {i} /\ OrderingEnds(p)
    BY <1>1, <1>2, <1>4, IdleIsOK DEF OrderingEnds
  <1>5. CASE ordering' = [ordering EXCEPT ![p].left = @ \ {i}]
    <2>1. PICK left : left = q.left \ {i}
      OBVIOUS
    <2> DEFINE b == [q EXCEPT !.left = left]
    <2>2. ordering' = [ordering EXCEPT ![p] = b]
      BY <1>1, <1>5, <2>1
    <2>3. b.at = "write" /\ b.left = q.left \ {i} /\ b.order = q.order
      BY <1>2, <2>1 DEF OrderingType
    <2> HIDE DEF b
    <2>4. OrderOK(q)'
      BY <1>1, <1>3, OrderStaysOK
    <2>5. OrderOK(b)'
      BY <1>2, <2>3, <2>4 DEF OrderOK
    <2> QED
      BY <1>1, <1>2, <2>2, <2>3, <2>5
  <1> QED
    BY <1>1, <1>4, <1>5 DEF Settles

LEMMA WriteKeepsPlaces ==
  ASSUME TracksTypeOK, TracksTypeOK', PlacesInv, UNCHANGED scenario, NEW p \in Requests,
         NEW i, WritePlace(p, i)
  PROVE  PlacesInv'
  <1>1. PICK q \in OrderingType : q = ordering[p] /\ OrderOK(q)
    BY DEF TracksTypeOK, OrderingType, PlacesInv
  <1>2. /\ q.at = "write" /\ i \in q.left /\ i \in Nat \ {0}
        /\ places' = [places EXCEPT ![q.order[i]] = i - 1]
    BY <1>1 DEF WritePlace, Settles, OrderingType
  <1>3. PICK n \in Nat : n = Len(places) /\ DOMAIN places = 1 .. n
    BY DEF TracksTypeOK
  <1>4. PICK t \in 1 .. n : t = q.order[i] /\ (~Called("repeatTracks") => i \in 1 .. n)
    BY <1>1, <1>2, <1>3 DEF OrderOK
  <1>5. /\ Len(places') = n /\ DOMAIN places' = 1 .. n
        /\ \A u \in 1 .. n : places'[u] = IF u = t THEN i - 1 ELSE places[u]
    BY <1>2, <1>3, <1>4 DEF TracksTypeOK
  <1>6. ASSUME ~Called("repeatTracks")', NEW u \in DOMAIN places'
        PROVE  places'[u] < Len(places')
    <2>1. i - 1 < n /\ places[u] < n
      BY <1>3, <1>4, <1>5, <1>6 DEF PlacesInv, Called
    <2> QED
      BY <1>5, <2>1
  <1>7. PICK o : /\ ordering' = [ordering EXCEPT ![p] = o] /\ OrderOK(o)'
                 /\ p \in scenario.requests
                 /\ \/ o = IdleOrdering /\ q.left = {i}
                    \/ o.at = "write" /\ o.left = q.left \ {i} /\ o.order = q.order
    BY <1>1, <1>3, <1>5, OneSettles DEF WritePlace
  <1>8. Len(places) <= Len(places')
    BY <1>3, <1>5
  <1>9. /\ \A r \in Requests : ordering'[r] = IF r = p THEN o ELSE ordering[r]
        /\ \A r \in Requests : OrderOK(ordering[r])'
        /\ AreServed /\ AreServed'
    BY <1>7, <1>8, OneOrder DEF PlacesInv
  <1>10. ASSUME NEW u, u # t, Doomed(u)
         PROVE  Doomed(u)'
    <2>1. PICK r \in Requests : /\ ordering[r].at = "write"
                                /\ \E j \in ordering[r].left : ordering[r].order[j] = u
      BY <1>10 DEF Doomed
    <2>2. CASE r # p
      BY <1>9, <2>1, <2>2 DEF Doomed
    <2>3. CASE r = p
      <3>1. PICK j \in q.left : q.order[j] = u /\ j # i
        BY <1>1, <1>4, <1>10, <2>1, <2>3
      <3>2. o.at = "write" /\ j \in o.left /\ o.order = q.order
        BY <1>7, <3>1
      <3> QED
        BY <1>9, <3>1, <3>2 DEF Doomed
    <2> QED
      BY <2>2, <2>3
  <1>11. ASSUME ~Called("abort")', NEW k \in Nat
         PROVE  PlaceShared(k)'
    <2>1. PlaceShared(k)
      BY <1>11 DEF PlacesInv, Called
    <2>2. ASSUME NEW u \in Settled(k)', u # t
          PROVE  u \in Settled(k)
      BY <1>3, <1>5, <1>10, <2>2 DEF Settled
    <2>3. ~ComesTo(IdleOrdering, k) /\ ~WritesTo(IdleOrdering, k)
      BY IdleIsOK DEF ComesTo, WritesTo
    <2>4. Coming(k)' \subseteq Coming(k) /\ Writing(k)' \subseteq Writing(k)
      BY <1>1, <1>2, <1>7, <1>9, <2>3 DEF Coming, Writing, ComesTo, WritesTo
    <2>5. CASE k = i - 1
      <3>1. k + 1 = i
        BY <1>2, <2>5
      <3>2. p \in Coming(k) /\ p \in Writing(k)
        BY <1>1, <1>2, <3>1 DEF Coming, Writing, ComesTo, WritesTo
      <3>3. ~ComesTo(o, k) /\ ~WritesTo(o, k)
        BY <1>7, <2>3, <3>1 DEF ComesTo, WritesTo
      <3>4. p \notin Coming(k)' /\ p \notin Writing(k)'
        BY <1>9, <3>3 DEF Coming, Writing
      <3>5. Settled(k)' \subseteq Settled(k) \cup {t}
        BY <2>2
      <3>6. Coming(k)' \subseteq Coming(k) \ {p} /\ Writing(k)' \subseteq Writing(k) \ {p}
        BY <2>4, <3>4
      <3> QED
        BY <1>8, <1>9, <2>1, <3>2, <3>5, <3>6, OneHasCome
    <2>6. CASE k # i - 1
      <3>1. Settled(k)' \subseteq Settled(k)
        BY <1>5, <2>2, <2>6 DEF Settled
      <3> QED
        BY <1>8, <1>9, <2>1, <2>4, <3>1, NobodyComes
    <2> QED
      BY <2>5, <2>6
  <1> QED
    BY <1>6, <1>9, <1>11 DEF PlacesInv

LEMMA PlacesStep ==
  ASSUME TracksTypeOK, PlacesInv, [Next]_vars
  PROVE  PlacesInv'
  <1>1. TracksTypeOK' /\ UNCHANGED scenario
    BY TracksStep, ScenarioStays
  <1>2. ASSUME NEW p \in Requests, AbortOrdering(p)
        PROVE  PlacesInv'
    <2>1. p \in scenario.requests
      BY <1>2 DEF AbortOrdering, PlacesInv, AreServed
    <2> QED
      BY <1>1, <1>2, <2>1, IdleIsOK, StandsStill DEF AbortOrdering, OrderingEnds
  <1>3. ASSUME NEW p \in Requests, NEW i, FailPlace(p, i)
        PROVE  PlacesInv'
    <2>1. UNCHANGED places /\ Called("abort") /\ Settles(p, i)
      BY <1>3 DEF FailPlace
    <2>2. PICK o : /\ ordering' = [ordering EXCEPT ![p] = o] /\ OrderOK(o)'
                   /\ p \in scenario.requests
      BY <1>1, <2>1, OneSettles
    <2> QED
      BY <1>1, <2>1, <2>2, StandsStill
  <1>4. ASSUME NEW p \in Requests, BeginTracks(p)
        PROVE  PlacesInv'
    <2>1. Len(places) \in Nat
      BY DEF TracksTypeOK
    <2>2. ASSUME NEW n \in 1 .. Len(places), NEW order \in Permutations(n), ReorderTracks(p, order)
          PROVE  PlacesInv'
      <3>1. order \in [1 .. n -> 1 .. Len(places)] /\ n \in Nat /\ n <= Len(places)
        BY <2>1 DEF Permutations
      <3> QED
        BY <1>1, <2>2, <3>1, ReorderKeepsPlaces
    <2>3. ASSUME Called("repeatTracks"), NEW order \in Lists, ReorderTracks(p, order)
          PROVE  PlacesInv'
      <3>1. PICK n \in Nat : order \in [1 .. n -> 1 .. Len(places)]
        BY PlatformAssumption DEF Lists
      <3> QED
        BY <1>1, <2>3, <3>1, ReorderKeepsPlaces
    <2> QED
      BY <1>1, <1>4, <2>2, <2>3, CountKeepsPlaces DEF BeginTracks
  <1>5. CASE UNCHANGED trackVars
    <2>1. UNCHANGED <<places, ordering, scenario>>
      BY <1>1, <1>5 DEF trackVars
    <2>2. \A k \in Nat : PlaceShared(k) => PlaceShared(k)'
      BY <2>1 DEF PlaceShared, Settled, Coming, Writing, ComesTo, WritesTo, Doomed, Bound, Served,
                  Called
    <2> QED
      BY <2>1, <2>2 DEF PlacesInv, AreServed, OrderOK, Called
  <1> QED
    BY <1>1, <1>2, <1>3, <1>4, <1>5, StepsOfTracks, FindKeepsPlaces, CreateKeepsPlaces,
       WriteKeepsPlaces
    DEF TracksNext, ContinueOrdering

LEMMA PlacesBegin ==
  ASSUME Init
  PROVE  PlacesInv
  <1>1. places = <<>> /\ ordering = [p \in Requests |-> IdleOrdering] /\ TracksTypeOK
    BY TracksInitial DEF Init, TracksInit
  <1>2. AreServed
    BY <1>1 DEF Init, AreServed
  <1>3. ASSUME NEW k \in Nat
        PROVE  PlaceShared(k)
    <2>1. Settled(k) = {} /\ Coming(k) = {} /\ Writing(k) = {}
      BY <1>1, IdleIsOK DEF Settled, Coming, Writing, ComesTo, WritesTo
    <2>2. /\ Cardinality(Settled(k)) = 0 /\ Cardinality(Coming(k)) = 0
          /\ Cardinality(Writing(k)) = 0 /\ Served \in Nat /\ Bound \in Nat
      BY <1>1, <1>2, <2>1, TracksFinite, FS_EmptySet
    <2> QED
      BY <2>2 DEF PlaceShared
  <1>4. \A p \in Requests : OrderOK(ordering[p])
    BY <1>1, IdleIsOK
  <1> QED
    BY <1>1, <1>2, <1>3, <1>4 DEF PlacesInv

(* Once all requests to TracksService are answered, no more tracks share a *)
(* place than there were requests at work, however counting, creating and  *)
(* reordering overlapped, and twice as many if some of their lists repeated*)
(* a track; with the page's lists, every place is within the list.         *)
THEOREM SharedPlacesAreBounded == Spec => []SharedPlacesBounded
  <1>1. Spec => []TracksTypeOK
    BY TracksInitial, TracksStep, PTL DEF Spec
  <1>2. TracksTypeOK /\ PlacesInv /\ [Next]_vars => PlacesInv'
    BY PlacesStep
  <1>3. Spec => []PlacesInv
    BY <1>1, <1>2, PlacesBegin, PTL DEF Spec
  <1>4. ASSUME TracksTypeOK, PlacesInv, ~Called("abort"),
               \A p \in Requests : ordering[p] = IdleOrdering, NEW k \in Nat
        PROVE  Cardinality({t \in DOMAIN places : places[t] = k}) <= Bound
    <2>1. Settled(k) = {t \in DOMAIN places : places[t] = k}
      BY <1>4, IdleIsOK DEF Settled, Doomed
    <2>2. Cardinality(Settled(k)) + Cardinality(Coming(k)) <= Bound
      BY <1>4 DEF PlacesInv, PlaceShared
    <2>3. /\ Cardinality(Settled(k)) \in Nat /\ Cardinality(Coming(k)) \in Nat
          /\ Bound \in Nat
      BY <1>4, TracksFinite DEF PlacesInv
    <2>4. Cardinality(Settled(k)) <= Bound
      BY <2>2, <2>3
    <2> QED
      BY <2>1, <2>4, Zenon
  <1>5. \A k \in 0 .. MaxListed : k \in Nat
    OBVIOUS
  <1>6. TracksTypeOK /\ PlacesInv => SharedPlacesBounded
    BY <1>4, <1>5 DEF PlacesInv, SharedPlacesBounded, Bound, Served
  <1> QED
    BY <1>1, <1>3, <1>6, PTL

-----------------------------------------------------------------------------
(* Everything.                                                             *)

(* All tables, requests, workers, queues and pages keep their types.       *)
THEOREM PlatformTypeCorrect == Spec => []TypeOK
  <1>1. Spec => []TracksTypeOK
    BY TracksInitial, TracksStep, PTL DEF Spec
  <1>2. UsersInv /\ WebInv => AccountsTypeOK
    BY DEF UsersInv, WebInv, WebTypeOK, AccountsTypeOK, AccountType, WebType, SessionType
  <1>3. JobsInv /\ RemindersInv => JobsTypeOK /\ RemindersTypeOK
    BY DEF JobsInv, RemindersInv
  <1>4. UsersInv /\ WebInv /\ JobsInv /\ RemindersInv /\ TracksTypeOK => TypeOK
    BY <1>2, <1>3 DEF TypeOK
  <1> QED
    BY <1>1, <1>4, UsersInvariance, WebInvariance, JobsInvariance, RemindersInvariance, PTL
=============================================================================
