-------------------------------- MODULE Programme --------------------------------
(***************************************************************************)
(* The programme of the conference: SessionsService, PresentationsService, *)
(* ScheduleConflictService and the removal of a speaker.                   *)
(*                                                                         *)
(* The rules on overlaps are tested by reads before, and apart from, the   *)
(* write they guard.  Only the speakers of a session are replaced in a     *)
(* transaction (READ COMMITTED), which deletes the rows that it sees when  *)
(* its delete runs.                                                        *)
(***************************************************************************)
EXTENDS EditorialTables

ChairRoles == {"CHAIR", "CO_CHAIR"}
Roles == {"SPEAKER"} \cup ChairRoles

(* Of several speakers for one chair the first becomes the chair; the lists*)
(* of the model name one at most.                                          *)
ASSUME SpeakerListsAssumption ==
    /\ SpeakerLists \subseteq SUBSET (Speakers \X Roles)
    /\ \A list \in SpeakerLists, role \in ChairRoles :
           \A x, y \in list : x[2] = role /\ y[2] = role => x = y

(* Beginning and end are instants of the schedule; the room, the date and  *)
(* the track are left out, for no rule between rows reads them.            *)
SessionRows == [status : {"NONE", "DRAFT", "PUBLISHED"}, window : Windows]
PresentationRows == [session : Sessions, abstract : Abstracts \cup {0},  \* 0: only a title
                     window : Windows, live : BOOLEAN]

SchedulingSteps == {"idle", "doubleBooking", "createPresentation", "updatePresentation",
                    "updateSession", "countVersion", "speakerOverlap", "deleteRoles",
                    "commitRoles"}

IdleScheduling == [at |-> "idle", session |-> NoSession, abstract |-> 0,
                   window |-> [from |-> 0, to |-> 0], id |-> 0, published |-> FALSE,
                   list |-> {}, todo |-> {}, seen |-> {}]

SchedulingStates ==
    [at : SchedulingSteps, session : Sessions \cup {NoSession}, abstract : Abstracts \cup {0},
     window : [from : Nat, to : Nat], id : Nat, published : BOOLEAN,
     list : SUBSET (Speakers \X Roles), todo : SUBSET Speakers,
     seen : SUBSET (Speakers \X Roles)]

ProgrammeTypeOK ==
    /\ sessions \in [Sessions -> SessionRows]
    /\ roles \in [Sessions -> SUBSET (Speakers \X Roles)]
    /\ chairs \in [Sessions -> [ChairRoles -> Speakers \cup {Nobody}]]
    /\ scheduleVersion \in Nat
    /\ presentations \in Seq(PresentationRows)
    /\ scheduling \in [Requests -> SchedulingStates]

(* The sessions of the scenario are drafts with its window.                *)
ProgrammeInit ==
    /\ sessions = [s \in Sessions |->
                      [status |-> IF s \in scenario.sessions THEN "DRAFT" ELSE "NONE",
                       window |-> scenario.window]]
    /\ roles = [s \in Sessions |-> {}]
    /\ chairs = [s \in Sessions |-> [role \in ChairRoles |-> Nobody]]
    /\ scheduleVersion = 0
    /\ presentations = <<>>
    /\ scheduling = [p \in Requests |-> IdleScheduling]

-----------------------------------------------------------------------------
ElsewhereFromProgramme == UNCHANGED <<scenario, submissionVars, reviewVars>>
programme == <<sessions, roles, chairs, scheduleVersion>>

RespondScheduling(p) == scheduling' = [scheduling EXCEPT ![p] = IdleScheduling]
GotoScheduling(p, step) == scheduling' = [scheduling EXCEPT ![p].at = step]

HasSession(s) == sessions[s].status # "NONE"
Live == {i \in DOMAIN presentations : presentations[i].live}

(* Mutant: windows that begin together do not overlap.                     *)
OverlapStrictly(v, w) == v.from < w.from /\ w.from < v.to

(* windowsOverlap and isWithinWindow.                                      *)
Overlap(v, w) == v.from < w.to /\ w.from < v.to
Within(v, w) == v.from >= w.from /\ v.to <= w.to

BeginScheduling(p, call, request) ==
    /\ Called(call)
    /\ scheduling[p] = IdleScheduling
    /\ scheduling' = [scheduling EXCEPT ![p] = request]
    /\ UNCHANGED <<programme, presentations>>
    /\ ElsewhereFromProgramme

-----------------------------------------------------------------------------
(* SessionsService.create and publish.                                     *)
CreateSession(s, w) ==
    /\ Called("createSession")
    /\ ~HasSession(s)
    /\ w.from < w.to
    /\ sessions' = [sessions EXCEPT ![s] = [status |-> "DRAFT", window |-> w]]
    /\ UNCHANGED <<roles, chairs, scheduleVersion, presentations, scheduling>>
    /\ ElsewhereFromProgramme

PublishSession(s) ==
    /\ Called("publishSession")
    /\ HasSession(s)
    /\ sessions' = [sessions EXCEPT ![s].status = "PUBLISHED"]
    /\ UNCHANGED <<roles, chairs, scheduleVersion, presentations, scheduling>>
    /\ ElsewhereFromProgramme

(* update validates the window, and counts a version of the schedule when  *)
(* the session it had read was published.  The presentations keep theirs.  *)
UpdateSession(p, s, w) ==
    /\ HasSession(s) /\ w.from < w.to
    /\ BeginScheduling(p, "updateSession",
           [IdleScheduling EXCEPT !.at = "updateSession", !.session = s, !.window = w,
                                  !.published = sessions[s].status = "PUBLISHED"])

SetSessionWindow(p) ==
    /\ scheduling[p].at = "updateSession"
    /\ sessions' = [sessions EXCEPT ![scheduling[p].session].window = scheduling[p].window]
    /\ IF scheduling[p].published THEN GotoScheduling(p, "countVersion")
       ELSE RespondScheduling(p)
    /\ UNCHANGED <<roles, chairs, scheduleVersion, presentations>>
    /\ ElsewhereFromProgramme

(* The counter is bounded in the model by 2.                               *)
CountScheduleVersion(p) ==
    /\ scheduling[p].at = "countVersion"
    /\ scheduleVersion' = IF scheduleVersion < 2 THEN scheduleVersion + 1 ELSE scheduleVersion
    /\ RespondScheduling(p)
    /\ UNCHANGED <<sessions, roles, chairs, presentations>>
    /\ ElsewhereFromProgramme

-----------------------------------------------------------------------------
(* SessionsService.assignSpeakers.                                         *)
AssignSpeakers(p, s, list) ==
    /\ HasSession(s)
    /\ BeginScheduling(p, "assignSpeakers",
           [IdleScheduling EXCEPT !.session = s, !.window = sessions[s].window, !.list = list,
               !.at = IF settings.preventSpeakerOverlap THEN "speakerOverlap" ELSE "deleteRoles",
               !.todo = {x[1] : x \in list}])

SpeakerOverlaps(x, s, w) ==
    \E t \in Sessions \ {s} : /\ \E role \in Roles : <<x, role>> \in roles[t]
                              /\ Overlap(sessions[t].window, w)

(* assertNoSpeakerOverlap for one after the other.                         *)
CheckSpeaker(p) ==
    /\ scheduling[p].at = "speakerOverlap"
    /\ \/ scheduling[p].todo = {} /\ GotoScheduling(p, "deleteRoles")
       \/ \E x \in scheduling[p].todo :
             IF SpeakerOverlaps(x, scheduling[p].session, scheduling[p].window)
             THEN RespondScheduling(p)
             ELSE scheduling' = [scheduling EXCEPT ![p].todo = @ \ {x}]
    /\ UNCHANGED <<programme, presentations>>
    /\ ElsewhereFromProgramme

(* The transaction's delete: rows that others commit from here on are not  *)
(* among those it deletes.                                                 *)
DeleteRoles(p) ==
    /\ scheduling[p].at = "deleteRoles"
    /\ scheduling' = [scheduling EXCEPT ![p].at = "commitRoles",
                                        ![p].seen = roles[scheduling[p].session]]
    /\ UNCHANGED <<programme, presentations>>
    /\ ElsewhereFromProgramme

ChairOf(list, role) ==
    IF \E x \in Speakers : <<x, role>> \in list
    THEN CHOOSE x \in Speakers : <<x, role>> \in list ELSE Nobody

Kept(p) == roles[scheduling[p].session] \ scheduling[p].seen

(* Mutant: the chair is only changed when the list names one.              *)
CommitRolesKeepsChair(p) ==
    LET s == scheduling[p].session
        list == scheduling[p].list
    IN
    /\ scheduling[p].at = "commitRoles"
    /\ roles' = [roles EXCEPT ![s] = Kept(p) \cup list]
    /\ chairs' = [chairs EXCEPT ![s] =
                     [role \in ChairRoles |-> IF ChairOf(list, role) = Nobody
                                              THEN chairs[s][role] ELSE ChairOf(list, role)]]
    /\ RespondScheduling(p)
    /\ UNCHANGED <<sessions, scheduleVersion, presentations>>
    /\ ElsewhereFromProgramme

(* The inserts and the commit; a row of the list that another transaction  *)
(* has inserted violates the primary key and rolls everything back.        *)
CommitRoles(p) ==
    LET s == scheduling[p].session
        list == scheduling[p].list
    IN
    /\ scheduling[p].at = "commitRoles"
    /\ \/ /\ Kept(p) \cap list = {}
          /\ roles' = [roles EXCEPT ![s] = Kept(p) \cup list]
          /\ chairs' = [chairs EXCEPT ![s] = [role \in ChairRoles |-> ChairOf(list, role)]]
       \/ Kept(p) \cap list # {} /\ UNCHANGED <<roles, chairs>>
    /\ RespondScheduling(p)
    /\ UNCHANGED <<sessions, scheduleVersion, presentations>>
    /\ ElsewhereFromProgramme

(* SpeakersService.remove, a transaction of its own; an assignSpeakers     *)
(* that names the speaker afterwards fails on the foreign key.             *)
RemoveSpeaker(x) ==
    /\ Called("removeSpeaker")
    /\ roles' = [s \in Sessions |-> {y \in roles[s] : y[1] # x}]
    /\ chairs' = [s \in Sessions |->
                     [role \in ChairRoles |-> IF chairs[s][role] = x THEN Nobody
                                              ELSE chairs[s][role]]]
    /\ scheduling' = [p \in Requests |->
                         IF \E y \in scheduling[p].list : y[1] = x THEN IdleScheduling
                         ELSE scheduling[p]]
    /\ UNCHANGED <<sessions, scheduleVersion, presentations>>
    /\ ElsewhereFromProgramme

-----------------------------------------------------------------------------
(* PresentationsService.assign: the session, and the abstract, if there is *)
(* one, must be accepted.                                                  *)

(* Mutant: any abstract can be scheduled.                                  *)
IsSchedulable(a) == a # 0 => status[a] # "NONE"

MayBeScheduled(a) == a # 0 => status[a] = "ACCEPTED"

AssignPresentation(p, s, a, w) ==
    /\ Len(presentations)
          + Cardinality({q \in Requests : scheduling[q].at \in {"doubleBooking", "createPresentation"}
                                          /\ scheduling[q].id = 0}) < MaxPresentations
    /\ HasSession(s) /\ MayBeScheduled(a) /\ Within(w, sessions[s].window)
    /\ BeginScheduling(p, IF a = 0 THEN "assignTitle" ELSE "assignPresentation",
           [IdleScheduling EXCEPT !.session = s, !.abstract = a, !.window = w,
               !.at = IF a = 0 THEN "createPresentation" ELSE "doubleBooking"])

(* assertNoAbstractDoubleBooking, for assign and for update.               *)
CheckDoubleBooking(p) ==
    LET request == scheduling[p]
        others == {i \in Live : /\ presentations[i].abstract = request.abstract
                                /\ presentations[i].session # request.session}
    IN
    /\ request.at = "doubleBooking"
    /\ IF \E i \in others : Overlap(presentations[i].window, request.window)
       THEN RespondScheduling(p)
       ELSE GotoScheduling(p, IF request.id = 0 THEN "createPresentation"
                              ELSE "updatePresentation")
    /\ UNCHANGED <<programme, presentations>>
    /\ ElsewhereFromProgramme

(* The unique index on session and abstract lets titles alone repeat.      *)
CreatePresentation(p) ==
    LET request == scheduling[p]
        exists == /\ request.abstract # 0
                  /\ \E i \in Live : /\ presentations[i].abstract = request.abstract
                                     /\ presentations[i].session = request.session
    IN
    /\ request.at = "createPresentation"
    /\ presentations' = IF exists THEN presentations
                        ELSE Append(presentations, [session |-> request.session,
                                abstract |-> request.abstract, window |-> request.window,
                                live |-> TRUE])
    /\ RespondScheduling(p)
    /\ UNCHANGED programme
    /\ ElsewhereFromProgramme

(* PresentationsService.update: also of an abstract that is no longer      *)
(* accepted.                                                               *)
UpdatePresentation(p, i, w) ==
    LET row == presentations[i] IN
    /\ i \in Live /\ Within(w, sessions[row.session].window)
    /\ BeginScheduling(p, "updatePresentation",
           [IdleScheduling EXCEPT !.session = row.session, !.abstract = row.abstract, !.id = i,
               !.window = w,
               !.at = IF row.abstract = 0 THEN "updatePresentation" ELSE "doubleBooking"])

(* The row may have been removed; then there is nothing to update.         *)
SetPresentationWindow(p) ==
    LET i == scheduling[p].id IN
    /\ scheduling[p].at = "updatePresentation"
    /\ presentations' = IF i \in Live
                        THEN [presentations EXCEPT ![i].window = scheduling[p].window]
                        ELSE presentations
    /\ RespondScheduling(p)
    /\ UNCHANGED programme
    /\ ElsewhereFromProgramme

RemovePresentation(i) ==
    /\ Called("removePresentation")
    /\ i \in Live
    /\ presentations' = [presentations EXCEPT ![i].live = FALSE]
    /\ UNCHANGED <<programme, scheduling>>
    /\ ElsewhereFromProgramme

-----------------------------------------------------------------------------
AbortScheduling(p) ==
    /\ Called("abort")
    /\ scheduling[p] # IdleScheduling
    /\ RespondScheduling(p)
    /\ UNCHANGED <<programme, presentations>>
    /\ ElsewhereFromProgramme

BeginSchedule(p) ==
    \/ \E s \in Sessions, w \in scenario.windows : UpdateSession(p, s, w)
    \/ \E s \in Sessions, list \in SpeakerLists : AssignSpeakers(p, s, list)
    \/ \E s \in Sessions, a \in Abstracts \cup {0}, w \in scenario.windows : AssignPresentation(p, s, a, w)
    \/ \E i \in DOMAIN presentations, w \in scenario.windows : UpdatePresentation(p, i, w)

ContinueScheduling(p) ==
    \/ SetSessionWindow(p) \/ CountScheduleVersion(p)
    \/ CheckSpeaker(p) \/ DeleteRoles(p) \/ CommitRoles(p)
    \/ CheckDoubleBooking(p) \/ CreatePresentation(p) \/ SetPresentationWindow(p)

ProgrammeNext ==
    \/ \E p \in Requests : BeginSchedule(p) \/ ContinueScheduling(p) \/ AbortScheduling(p)
    \/ \E s \in Sessions : PublishSession(s) \/ \E w \in scenario.windows : CreateSession(s, w)
    \/ \E x \in Speakers : RemoveSpeaker(x)
    \/ \E i \in DOMAIN presentations : RemovePresentation(i)

-----------------------------------------------------------------------------
(* Properties.                                                             *)

(* "the unique abstract cannot be double-booked into two sessions with     *)
(* overlapping times" (ScheduleConflictService): requests that run at the  *)
(* same time get past each other's test, but only they: an abstract is     *)
(* never given at one instant in more sessions than there are requests.    *)
GivenAt(a, t) == {i \in Live : /\ presentations[i].abstract = a
                               /\ presentations[i].window.from <= t
                               /\ t < presentations[i].window.to}

DoubleBookingIsBounded ==
    \A a \in Abstracts, w \in Windows :
        Cardinality(GivenAt(a, w.from)) <= Cardinality(Requests)

(* Whoever a session names as its chair or co-chair is listed among its    *)
(* speakers in that role, although two requests may replace the speakers   *)
(* at the same time or a speaker be removed.                               *)
ChairIsSpeaker ==
    \A s \in Sessions, role \in ChairRoles :
        chairs[s][role] # Nobody => <<chairs[s][role], role>> \in roles[s]

(* What is in the programme has been accepted once: a row of               *)
(* AbstractDecision says so, however stale the status was that the         *)
(* scheduling request had read.                                            *)
ScheduledWasAccepted ==
    \A i \in DOMAIN presentations :
        presentations[i].abstract # 0 => "ACCEPTED" \in decisions[presentations[i].abstract]

(* How many statements at most a request still has to run.                 *)
SchedulingLeft(q) ==
    CASE q.at = "idle" -> 0
      [] q.at \in {"createPresentation", "updatePresentation", "countVersion", "commitRoles"} -> 1
      [] q.at \in {"doubleBooking", "updateSession", "deleteRoles"} -> 2
      [] q.at = "speakerOverlap" -> 3 + Cardinality(q.todo)
=============================================================================
