------------------------------- MODULE MCEditorial -------------------------------
(* Instances for TLC: two requests of each service at a time, and scenarios*)
(* that bring together the operations that can get in each other's way.    *)
EXTENDS Editorial

MCAbstracts == 1 .. 3
MCPeople == {"ada", "bob"}
MCReviewers == 1 .. 3
MCAccount == [r \in MCReviewers |-> IF r = 1 THEN "ada" ELSE "bob"]
MCAffiliation == [x \in MCPeople |-> IF x = "ada" THEN "lab" ELSE NoInstitution]
MCInstitutions == {"lab"}
MCWindows == {[from |-> 0, to |-> 2], [from |-> 0, to |-> 1], [from |-> 1, to |-> 2]}

MCSpeakerLists ==
    {{}, {<<"x1", "CHAIR">>}, {<<"x1", "CHAIR">>, <<"x2", "SPEAKER">>},
     {<<"x2", "CHAIR">>, <<"x1", "CO_CHAIR">>}}

Full == [from |-> 0, to |-> 2]
Half == [from |-> 0, to |-> 1]

(* n abstracts, for k reviewers each, room for m assignments; sessions that*)
(* fill the day, and windows that the calls ask for.                       *)
Scenario(calls, start, n, k, reviewers, m, ss, windows) ==
    [calls |-> calls, start |-> start, abstracts |-> n, perAbstract |-> k,
     reviewers |-> reviewers, maxAssignments |-> m,
     sessions |-> ss, window |-> Full, windows |-> windows]

Submission(calls, start, n) == Scenario(calls, start, n, 1, {}, 0, {}, {})
Review(calls, start, n, k, reviewers, m) == Scenario(calls, start, n, k, reviewers, m, {}, {})
Schedule(calls, start, n, ss, windows) == Scenario(calls, start, n, 1, {}, 0, ss, windows)

MCScenarios == {
    \* drafts, versions and decisions that overtake them
    Submission({"createDraft", "saveVersion", "submit", "withdraw"}, "empty", 1),
    Submission({"submit", "withdraw", "REJECTED", "REVISION_REQUIRED", "abort"}, "drafts", 1),
    Submission({"submit", "WAITLISTED", "requestRevision", "abort"}, "drafts", 1),
    \* submission numbers
    Submission({"forceSubmit", "submit"}, "drafts", 3),
    \* the wizard beside another tab, authors and settings
    Submission({"wizard", "saveVersion", "submit"}, "empty", 1),
    Submission({"wizard", "saveVersion", "setAuthors"}, "drafts", 1),
    Submission({"submit", "setAuthors", "deadlinePassed", "authorsRequired"}, "drafts", 1),
    \* automatic assignment: twice at a time, beside a manual one, of several reviewers
    Review({"autoAssign", "decline", "abort"}, "submitted", 1, 1, 1 .. 3, 4),
    Review({"autoAssign"}, "submitted", 3, 1, 1 .. 2, 3),
    Review({"autoAssign", "assign"}, "submitted", 2, 2, 1 .. 3, 4),
    \* conflicts of interest
    Review({"addReviewer", "autoAssign", "setAuthors"}, "drafts", 1, 1, {}, 1),
    Review({"addReviewer", "autoAssign"}, "submitted", 2, 1, {}, 2),
    Review({"updateProfile", "setAuthors", "autoAssign"}, "submitted", 1, 1, {1, 2}, 1),
    \* one assignment between reviewer and organiser
    Review({"assign", "reassign", "decline", "submitReview"}, "submitted", 1, 1, {1}, 3),
    Review({"assign", "reassign", "declareConflict", "submitReview", "abort"},
            "submitted", 1, 1, {1, 2}, 2),
    \* presentations
    Schedule({"assignPresentation", "updatePresentation", "removePresentation"},
             "accepted", 1, 1 .. 3, {Full, Half}),
    Schedule({"assignTitle", "updatePresentation", "updateSession"}, "accepted", 0, {1}, MCWindows),
    Schedule({"assignPresentation", "ACCEPTED", "REJECTED", "abort"}, "submitted", 1, {1}, {Full}),
    \* sessions and their speakers
    Schedule({"createSession"}, "empty", 0, {}, {Full, Half}),
    Schedule({"updateSession", "publishSession"}, "accepted", 0, {1}, {Full, Half}),
    Schedule({"assignSpeakers", "removeSpeaker"}, "accepted", 0, {1}, {}),
    Schedule({"assignSpeakers", "preventSpeakerOverlap"}, "accepted", 0, {1}, {}),
    Schedule({"assignSpeakers"}, "accepted", 0, {1, 2}, {})}
=============================================================================
