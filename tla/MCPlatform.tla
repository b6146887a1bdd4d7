-------------------------------- MODULE MCPlatform --------------------------------
(* Instances for TLC: two requests at a time, two worker processes, and    *)
(* scenarios that bring together the calls that meet.                      *)
EXTENDS Platform

MCEmails == {"ada", "bob"}
MCJobType == <<"EXPORT", "AUTHORS", "AUTHORS", "REVIEWERS">>
MCJobRows == <<<<>>, <<"ada", "ada">>, <<"bob", "ada">>, <<"ada", "bob">>>>
MCTargetOf == <<"assignment", "participant", "participant">>

Scenario(calls, registered, orgs, js, ws, n) ==
    [calls |-> calls, requests |-> Requests, registered |-> registered,
     organizations |-> orgs, jobs |-> js, workers |-> ws, sessions |-> n]

Account(calls, registered, orgs) ==
    Scenario(calls, registered, orgs, {}, {}, IF "confirm" \in calls THEN 2 ELSE 4)
Job(calls, js, ws) == Scenario(calls, {}, {}, js, ws, 0)
Other(calls) == Scenario(calls, {}, {}, {}, {}, 0)
Alone(calls) == [Other(calls) EXCEPT !.requests = {CHOOSE p \in Requests : TRUE}]

MCScenarios == {
    \* one browser
    Account({"login", "proxy", "logout"}, {"u1"}, {}),
    Account({"login", "proxy", "refresh", "logout", "cookieDomain"}, {"u1"}, {}),
    Account({"login", "proxy", "refresh", "abort"}, {"u1"}, {}),
    Account({"login", "proxy", "revokeSession", "sessionExpires"}, {"u1"}, {}),
    Account({"login", "passwordReset", "confirm"}, {"u1"}, {}),
    \* invitations
    Account({"inviteMember", "confirm", "abort"}, {}, {"o1", "o2"}),
    Account({"inviteMember", "confirm", "updateMembership"}, {"u1"}, {"o1"}),
    Account({"createOrganization", "register", "confirm", "tokenExpires"}, {}, {}),
    \* jobs
    Job({"crash", "stall", "storageFails", "poll"}, {1}, {1, 2}),
    Job({"crash", "poll", "fetchFails"}, {2, 3}, {1}),
    Job({"crash", "stall"}, {2, 3}, {1, 2}),
    Job({"stall", "storageFails", "invalidRow"}, {4}, {1, 2}),
    \* reminders
    Other({"remind", "mail", "crash"}),
    Other({"remind", "clearMine", "abort", "noTemplate"}),
    \* tracks
    Other({"createTrack", "reorderTracks"}),
    Other({"createTrack", "reorderTracks", "abort"}),
    Alone({"createTrack", "reorderTracks", "repeatTracks"}),
    Alone({"createTrack", "reorderTracks", "repeatTracks", "abort"})}
=============================================================================
