-------------------------------- MODULE Conferences --------------------------------
(***************************************************************************)
(* ConferencesService.  changeStatus and publish read the conference first *)
(* and write its status later, by the row's id alone.                      *)
(***************************************************************************)
EXTENDS SetupTables

(* create: a conference begins as a DRAFT, without a row of settings.      *)
ConferencesInit == status = "DRAFT" /\ visited = {"DRAFT"}

ElsewhereFromConferences == UNCHANGED <<scenario, settings, fetch, cache, loaded, page, panel>>

(* Mutant: registration may be opened without a review.                    *)
TransitionsWithShortcut ==
    {<<"DRAFT", "OPEN">>, <<"DRAFT", "ARCHIVED">>, <<"OPEN", "REVIEW">>, <<"OPEN", "REGISTRATION">>,
     <<"REVIEW", "REGISTRATION">>, <<"REGISTRATION", "ONGOING">>, <<"ONGOING", "COMPLETED">>,
     <<"COMPLETED", "ARCHIVED">>}

AllowedTransitions ==
    {<<"DRAFT", "OPEN">>, <<"DRAFT", "ARCHIVED">>, <<"OPEN", "REVIEW">>, <<"REVIEW", "REGISTRATION">>,
     <<"REGISTRATION", "ONGOING">>, <<"ONGOING", "COMPLETED">>, <<"COMPLETED", "ARCHIVED">>}

(* changeStatus looks at the table, and not at the settings.               *)
ChangeStatus(p, to) ==
    /\ Called("changeStatus")
    /\ <<status, to>> \in AllowedTransitions
    /\ Begin(p, [Idle EXCEPT !.at = "setStatus", !.to = to])
    /\ UNCHANGED <<status, visited>>
    /\ ElsewhereFromConferences

(* A module that is switched on needs a window that closes after it opens. *)
Ready(row) ==
    /\ row.exists
    /\ \A m \in Modules :
          row.cols[<<"enabled", m>>] = 1 =>
              /\ row.cols[<<"opens", m>>] # 0 /\ row.cols[<<"closes", m>>] # 0
              /\ row.cols[<<"opens", m>>] < row.cols[<<"closes", m>>]

(* publish reads the conference together with its settings.                *)
Publish(p) ==
    /\ Called("publish")
    /\ <<status, "OPEN">> \in AllowedTransitions
    /\ Ready(settings)
    /\ Begin(p, [Idle EXCEPT !.at = "setStatus", !.to = "OPEN"])
    /\ UNCHANGED <<status, visited>>
    /\ ElsewhereFromConferences

SetStatus(p) ==
    /\ req[p].at = "setStatus"
    /\ status' = req[p].to /\ visited' = visited \cup {req[p].to}
    /\ Respond(p)
    /\ ElsewhereFromConferences

ConferencesNext ==
    \E p \in Requests :
        \/ \E to \in Statuses : ChangeStatus(p, to)
        \/ Publish(p)
        \/ SetStatus(p)

-----------------------------------------------------------------------------
(* Properties.                                                             *)

(* A status is tested when it is read and may be another when the new one  *)
(* is written, so that a conference can go back, and even leave ARCHIVED.  *)
(* But however requests overlap, no conference gets to a stage without     *)
(* having been in a stage that comes right before it.                      *)
StagesInOrder ==
    \A s \in visited \ {"DRAFT"} :
        \E r \in visited : <<r, s>> \in
            {<<"DRAFT", "OPEN">>, <<"DRAFT", "ARCHIVED">>, <<"OPEN", "REVIEW">>,
             <<"REVIEW", "REGISTRATION">>, <<"REGISTRATION", "ONGOING">>,
             <<"ONGOING", "COMPLETED">>, <<"COMPLETED", "ARCHIVED">>}
=============================================================================
