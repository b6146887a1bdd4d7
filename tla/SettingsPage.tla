-------------------------------- MODULE SettingsPage --------------------------------
(***************************************************************************)
(* The settings page: ConferenceSettingsForm within the page's             *)
(* AsyncBoundary, and ConferenceSettingsService.upsert behind it.          *)
(***************************************************************************)
EXTENDS SetupTables

(* closed: the boundary shows that the settings are loading or failed to.  *)
(* view: the summary card, which shows saved.  edit: the form.  entered is *)
(* what the card showed when the form was opened and what was typed since. *)
PageType == [at : {"closed", "view", "edit"}, form : [Cols -> Nat], saved : [Cols -> Nat],
             entered : [Cols -> Nat], busy : BOOLEAN]

ClosedPage == [at |-> "closed", form |-> Blank, saved |-> Blank, entered |-> Blank, busy |-> FALSE]

PageInit == page = [t \in FormTabs |-> ClosedPage]

ElsewhereFromPage == UNCHANGED <<scenario, status, visited, loaded, panel>>

-----------------------------------------------------------------------------
(* toIsoStartDate and toIsoEndDate take the first and the last instant of a*)
(* day where the browser is.                                               *)
Instant(t, c, day) ==
    IF c[1] = "opens" THEN 4 * day + 1 - Zone[t] ELSE 4 * day + 4 - Zone[t]

(* Mutant: an empty date is taken for a day.                               *)
WrittenWithEmpty(t, values) ==
    [c \in Cols |-> IF c[1] = "enabled" THEN values[c] ELSE Instant(t, c, values[c])]

(* toPrismaData: an empty date is not part of the body, and what is not in *)
(* the body is not written.                                                *)
Written(t, values) ==
    [c \in Cols |-> IF c[1] = "enabled" THEN values[c]
                    ELSE IF values[c] = 0 THEN settings.cols[c]
                    ELSE Instant(t, c, values[c])]

(* toFormValues takes the day where Greenwich is.                          *)
FormOf(row) == [c \in Cols |-> IF c[1] = "enabled" THEN row.cols[c] ELSE row.cols[c] \div 4]

(* The calendar of the model has no other days.                            *)
InCalendar(t, values) ==
    \A c \in Cols : c[1] # "enabled" /\ values[c] # 0 =>
                        Instant(t, c, values[c]) \div 4 \in 1 .. MaxDay

-----------------------------------------------------------------------------
(* handleEdit.  The effect that keeps the summary synchronized runs after  *)
(* it, and after every other change of isEditing.                          *)
Edit(t) ==
    /\ Called("edit") /\ page[t].at = "view"
    /\ page' = [page EXCEPT ![t] = [at |-> "edit", form |-> page[t].saved, saved |-> FormOf(cache[t]),
                                    entered |-> page[t].saved, busy |-> FALSE]]
    /\ UNCHANGED <<settings, req, fetch, cache>>
    /\ ElsewhereFromPage

(* The inputs stay enabled while the form is being sent.                   *)
Type(t, c, v) ==
    /\ page[t].at = "edit"
    /\ v \in IF c[1] = "enabled" THEN 0 .. 1 ELSE 0 .. MaxDay
    /\ Cardinality({d \in Cols \ {c} : page[t].form[d] # page[t].saved[d]}) < MaxTyped
    /\ page' = [page EXCEPT ![t].form[c] = v, ![t].entered[c] = v]
    /\ UNCHANGED <<settings, req, fetch, cache>>
    /\ ElsewhereFromPage

(* handleCancel, which is not disabled while the form is being sent: reset *)
(* makes it a form that is not being sent.                                 *)
Cancel(t) ==
    /\ page[t].at = "edit"
    /\ page' = [page EXCEPT ![t] = [at |-> "view", form |-> FormOf(cache[t]), saved |-> FormOf(cache[t]),
                                    entered |-> Blank, busy |-> FALSE]]
    /\ UNCHANGED <<settings, req, fetch, cache>>
    /\ ElsewhereFromPage

Submit(t, p) ==
    /\ page[t].at = "edit" /\ ~page[t].busy
    /\ MayWrite /\ InCalendar(t, page[t].form)
    /\ Begin(p, [Idle EXCEPT !.at = "upsert", !.tab = t, !.mounted = TRUE, !.values = page[t].form])
    /\ page' = [page EXCEPT ![t].busy = TRUE]
    /\ UNCHANGED <<settings, fetch, cache>>
    /\ ElsewhereFromPage

Upsert(p) ==
    /\ req[p].at = "upsert"
    /\ settings' = [exists |-> TRUE, cols |-> Written(req[p].tab, req[p].values),
                    template |-> settings.template, updated |-> settings.updated + 1]
    /\ req' = [req EXCEPT ![p].at = "upserted", ![p].wrote = settings.updated + 1]
    /\ UNCHANGED <<fetch, cache, page>>
    /\ ElsewhereFromPage

(* onSuccess of the mutation, whether the form is still there or not.      *)
AnswerSave(p) ==
    /\ req[p].at = "upserted"
    /\ Refetch(p)
    /\ UNCHANGED <<settings, cache, page>>
    /\ ElsewhereFromPage

(* The request fails before or after the write, or its answer is lost.     *)
SaveFails(p) ==
    /\ Called("abort") /\ req[p].at \in {"upsert", "upserted"}
    /\ page' = [t \in FormTabs |-> IF t = req[p].tab /\ req[p].mounted
                                   THEN [page[t] EXCEPT !.busy = FALSE] ELSE page[t]]
    /\ Respond(p)
    /\ UNCHANGED <<settings, fetch, cache>>
    /\ ElsewhereFromPage

-----------------------------------------------------------------------------
(* The values of the saves that wait for the settings, on a form that is   *)
(* still there.                                                            *)
Saving(t) == {req[p].values : p \in {q \in Waiting(t) : req[q].mounted}}

(* Mutant: the effect resets the form whether it is being edited or not.   *)
RenderedResets(t, row, kept) ==
    LET closing == Saving(t) # {}
        effect == row # cache[t] \/ (closing /\ page[t].at = "edit")
    IN  [at      |-> IF closing THEN "view" ELSE page[t].at,
         form    |-> IF effect THEN FormOf(row) ELSE IF closing THEN Blank ELSE page[t].form,
         saved   |-> IF effect THEN FormOf(row)
                     ELSE IF closing THEN kept ELSE page[t].saved,
         entered |-> IF closing THEN Blank ELSE page[t].entered,
         busy    |-> page[t].busy /\ ~closing]

(* What a page becomes when its settings are row.  If there are saves that *)
(* waited for it, onSubmit goes on first, keeps the values for the summary *)
(* (kept, those of the save that is answered last), clears the form and    *)
(* closes it.  The effect runs if that changed isEditing, or if the row is *)
(* another.                                                                *)
Rendered(t, row, kept) ==
    LET closing == Saving(t) # {}
        effect == row # cache[t] \/ (closing /\ page[t].at = "edit")
        at == IF closing THEN "view" ELSE page[t].at
    IN  [at      |-> at,
         form    |-> IF effect /\ at = "view" THEN FormOf(row)
                     ELSE IF closing THEN Blank ELSE page[t].form,
         saved   |-> IF effect THEN FormOf(row)
                     ELSE IF closing THEN kept ELSE page[t].saved,
         entered |-> IF closing THEN Blank ELSE page[t].entered,
         busy    |-> page[t].busy /\ ~closing]

(* The boundary takes the form away when a fetch fails, and shows another  *)
(* one, as a summary, when a later fetch succeeds.                         *)
ShownAfter(t, row, kept) ==
    IF page[t].at = "closed"
    THEN [ClosedPage EXCEPT !.at = "view", !.form = FormOf(row), !.saved = FormOf(row)]
    ELSE Rendered(t, row, kept)

PageNext ==
    \/ \E t \in FormTabs :
          \/ Edit(t) \/ Cancel(t)
          \/ \E c \in Cols, v \in 0 .. MaxDay : Type(t, c, v)
          \/ \E p \in Requests : Submit(t, p)
    \/ \E p \in Requests : Upsert(p) \/ AnswerSave(p) \/ SaveFails(p)

-----------------------------------------------------------------------------
(* Properties.                                                             *)

(* Whatever is fetched, saved by others or answered late while somebody    *)
(* edits the settings, the open form shows what the summary showed when it *)
(* was opened, changed by what was typed and by nothing else.              *)
FormKeepsEntered == \A t \in FormTabs : page[t].at = "edit" => page[t].form = page[t].entered
=============================================================================
