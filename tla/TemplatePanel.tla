-------------------------------- MODULE TemplatePanel --------------------------------
(***************************************************************************)
(* The template part of CertificateGenerationPanel, and                    *)
(* uploadCertificateTemplate and getCertificateTemplate behind it.         *)
(***************************************************************************)
EXTENDS SetupTables

(* selected: a file was chosen, whose own preview is shown.  preview: the  *)
(* template shown as the saved one, or 0.  load: the download of it, with  *)
(* the template that was found.  failed: the last load ended with an error.*)
PanelType == [selected : BOOLEAN, preview : Nat, load : {"none", "asked", "read"}, found : Nat,
              failed : BOOLEAN, uploading : BOOLEAN]

PanelInit ==
    panel = [t \in PanelTabs |-> [selected |-> FALSE, preview |-> 0, load |-> "none", found |-> 0,
                                  failed |-> FALSE, uploading |-> FALSE]]

ElsewhereFromPanel == UNCHANGED <<scenario, status, visited, loaded, page>>

(* The effect on whether there is a template, when it was set, and the file*)
(* that was chosen: a load under way is aborted, and another begun.        *)
Reloaded(shown, template) ==
    IF template = 0 \/ shown.selected
    THEN [shown EXCEPT !.preview = 0, !.load = "none", !.found = 0]
    ELSE [shown EXCEPT !.load = "asked", !.found = 0, !.failed = FALSE]

-----------------------------------------------------------------------------
(* handleFileChange, which is never disabled.                              *)
ChooseFile(t) ==
    /\ Called("template")
    /\ panel' = [panel EXCEPT ![t] = Reloaded([@ EXCEPT !.selected = TRUE], cache[t].template)]
    /\ UNCHANGED <<settings, req, fetch, cache>>
    /\ ElsewhereFromPanel

(* A file of another type, or one that is too large.                       *)
ChooseWrongFile(t) ==
    /\ panel[t].selected
    /\ panel' = [panel EXCEPT ![t] = Reloaded([@ EXCEPT !.selected = FALSE], cache[t].template)]
    /\ UNCHANGED <<settings, req, fetch, cache>>
    /\ ElsewhereFromPanel

(* handleTemplateUpload, until the file is stored.                         *)
Upload(t, p) ==
    /\ panel[t].selected /\ ~panel[t].uploading /\ MayWrite
    /\ Begin(p, [Idle EXCEPT !.at = "setTemplate", !.tab = t, !.mounted = TRUE])
    /\ panel' = [panel EXCEPT ![t].uploading = TRUE]
    /\ UNCHANGED <<settings, fetch, cache>>
    /\ ElsewhereFromPanel

SetTemplate(p) ==
    /\ req[p].at = "setTemplate"
    /\ settings' = [settings EXCEPT !.exists = TRUE, !.template = @ + 1, !.updated = @ + 1]
    /\ req' = [req EXCEPT ![p].at = "templateSet", ![p].wrote = settings.updated + 1]
    /\ UNCHANGED <<fetch, cache, panel>>
    /\ ElsewhereFromPanel

(* The chosen file is cleared, whichever it is by now.                     *)
AnswerUpload(p) ==
    /\ req[p].at = "templateSet"
    /\ panel' = [t \in PanelTabs |->
                    IF t = req[p].tab /\ panel[t].selected
                    THEN Reloaded([panel[t] EXCEPT !.selected = FALSE], cache[t].template)
                    ELSE panel[t]]
    /\ Refetch(p)
    /\ UNCHANGED <<settings, cache>>
    /\ ElsewhereFromPanel

UploadFails(p) ==
    /\ Called("abort") /\ req[p].at \in {"setTemplate", "templateSet"}
    /\ panel' = [t \in PanelTabs |-> IF t = req[p].tab THEN [panel[t] EXCEPT !.uploading = FALSE]
                                     ELSE panel[t]]
    /\ Respond(p)
    /\ UNCHANGED <<settings, fetch, cache>>
    /\ ElsewhereFromPanel

-----------------------------------------------------------------------------
(* getCertificateTemplate reads the row and then downloads the file it     *)
(* names, which never changes.                                             *)
ReadTemplate(t) ==
    /\ panel[t].load = "asked" /\ settings.template # 0
    /\ panel' = [panel EXCEPT ![t].load = "read", ![t].found = settings.template]
    /\ UNCHANGED <<settings, req, fetch, cache>>
    /\ ElsewhereFromPanel

ShowTemplate(t) ==
    /\ panel[t].load = "read"
    /\ panel' = [panel EXCEPT ![t].load = "none", ![t].preview = panel[t].found, ![t].found = 0]
    /\ UNCHANGED <<settings, req, fetch, cache>>
    /\ ElsewhereFromPanel

LoadFails(t) ==
    /\ Called("abort") /\ panel[t].load # "none"
    /\ panel' = [panel EXCEPT ![t].load = "none", ![t].found = 0, ![t].failed = TRUE]
    /\ UNCHANGED <<settings, req, fetch, cache>>
    /\ ElsewhereFromPanel

-----------------------------------------------------------------------------
(* Mutant: the effect does not depend on when the template was set.        *)
PanelWithoutDate(t, row) ==
    LET shown == [panel[t] EXCEPT !.uploading = @ /\ Waiting(t) = {}] IN
    IF (row.template = 0) = (cache[t].template = 0) THEN shown ELSE Reloaded(shown, row.template)

(* What the panel becomes when its settings are row: the upload that waited*)
(* for them ends.                                                          *)
PanelAfter(t, row) ==
    LET shown == [panel[t] EXCEPT !.uploading = @ /\ Waiting(t) = {}] IN
    IF row.template = cache[t].template THEN shown ELSE Reloaded(shown, row.template)

PanelNext ==
    \/ \E t \in PanelTabs :
          \/ ChooseFile(t) \/ ChooseWrongFile(t)
          \/ \E p \in Requests : Upload(t, p)
          \/ ReadTemplate(t) \/ ShowTemplate(t) \/ LoadFails(t)
    \/ \E p \in Requests : SetTemplate(p) \/ AnswerUpload(p) \/ UploadFails(p)

-----------------------------------------------------------------------------
(* Properties.                                                             *)

(* However uploads, choices of files, loads and fetches overlap, also those*)
(* of other tabs: a panel at rest that knows of a template shows that one, *)
(* or one that was set after it.                                           *)
PreviewFollowsTemplate ==
    \A t \in PanelTabs :
        panel[t].load = "none" /\ ~panel[t].failed /\ ~panel[t].selected /\ cache[t].template # 0
            => panel[t].preview >= cache[t].template
=============================================================================
