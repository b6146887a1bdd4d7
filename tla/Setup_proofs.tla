------------------------------ MODULE Setup_proofs ------------------------------
(***************************************************************************)
(* Proofs about the setup of a conference, for any tabs, time zones and    *)
(* requests.                                                               *)
(***************************************************************************)
EXTENDS Setup, TLAPS

(* The settings page saves from its own tabs.                              *)
SavesOK == \A p \in Requests : req[p].at \in {"upsert", "upserted"} => req[p].tab \in FormTabs

-----------------------------------------------------------------------------
(* Types.                                                                  *)

(* A form shows switches and days, whatever instants a row holds.          *)
LEMMA FormType ==
  ASSUME NEW row \in SettingsType
  PROVE  FormOf(row) \in [Cols -> Nat]
  <1>1. ASSUME NEW c \in Cols
        PROVE  (IF c[1] = "enabled" THEN row.cols[c] ELSE row.cols[c] \div 4) \in Nat
    <2>1. row.cols[c] \in Nat
      BY DEF SettingsType
    <2>2. row.cols[c] \div 4 \in Nat
      BY <2>1
    <2> QED
      BY <2>1, <2>2
  <1> QED
    BY <1>1 DEF FormOf

LEMMA BlankType == Blank \in [Cols -> Nat]
  BY DEF Blank

LEMMA NoSettingsType == NoSettings \in SettingsType
  BY BlankType DEF NoSettings, SettingsType

LEMMA IdleType == Idle \in RequestType
  BY BlankType DEF Idle, RequestType, Steps, Statuses

(* What an upsert writes are switches and instants.                        *)
LEMMA WrittenType ==
  ASSUME settings \in SettingsType, NEW t \in FormTabs, NEW values \in [Cols -> Nat]
  PROVE  Written(t, values) \in [Cols -> Nat]
  <1>1. ASSUME NEW c \in Cols
        PROVE  Written(t, values)[c] \in Nat
    <2>1. values[c] \in Nat /\ settings.cols[c] \in Nat
      BY DEF SettingsType
    <2>2. Zone[t] \in 0 .. 2
      BY SetupAssumption
    <2>3. values[c] # 0 => Instant(t, c, values[c]) \in Nat
      BY <2>1, <2>2 DEF Instant
    <2> QED
      BY <2>1, <2>3 DEF Written
  <1> QED
    BY <1>1 DEF Written

(* A page stays a page when its settings arrive, and an open form keeps    *)
(* what was entered in it.                                                 *)
LEMMA RenderedPage ==
  ASSUME TypeOK, NEW t \in FormTabs, NEW row \in SettingsType, NEW kept \in [Cols -> Nat]
  PROVE  /\ Rendered(t, row, kept) \in PageType
         /\ FormKeepsEntered =>
              (Rendered(t, row, kept).at = "edit" =>
                 Rendered(t, row, kept).form = Rendered(t, row, kept).entered)
  <1> DEFINE closing == Saving(t) # {}
             effect == row # cache[t] \/ (closing /\ page[t].at = "edit")
             at == IF closing THEN "view" ELSE page[t].at
             saved == IF effect THEN FormOf(row) ELSE IF closing THEN kept ELSE page[t].saved
             form == IF effect /\ at = "view" THEN FormOf(row)
                     ELSE IF closing THEN Blank ELSE page[t].form
             entered == IF closing THEN Blank ELSE page[t].entered
             busy == page[t].busy /\ ~closing
  <1>1. page[t] \in PageType
    BY DEF TypeOK
  <1>4. /\ page[t].at \in {"closed", "view", "edit"} /\ page[t].busy \in BOOLEAN
        /\ page[t].form \in [Cols -> Nat] /\ page[t].saved \in [Cols -> Nat]
        /\ page[t].entered \in [Cols -> Nat]
    BY <1>1 DEF PageType
  <1>5. FormOf(row) \in [Cols -> Nat]
    BY FormType
  <1>6. at \in {"closed", "view", "edit"} /\ busy \in BOOLEAN
    BY <1>4
  <1>7. saved \in [Cols -> Nat] /\ form \in [Cols -> Nat] /\ entered \in [Cols -> Nat]
    BY <1>4, <1>5, BlankType
  <1>8. Rendered(t, row, kept) = [at |-> at, form |-> form, saved |-> saved, entered |-> entered,
                                   busy |-> busy]
    BY DEF Rendered
  <1>9. Rendered(t, row, kept) \in PageType
    <2> HIDE DEF at, form, saved, entered, busy
    <2> QED
      BY <1>6, <1>7, <1>8 DEF PageType
  <1>10. FormKeepsEntered /\ at = "edit" => form = entered
    BY DEF FormKeepsEntered
  <1> QED
    BY <1>8, <1>9, <1>10

(* The values of a save are those of a form.                               *)
LEMMA KeptType ==
  ASSUME TypeOK, NEW t \in Tabs, NEW kept \in IF Saving(t) = {} THEN {Blank} ELSE Saving(t)
  PROVE  kept \in [Cols -> Nat]
  <1>1. CASE Saving(t) = {}
    BY <1>1, BlankType
  <1>2. CASE Saving(t) # {}
    BY <1>2 DEF Saving, Waiting, TypeOK, RequestType
  <1> QED
    BY <1>1, <1>2

LEMMA ReloadedType ==
  ASSUME NEW shown \in PanelType, NEW template \in Nat
  PROVE  Reloaded(shown, template) \in PanelType
  BY DEF Reloaded, PanelType

LEMMA PanelAfterType ==
  ASSUME TypeOK, NEW t \in PanelTabs, NEW row \in SettingsType
  PROVE  PanelAfter(t, row) \in PanelType
  <1> DEFINE shown == [panel[t] EXCEPT !.uploading = @ /\ Waiting(t) = {}]
  <1>1. shown \in PanelType
    BY DEF TypeOK, PanelType
  <1>2. row.template \in Nat
    BY DEF SettingsType
  <1>3. Reloaded(shown, row.template) \in PanelType
    BY <1>1, <1>2, ReloadedType
  <1> QED
    BY <1>1, <1>3 DEF PanelAfter

(* A request that begins, ends or asks for a fetch.                        *)
LEMMA RequestSteps ==
  ASSUME TypeOK, SavesOK, NEW p \in Requests
  PROVE  /\ \A request \in RequestType :
              Begin(p, request) /\ (request.at \in {"upsert", "upserted"} => request.tab \in FormTabs)
                 => req' \in [Requests -> RequestType] /\ SavesOK'
         /\ Respond(p) => req' \in [Requests -> RequestType] /\ SavesOK'
         /\ Refetch(p) => /\ req' \in [Requests -> RequestType] /\ SavesOK'
                          /\ fetch' \in [Tabs -> FetchType]
  <1>1. ASSUME NEW request \in RequestType, Begin(p, request),
               request.at \in {"upsert", "upserted"} => request.tab \in FormTabs
        PROVE  req' \in [Requests -> RequestType] /\ SavesOK'
    BY <1>1 DEF Begin, TypeOK, SavesOK
  <1>2. ASSUME Respond(p)
        PROVE  req' \in [Requests -> RequestType] /\ SavesOK'
    BY <1>2, IdleType DEF Respond, TypeOK, SavesOK, Idle
  <1>3. ASSUME Refetch(p)
        PROVE  /\ req' \in [Requests -> RequestType] /\ SavesOK'
               /\ fetch' \in [Tabs -> FetchType]
    <2>1. ASSUME NEW q \in Requests
          PROVE  [req[q] EXCEPT !.at = "refetching"] \in RequestType
      BY DEF TypeOK, RequestType, Steps
    <2>2. req' \in [Requests -> RequestType]
      BY <1>3, <2>1 DEF Refetch, TypeOK
    <2>3. SavesOK'
      BY <1>3 DEF Refetch, TypeOK, RequestType, SavesOK
    <2>4. [at |-> "asked", row |-> NoSettings] \in FetchType
      BY NoSettingsType DEF FetchType
    <2>5. fetch' \in [Tabs -> FetchType]
      BY <1>3, <2>4 DEF Refetch, TypeOK
    <2> QED
      BY <2>2, <2>3, <2>5
  <1> QED
    BY <1>1, <1>2, <1>3

Typed == TypeOK /\ SavesOK

LEMMA ConferencesTyped ==
  ASSUME Typed, ConferencesNext
  PROVE  Typed'
  <1> USE DEF Typed
  <1>1. PICK p \in Requests :
           \/ \E to \in Statuses : ChangeStatus(p, to)
           \/ Publish(p)
           \/ SetStatus(p)
    BY DEF ConferencesNext
  <1>2. UNCHANGED <<settings, fetch, cache, loaded, page, panel>>
    BY <1>1 DEF ChangeStatus, Publish, SetStatus, ElsewhereFromConferences
  <1>3. ASSUME NEW to \in Statuses
        PROVE  [Idle EXCEPT !.at = "setStatus", !.to = to] \in RequestType
    BY IdleType DEF RequestType, Steps
  <1>4. ASSUME NEW to \in Statuses, ChangeStatus(p, to)
        PROVE  req' \in [Requests -> RequestType] /\ SavesOK'
    BY <1>3, <1>4, RequestSteps DEF ChangeStatus, Idle
  <1>5. ASSUME Publish(p)
        PROVE  req' \in [Requests -> RequestType] /\ SavesOK'
    BY <1>3, <1>5, RequestSteps DEF Publish, Idle, Statuses
  <1>6. ASSUME SetStatus(p)
        PROVE  /\ req' \in [Requests -> RequestType] /\ SavesOK'
               /\ status' \in Statuses /\ visited' \subseteq Statuses
    BY <1>6, RequestSteps DEF SetStatus, TypeOK, RequestType
  <1>7. req' \in [Requests -> RequestType] /\ SavesOK'
    BY <1>1, <1>4, <1>5, <1>6
  <1>8. status' \in Statuses /\ visited' \subseteq Statuses
    BY <1>1, <1>6 DEF ChangeStatus, Publish, TypeOK
  <1> QED
    BY <1>2, <1>7, <1>8 DEF TypeOK

LEMMA PageTyped ==
  ASSUME Typed, PageNext
  PROVE  Typed'
  <1> USE DEF Typed
  <1>1. UNCHANGED <<status, visited, panel, cache, loaded>>
    BY DEF PageNext, Edit, Cancel, Type, Submit, Upsert, AnswerSave, SaveFails,
           ElsewhereFromPage
  <1>2. ASSUME NEW t \in FormTabs
        PROVE  FormOf(cache[t]) \in [Cols -> Nat]
    BY FormType DEF TypeOK, Tabs
  <1>3. ASSUME NEW t \in FormTabs, Edit(t) \/ Cancel(t)
        PROVE  Typed'
    <2>1. page[t].saved \in [Cols -> Nat]
      BY DEF TypeOK, PageType
    <2>2. \A new \in PageType :
             page' = [page EXCEPT ![t] = new] => page' \in [FormTabs -> PageType]
      BY DEF TypeOK
    <2>3. [at |-> "edit", form |-> page[t].saved, saved |-> FormOf(cache[t]),
           entered |-> page[t].saved, busy |-> FALSE] \in PageType
      BY <1>2, <2>1 DEF PageType
    <2>4. [at |-> "view", form |-> FormOf(cache[t]), saved |-> FormOf(cache[t]),
           entered |-> Blank, busy |-> FALSE] \in PageType
      BY <1>2, BlankType DEF PageType
    <2>5. page' \in [FormTabs -> PageType]
      BY <1>3, <2>2, <2>3, <2>4 DEF Edit, Cancel
    <2>6. UNCHANGED <<settings, req, fetch>>
      BY <1>3 DEF Edit, Cancel
    <2> QED
      BY <1>1, <2>5, <2>6 DEF TypeOK, SavesOK
  <1>4. ASSUME NEW t \in FormTabs, NEW c \in Cols, NEW v \in 0 .. MaxDay, Type(t, c, v)
        PROVE  Typed'
    <2>1. v \in Nat
      BY SetupAssumption
    <2>2. page[t] \in PageType
      BY DEF TypeOK
    <2>3. /\ [page[t].form EXCEPT ![c] = v] \in [Cols -> Nat]
          /\ [page[t].entered EXCEPT ![c] = v] \in [Cols -> Nat]
      BY <2>1, <2>2 DEF PageType
    <2>4. [page[t] EXCEPT !.form = [page[t].form EXCEPT ![c] = v],
                          !.entered = [page[t].entered EXCEPT ![c] = v]] \in PageType
      BY <2>2, <2>3 DEF PageType
    <2>5. page' = [page EXCEPT ![t] = [page[t] EXCEPT !.form = [page[t].form EXCEPT ![c] = v],
                                           !.entered = [page[t].entered EXCEPT ![c] = v]]]
      BY <1>4, <2>2 DEF Type, TypeOK, PageType
    <2>6. page' \in [FormTabs -> PageType]
      BY <2>4, <2>5 DEF TypeOK
    <2>7. UNCHANGED <<settings, req, fetch>>
      BY <1>4 DEF Type
    <2> QED
      BY <1>1, <2>6, <2>7 DEF TypeOK, SavesOK
  <1>5. ASSUME NEW t \in FormTabs, NEW p \in Requests, Submit(t, p)
        PROVE  Typed'
    <2> DEFINE request == [Idle EXCEPT !.at = "upsert", !.tab = t, !.mounted = TRUE,
                                       !.values = page[t].form]
    <2>1. page[t].form \in [Cols -> Nat]
      BY DEF TypeOK, PageType
    <2>2. request \in RequestType /\ request.tab \in FormTabs
      BY <2>1, IdleType DEF RequestType, Steps, Tabs, Idle
    <2>3. Begin(p, request)
      BY <1>5 DEF Submit
    <2>4. req' \in [Requests -> RequestType] /\ SavesOK'
      BY <2>2, <2>3, RequestSteps
    <2>5. page' \in [FormTabs -> PageType]
      BY <1>5 DEF Submit, TypeOK, PageType
    <2>6. UNCHANGED <<settings, fetch>>
      BY <1>5 DEF Submit
    <2> QED
      BY <1>1, <2>4, <2>5, <2>6 DEF TypeOK
  <1>6. ASSUME NEW p \in Requests, Upsert(p)
        PROVE  Typed'
    <2>1. req[p].tab \in FormTabs /\ req[p].values \in [Cols -> Nat]
      BY <1>6 DEF Upsert, SavesOK, TypeOK, RequestType
    <2>2. Written(req[p].tab, req[p].values) \in [Cols -> Nat]
      BY <2>1, WrittenType DEF TypeOK
    <2>3. settings' \in SettingsType
      BY <1>6, <2>2 DEF Upsert, TypeOK, SettingsType
    <2>4. req' \in [Requests -> RequestType] /\ SavesOK'
      <3>1. settings.updated + 1 \in Nat
        BY DEF TypeOK, SettingsType
      <3> QED
        BY <1>6, <2>1, <3>1 DEF Upsert, TypeOK, RequestType, Steps, SavesOK
    <2>5. UNCHANGED <<fetch, page>>
      BY <1>6 DEF Upsert
    <2> QED
      BY <1>1, <2>3, <2>4, <2>5 DEF TypeOK
  <1>7. ASSUME NEW p \in Requests, AnswerSave(p)
        PROVE  Typed'
    BY <1>1, <1>7, RequestSteps DEF AnswerSave, TypeOK
  <1>8. ASSUME NEW p \in Requests, SaveFails(p)
        PROVE  Typed'
    <2>1. page' \in [FormTabs -> PageType]
      BY <1>8 DEF SaveFails, TypeOK, PageType
    <2>2. Respond(p) /\ UNCHANGED <<settings, fetch>>
      BY <1>8 DEF SaveFails
    <2> QED
      BY <1>1, <2>1, <2>2, RequestSteps DEF TypeOK
  <1> QED
    BY <1>3, <1>4, <1>5, <1>6, <1>7, <1>8 DEF PageNext

LEMMA PanelTyped ==
  ASSUME Typed, PanelNext
  PROVE  Typed'
  <1> USE DEF Typed
  <1>1. UNCHANGED <<status, visited, page, cache, loaded>>
    BY DEF PanelNext, ChooseFile, ChooseWrongFile, Upload, ReadTemplate, ShowTemplate, LoadFails,
           SetTemplate, AnswerUpload, UploadFails, ElsewhereFromPanel
  <1>2. ASSUME NEW t \in PanelTabs, NEW selected \in BOOLEAN
        PROVE  Reloaded([panel[t] EXCEPT !.selected = selected], cache[t].template) \in PanelType
    <2>1. [panel[t] EXCEPT !.selected = selected] \in PanelType
      BY DEF TypeOK, PanelType
    <2>2. cache[t].template \in Nat
      BY DEF TypeOK, Tabs, SettingsType
    <2> QED
      BY <2>1, <2>2, ReloadedType
  <1>3. ASSUME NEW t \in PanelTabs, ChooseFile(t) \/ ChooseWrongFile(t)
        PROVE  Typed'
    <2>1. panel' \in [PanelTabs -> PanelType]
      BY <1>2, <1>3 DEF ChooseFile, ChooseWrongFile, TypeOK
    <2>2. UNCHANGED <<settings, req, fetch>>
      BY <1>3 DEF ChooseFile, ChooseWrongFile
    <2> QED
      BY <1>1, <2>1, <2>2 DEF TypeOK, SavesOK
  <1>4. ASSUME NEW t \in PanelTabs, ReadTemplate(t) \/ ShowTemplate(t) \/ LoadFails(t)
        PROVE  Typed'
    <2>1. settings.template \in Nat
      BY DEF TypeOK, SettingsType
    <2>2. panel' \in [PanelTabs -> PanelType]
      BY <1>4, <2>1 DEF ReadTemplate, ShowTemplate, LoadFails, TypeOK, PanelType
    <2>3. UNCHANGED <<settings, req, fetch>>
      BY <1>4 DEF ReadTemplate, ShowTemplate, LoadFails
    <2> QED
      BY <1>1, <2>2, <2>3 DEF TypeOK, SavesOK
  <1>5. ASSUME NEW t \in PanelTabs, NEW p \in Requests, Upload(t, p)
        PROVE  Typed'
    <2> DEFINE request == [Idle EXCEPT !.at = "setTemplate", !.tab = t, !.mounted = TRUE]
    <2>1. request \in RequestType /\ request.at = "setTemplate"
      BY IdleType DEF RequestType, Steps, Tabs, Idle
    <2>2. Begin(p, request)
      BY <1>5 DEF Upload
    <2>3. req' \in [Requests -> RequestType] /\ SavesOK'
      BY <2>1, <2>2, RequestSteps
    <2>4. panel' \in [PanelTabs -> PanelType]
      BY <1>5 DEF Upload, TypeOK, PanelType
    <2>5. UNCHANGED <<settings, fetch>>
      BY <1>5 DEF Upload
    <2> QED
      BY <1>1, <2>3, <2>4, <2>5 DEF TypeOK
  <1>6. ASSUME NEW p \in Requests, SetTemplate(p)
        PROVE  Typed'
    <2>1. settings' \in SettingsType
      <3>1. settings \in SettingsType
        BY DEF TypeOK
      <3>2. settings.template + 1 \in Nat /\ settings.updated + 1 \in Nat
        BY <3>1 DEF SettingsType
      <3>3. settings' = [settings EXCEPT !.exists = TRUE, !.template = settings.template + 1,
                                         !.updated = settings.updated + 1]
        BY <1>6 DEF SetTemplate
      <3> QED
        BY <3>1, <3>2, <3>3 DEF SettingsType
    <2>2. req' \in [Requests -> RequestType] /\ SavesOK'
      <3>1. settings.updated + 1 \in Nat
        BY DEF TypeOK, SettingsType
      <3> QED
        BY <1>6, <3>1 DEF SetTemplate, TypeOK, RequestType, Steps, SavesOK
    <2>3. UNCHANGED <<fetch, panel>>
      BY <1>6 DEF SetTemplate
    <2> QED
      BY <1>1, <2>1, <2>2, <2>3 DEF TypeOK
  <1>7. ASSUME NEW p \in Requests, AnswerUpload(p)
        PROVE  Typed'
    <2>1. panel' \in [PanelTabs -> PanelType]
      BY <1>2, <1>7 DEF AnswerUpload, TypeOK
    <2>2. Refetch(p) /\ UNCHANGED settings
      BY <1>7 DEF AnswerUpload
    <2> QED
      BY <1>1, <2>1, <2>2, RequestSteps DEF TypeOK
  <1>8. ASSUME NEW p \in Requests, UploadFails(p)
        PROVE  Typed'
    <2>1. panel' \in [PanelTabs -> PanelType]
      BY <1>8 DEF UploadFails, TypeOK, PanelType
    <2>2. Respond(p) /\ UNCHANGED <<settings, fetch>>
      BY <1>8 DEF UploadFails
    <2> QED
      BY <1>1, <2>1, <2>2, RequestSteps DEF TypeOK
  <1> QED
    BY <1>3, <1>4, <1>5, <1>6, <1>7, <1>8 DEF PanelNext

FetchNext == \E t \in Tabs : StartFetch(t) \/ ReadRow(t) \/ Deliver(t) \/ FetchFails(t)

LEMMA FetchTyped ==
  ASSUME Typed, FetchNext
  PROVE  Typed'
  <1> USE DEF Typed
  <1>1. UNCHANGED <<status, visited, settings>>
    BY DEF FetchNext, StartFetch, ReadRow, Deliver, FetchFails, ElsewhereFromFetches
  <1>2. NoFetch \in FetchType
    BY NoSettingsType DEF NoFetch, FetchType
  <1>3. ASSUME NEW t \in Tabs, StartFetch(t) \/ ReadRow(t)
        PROVE  Typed'
    <2>1. fetch' \in [Tabs -> FetchType]
      BY <1>3 DEF StartFetch, ReadRow, TypeOK, FetchType
    <2>2. UNCHANGED <<req, cache, loaded, page, panel>>
      BY <1>3 DEF StartFetch, ReadRow
    <2> QED
      BY <1>1, <2>1, <2>2 DEF TypeOK, SavesOK
  <1>4. ASSUME NEW t \in Tabs, Deliver(t)
        PROVE  Typed'
    <2>1. fetch[t].row \in SettingsType
      BY DEF TypeOK, FetchType
    <2>2. /\ cache' \in [Tabs -> SettingsType] /\ fetch' \in [Tabs -> FetchType]
          /\ loaded' \subseteq Tabs
      BY <1>2, <1>4, <2>1 DEF Deliver, TypeOK
    <2>3. req' \in [Requests -> RequestType] /\ SavesOK'
      BY <1>4, IdleType DEF Deliver, TypeOK, SavesOK, Idle
    <2>3a. PICK kept \in IF Saving(t) = {} THEN {Blank} ELSE Saving(t) :
              page' = [u \in FormTabs |-> IF u = t THEN ShownAfter(t, fetch[t].row, kept) ELSE page[u]]
      BY <1>4 DEF Deliver
    <2>3b. kept \in [Cols -> Nat]
      BY <2>3a, KeptType
    <2>4. ASSUME NEW u \in FormTabs, u = t
          PROVE  ShownAfter(u, fetch[u].row, kept) \in PageType
      <3>1. FormOf(fetch[t].row) \in [Cols -> Nat]
        BY <2>1, FormType
      <3>2. Rendered(u, fetch[u].row, kept) \in PageType
        BY <2>1, <2>3b, <2>4, RenderedPage
      <3> QED
        BY <2>4, <3>1, <3>2, BlankType DEF ShownAfter, ClosedPage, PageType
    <2>5. page' \in [FormTabs -> PageType]
      BY <2>3a, <2>4 DEF TypeOK
    <2>6. ASSUME NEW u \in PanelTabs, u = t
          PROVE  PanelAfter(u, fetch[u].row) \in PanelType
      BY <2>1, <2>6, PanelAfterType
    <2>7. panel' \in [PanelTabs -> PanelType]
      BY <1>4, <2>6 DEF Deliver, TypeOK
    <2> QED
      BY <1>1, <2>2, <2>3, <2>5, <2>7 DEF TypeOK
  <1>5. ASSUME NEW t \in Tabs, FetchFails(t)
        PROVE  Typed'
    <2>1. fetch' \in [Tabs -> FetchType]
      BY <1>2, <1>5 DEF FetchFails, TypeOK
    <2>2. page' \in [FormTabs -> PageType]
      BY <1>5, BlankType DEF FetchFails, TypeOK, ClosedPage, PageType
    <2>3. panel' \in [PanelTabs -> PanelType]
      BY <1>5 DEF FetchFails, TypeOK, PanelType
    <2>4. req' \in [Requests -> RequestType] /\ SavesOK'
      <3>1. ASSUME NEW p \in Requests
            PROVE  [req[p] EXCEPT !.mounted = FALSE] \in RequestType
        BY DEF TypeOK, RequestType
      <3>2. req' \in [Requests -> RequestType]
        BY <1>5, <3>1, IdleType DEF FetchFails, TypeOK
      <3>3. ASSUME NEW p \in Requests
            PROVE  req'[p] = Idle \/ (req'[p].at = req[p].at /\ req'[p].tab = req[p].tab)
        <4>1. \/ req'[p] = Idle \/ req'[p] = req[p]
              \/ req'[p] = [req[p] EXCEPT !.mounted = FALSE]
          BY <1>5 DEF FetchFails
        <4>2. req[p] \in RequestType
          BY DEF TypeOK
        <4>3. /\ [req[p] EXCEPT !.mounted = FALSE].at = req[p].at
              /\ [req[p] EXCEPT !.mounted = FALSE].tab = req[p].tab
          BY <4>2 DEF RequestType
        <4>4. CASE req'[p] = [req[p] EXCEPT !.mounted = FALSE]
          BY <4>3, <4>4
        <4>5. CASE req'[p] = req[p]
          BY <4>5
        <4> QED
          BY <4>1, <4>4, <4>5
      <3> QED
        BY <3>2, <3>3 DEF SavesOK, Idle
    <2>5. UNCHANGED <<cache, loaded>>
      BY <1>5 DEF FetchFails
    <2> QED
      BY <1>1, <2>1, <2>2, <2>3, <2>4, <2>5 DEF TypeOK
  <1> QED
    BY <1>3, <1>4, <1>5 DEF FetchNext

(* Each kind of step leaves what is not its own alone.                     *)
LEMMA Kinds ==
  Next <=> ConferencesNext \/ PageNext \/ PanelNext \/ FetchNext
  BY DEF Next, FetchNext

LEMMA InitTyped == Init => Typed
  BY BlankType, NoSettingsType, IdleType
     DEF Init, Typed, TypeOK, SavesOK, ConferencesInit, PageInit, PanelInit, ClosedPage, PageType,
         PanelType, NoFetch, FetchType, Statuses, Idle

LEMMA TypedStep == Typed /\ [Next]_vars => Typed'
  <1>1. ASSUME Typed, UNCHANGED vars
        PROVE  Typed'
    BY <1>1 DEF Typed, TypeOK, SavesOK, vars
  <1> QED
    BY <1>1, Kinds, ConferencesTyped, PageTyped, PanelTyped, FetchTyped

(* The tables, the requests, the caches and the pages hold what they are   *)
(* meant to hold, in any time zone.                                        *)
THEOREM SetupTypeCorrect == Spec => []TypeOK
  <1>1. Spec => []Typed
    BY InitTyped, TypedStep, PTL DEF Spec
  <1>2. Typed => TypeOK
    BY DEF Typed
  <1> QED
    BY <1>1, <1>2, PTL

-----------------------------------------------------------------------------
(* The status of a conference.                                             *)

(* A request that is about to write a status read one that leads to it.    *)
StagesOK ==
    /\ status \in visited
    /\ \A p \in Requests : req[p].at = "setStatus" =>
          \E r \in visited : <<r, req[p].to>> \in AllowedTransitions
    /\ StagesInOrder

(* No step but those of the conference begins to write one.                *)
LEMMA OthersSetNoStatus ==
  ASSUME Typed, PageNext \/ PanelNext \/ FetchNext
  PROVE  /\ UNCHANGED <<status, visited>>
         /\ \A p \in Requests : req'[p].at = "setStatus" => req[p].at = "setStatus" /\ req'[p].to = req[p].to
  <1> USE DEF Typed
  <1>1. UNCHANGED <<status, visited>>
    BY DEF PageNext, Edit, Cancel, Type, Submit, Upsert, AnswerSave, SaveFails, ElsewhereFromPage,
           PanelNext, ChooseFile, ChooseWrongFile, Upload, ReadTemplate, ShowTemplate, LoadFails,
           SetTemplate, AnswerUpload, UploadFails, ElsewhereFromPanel,
           FetchNext, StartFetch, ReadRow, Deliver, FetchFails, ElsewhereFromFetches
  <1>2. req \in [Requests -> RequestType]
    BY DEF TypeOK
  <1> SUFFICES ASSUME NEW p \in Requests, req'[p].at = "setStatus"
               PROVE  req[p].at = "setStatus" /\ req'[p].to = req[p].to
    BY <1>1
  <1>3. ASSUME NEW q \in Requests, Refetch(q) \/ Respond(q)
        PROVE  req'[p] = req[p]
    <2>1. CASE Respond(q)
      BY <1>2, <2>1 DEF Respond, Idle
    <2>2. CASE Refetch(q)
      <3>1. [req[p] EXCEPT !.at = "refetching"].at = "refetching"
        BY <1>2 DEF RequestType
      <3>2. \/ req'[p] = req[p]
            \/ req'[p] = [req[p] EXCEPT !.at = "refetching"]
        BY <2>2 DEF Refetch
      <3> QED
        BY <3>1, <3>2
    <2> QED
      BY <1>3, <2>1, <2>2
  <1>4. CASE PageNext
    <2>1. ASSUME NEW t \in FormTabs, NEW q \in Requests, Submit(t, q)
          PROVE  req'[p] = req[p]
      BY <1>2, <2>1 DEF Submit, Begin, Idle, RequestType
    <2>2. ASSUME NEW q \in Requests, Upsert(q)
          PROVE  req'[p] = req[p]
      BY <1>2, <2>2 DEF Upsert, RequestType
    <2>3. ASSUME NEW q \in Requests, AnswerSave(q) \/ SaveFails(q)
          PROVE  req'[p] = req[p]
      BY <1>3, <2>3 DEF AnswerSave, SaveFails
    <2>4. ASSUME NEW t \in FormTabs,
                 Edit(t) \/ Cancel(t) \/ \E c \in Cols, v \in 0 .. MaxDay : Type(t, c, v)
          PROVE  req'[p] = req[p]
      BY <2>4 DEF Edit, Cancel, Type
    <2> QED
      BY <1>4, <2>1, <2>2, <2>3, <2>4 DEF PageNext
  <1>5. CASE PanelNext
    <2>1. ASSUME NEW t \in PanelTabs, NEW q \in Requests, Upload(t, q)
          PROVE  req'[p] = req[p]
      BY <1>2, <2>1 DEF Upload, Begin, Idle, RequestType
    <2>2. ASSUME NEW q \in Requests, SetTemplate(q)
          PROVE  req'[p] = req[p]
      BY <1>2, <2>2 DEF SetTemplate, RequestType
    <2>3. ASSUME NEW q \in Requests, AnswerUpload(q) \/ UploadFails(q)
          PROVE  req'[p] = req[p]
      BY <1>3, <2>3 DEF AnswerUpload, UploadFails
    <2>4. ASSUME NEW t \in PanelTabs,
                 \/ ChooseFile(t) \/ ChooseWrongFile(t)
                 \/ ReadTemplate(t) \/ ShowTemplate(t) \/ LoadFails(t)
          PROVE  req'[p] = req[p]
      BY <2>4 DEF ChooseFile, ChooseWrongFile, ReadTemplate, ShowTemplate, LoadFails
    <2> QED
      BY <1>5, <2>1, <2>2, <2>3, <2>4 DEF PanelNext
  <1>6. CASE FetchNext
    <2>1. \/ req'[p] = Idle \/ req'[p] = req[p]
          \/ req'[p] = [req[p] EXCEPT !.mounted = FALSE]
      BY <1>6 DEF FetchNext, StartFetch, ReadRow, Deliver, FetchFails
    <2>2. /\ [req[p] EXCEPT !.mounted = FALSE].at = req[p].at
          /\ [req[p] EXCEPT !.mounted = FALSE].to = req[p].to
      BY <1>2 DEF RequestType
    <2>3. CASE req'[p] = Idle
      BY <2>3 DEF Idle
    <2>4. CASE req'[p] = [req[p] EXCEPT !.mounted = FALSE]
      BY <2>2, <2>4
    <2>5. CASE req'[p] = req[p]
      BY <2>5
    <2> QED
      BY <2>1, <2>3, <2>4, <2>5
  <1> QED
    BY <1>4, <1>5, <1>6

LEMMA StagesStep == Typed /\ StagesOK /\ [Next]_vars => StagesOK'
  <1> SUFFICES ASSUME Typed, StagesOK, [Next]_vars
               PROVE  StagesOK'
    OBVIOUS
  <1>1. req \in [Requests -> RequestType]
    BY DEF Typed, TypeOK
  <1>2. ASSUME UNCHANGED <<status, visited>>,
               \A p \in Requests : req'[p].at = "setStatus" =>
                  \E r \in visited : <<r, req'[p].to>> \in AllowedTransitions
        PROVE  StagesOK'
    BY <1>2 DEF StagesOK, StagesInOrder
  <1>3. CASE UNCHANGED vars
    BY <1>3 DEF vars, StagesOK, StagesInOrder
  <1>4. CASE PageNext \/ PanelNext \/ FetchNext
    BY <1>2, <1>4, OthersSetNoStatus DEF StagesOK
  <1>5. ASSUME NEW p \in Requests, NEW to \in Statuses, ChangeStatus(p, to)
        PROVE  StagesOK'
    <2>1. req' = [req EXCEPT ![p] = [Idle EXCEPT !.at = "setStatus", !.to = to]]
      BY <1>5 DEF ChangeStatus, Begin
    <2>2. [Idle EXCEPT !.at = "setStatus", !.to = to].to = to
      BY DEF Idle
    <2> QED
      BY <1>1, <1>2, <1>5, <2>1, <2>2 DEF ChangeStatus, StagesOK
  <1>6. ASSUME NEW p \in Requests, Publish(p)
        PROVE  StagesOK'
    <2>1. req' = [req EXCEPT ![p] = [Idle EXCEPT !.at = "setStatus", !.to = "OPEN"]]
      BY <1>6 DEF Publish, Begin
    <2>2. [Idle EXCEPT !.at = "setStatus", !.to = "OPEN"].to = "OPEN"
      BY DEF Idle
    <2> QED
      BY <1>1, <1>2, <1>6, <2>1, <2>2 DEF Publish, StagesOK
  <1>7. ASSUME NEW p \in Requests, SetStatus(p)
        PROVE  StagesOK'
    <2>1. PICK r \in visited : <<r, req[p].to>> \in AllowedTransitions
      BY <1>7 DEF SetStatus, StagesOK
    <2>2. visited' = visited \cup {req[p].to} /\ status' = req[p].to
      BY <1>7 DEF SetStatus
    <2>3. ASSUME NEW q \in Requests, req'[q].at = "setStatus"
          PROVE  req'[q] = req[q]
      BY <1>1, <1>7, <2>3 DEF SetStatus, Respond, Idle
    <2>4. StagesInOrder'
      BY <2>1, <2>2 DEF StagesOK, StagesInOrder, AllowedTransitions
    <2> QED
      BY <2>2, <2>3, <2>4 DEF StagesOK
  <1> QED
    BY <1>3, <1>4, <1>5, <1>6, <1>7, Kinds DEF ConferencesNext

(* However requests overlap, a conference is at no stage without having    *)
(* been at one that comes right before it.                                 *)
THEOREM StagesAreInOrder == Spec => []StagesInOrder
  <1>1. Init => StagesOK
    BY DEF Init, ConferencesInit, StagesOK, StagesInOrder, Idle
  <1>2. Spec => [](Typed /\ StagesOK)
    BY <1>1, InitTyped, TypedStep, StagesStep, PTL DEF Spec
  <1>3. StagesOK => StagesInOrder
    BY DEF StagesOK
  <1> QED
    BY <1>2, <1>3, PTL

-----------------------------------------------------------------------------
(* The open form.                                                          *)

LEMMA FormStep == Typed /\ FormKeepsEntered /\ [Next]_vars => FormKeepsEntered'
  <1> SUFFICES ASSUME Typed, FormKeepsEntered, [Next]_vars
               PROVE  FormKeepsEntered'
    OBVIOUS
  <1> USE DEF Typed
  <1>1. page \in [FormTabs -> PageType]
    BY DEF TypeOK
  <1>2. ASSUME UNCHANGED page
        PROVE  FormKeepsEntered'
    BY <1>2 DEF FormKeepsEntered
  <1>3. CASE UNCHANGED vars \/ ConferencesNext \/ PanelNext
    <2>1. UNCHANGED page
      BY <1>3 DEF vars, ConferencesNext, ChangeStatus, Publish, SetStatus, ElsewhereFromConferences,
                  PanelNext, ChooseFile, ChooseWrongFile, Upload, ReadTemplate, ShowTemplate, LoadFails,
                  SetTemplate, AnswerUpload, UploadFails, ElsewhereFromPanel
    <2> QED
      BY <1>2, <2>1
  <1>4. CASE PageNext
    <2>1. ASSUME NEW t \in FormTabs, Edit(t) \/ Cancel(t)
          PROVE  FormKeepsEntered'
      BY <1>1, <2>1 DEF Edit, Cancel, FormKeepsEntered
    <2>2. ASSUME NEW t \in FormTabs, NEW c \in Cols, NEW v \in 0 .. MaxDay, Type(t, c, v)
          PROVE  FormKeepsEntered'
      <3>1. page[t] \in PageType
        BY <1>1
      <3>2. page'[t].form = [page[t].form EXCEPT ![c] = v]
        BY <1>1, <2>2, <3>1 DEF Type, PageType
      <3>3. page'[t].entered = [page[t].entered EXCEPT ![c] = v]
        BY <1>1, <2>2, <3>1 DEF Type, PageType
      <3>4. page[t].at = "edit" /\ \A u \in FormTabs \ {t} : page'[u] = page[u]
        BY <1>1, <2>2 DEF Type
      <3> QED
        BY <3>2, <3>3, <3>4 DEF FormKeepsEntered
    <2>3. ASSUME NEW t \in FormTabs, NEW p \in Requests, Submit(t, p)
          PROVE  FormKeepsEntered'
      BY <1>1, <2>3 DEF Submit, FormKeepsEntered, PageType
    <2>4. ASSUME NEW p \in Requests, SaveFails(p)
          PROVE  FormKeepsEntered'
      BY <1>1, <2>4 DEF SaveFails, FormKeepsEntered, PageType
    <2>5. ASSUME NEW p \in Requests, Upsert(p) \/ AnswerSave(p)
          PROVE  FormKeepsEntered'
      BY <1>2, <2>5 DEF Upsert, AnswerSave
    <2> QED
      BY <1>4, <2>1, <2>2, <2>3, <2>4, <2>5 DEF PageNext
  <1>5. ASSUME NEW t \in Tabs, StartFetch(t) \/ ReadRow(t)
        PROVE  FormKeepsEntered'
    BY <1>2, <1>5 DEF StartFetch, ReadRow
  <1>6. ASSUME NEW t \in Tabs, FetchFails(t)
        PROVE  FormKeepsEntered'
    BY <1>6 DEF FetchFails, ClosedPage, FormKeepsEntered
  <1>7. ASSUME NEW t \in Tabs, Deliver(t)
        PROVE  FormKeepsEntered'
    <2> SUFFICES ASSUME NEW u \in FormTabs, page'[u].at = "edit"
                 PROVE  page'[u].form = page'[u].entered
      BY DEF FormKeepsEntered
    <2>0. PICK kept \in IF Saving(t) = {} THEN {Blank} ELSE Saving(t) :
             page' = [w \in FormTabs |-> IF w = t THEN ShownAfter(t, fetch[t].row, kept) ELSE page[w]]
      BY <1>7 DEF Deliver
    <2>1. CASE u # t
      BY <2>0, <2>1 DEF FormKeepsEntered
    <2>2. CASE u = t
      <3>1. fetch[u].row \in SettingsType /\ kept \in [Cols -> Nat]
        BY <2>0, <2>2, KeptType DEF TypeOK, FetchType
      <3>2. page'[u] = ShownAfter(u, fetch[u].row, kept)
        BY <2>0, <2>2
      <3>3. page'[u] = Rendered(u, fetch[u].row, kept)
        BY <3>2 DEF ShownAfter, ClosedPage
      <3> QED
        BY <3>1, <3>3, RenderedPage
    <2> QED
      BY <2>1, <2>2
  <1> QED
    BY <1>3, <1>4, <1>5, <1>6, <1>7, Kinds DEF FetchNext

(* Whatever is fetched, saved elsewhere or answered late: an open form     *)
(* shows what it was opened with, changed by what was typed only.          *)
THEOREM FormsKeepWhatIsEntered == Spec => []FormKeepsEntered
  <1>1. Init => FormKeepsEntered
    BY DEF Init, PageInit, ClosedPage, FormKeepsEntered
  <1> QED
    BY <1>1, InitTyped, TypedStep, FormStep, PTL DEF Spec

-----------------------------------------------------------------------------
(* The preview of the template.                                            *)

(* What a tab knows is no younger than the row.                            *)
KnownOK ==
    \A t \in Tabs : /\ cache[t].template <= settings.template
                    /\ fetch[t].at = "read" => fetch[t].row.template <= settings.template

(* A load has found what the tab knows, or a later template.               *)
PanelOK(t) ==
    /\ panel[t].load = "read" => panel[t].found >= cache[t].template
    /\ panel[t].load = "none" /\ ~panel[t].failed /\ ~panel[t].selected /\ cache[t].template # 0
          => panel[t].preview >= cache[t].template

PreviewOK == KnownOK /\ \A t \in PanelTabs : PanelOK(t)

LEMMA KnownStep == Typed /\ KnownOK /\ [Next]_vars => KnownOK'
  <1> SUFFICES ASSUME Typed, KnownOK, [Next]_vars
               PROVE  KnownOK'
    OBVIOUS
  <1> USE DEF Typed
  <1>1. /\ settings \in SettingsType /\ fetch \in [Tabs -> FetchType] /\ cache \in [Tabs -> SettingsType]
        /\ settings' \in SettingsType
    BY TypedStep DEF TypeOK
  <1>2. settings.template \in Nat /\ settings'.template \in Nat
        /\ \A t \in Tabs : /\ cache[t].template \in Nat /\ fetch[t].row.template \in Nat
    BY <1>1 DEF SettingsType, FetchType
  <1>3. ASSUME settings'.template >= settings.template, UNCHANGED cache,
               \A t \in Tabs : fetch'[t].at = "read" => fetch'[t] = fetch[t]
        PROVE  KnownOK'
    BY <1>2, <1>3 DEF KnownOK
  <1>4. CASE UNCHANGED vars \/ ConferencesNext
    <2>1. UNCHANGED <<settings, fetch, cache>>
      BY <1>4 DEF vars, ConferencesNext, ChangeStatus, Publish, SetStatus, ElsewhereFromConferences
    <2> QED
      BY <1>2, <1>3, <2>1
  <1>5. CASE PageNext \/ PanelNext
    <2>1. UNCHANGED cache
      BY <1>5 DEF PageNext, Edit, Cancel, Type, Submit, Upsert, AnswerSave, SaveFails,
                  PanelNext, ChooseFile, ChooseWrongFile, Upload, ReadTemplate, ShowTemplate, LoadFails,
                  SetTemplate, AnswerUpload, UploadFails
    <2>2. \/ UNCHANGED settings
          \/ \E p \in Requests : Upsert(p) \/ SetTemplate(p)
      BY <1>5 DEF PageNext, Edit, Cancel, Type, Submit, Upsert, AnswerSave, SaveFails,
                  PanelNext, ChooseFile, ChooseWrongFile, Upload, ReadTemplate, ShowTemplate, LoadFails,
                  SetTemplate, AnswerUpload, UploadFails
    <2>3. ASSUME NEW p \in Requests, Upsert(p)
          PROVE  settings'.template = settings.template
      BY <2>3 DEF Upsert
    <2>4. ASSUME NEW p \in Requests, SetTemplate(p)
          PROVE  settings'.template = settings.template + 1
      BY <1>1, <2>4 DEF SetTemplate, SettingsType
    <2>5. settings'.template >= settings.template
      BY <1>2, <2>2, <2>3, <2>4
    <2>6. \/ UNCHANGED fetch
          \/ \E p \in Requests : Refetch(p)
      BY <1>5 DEF PageNext, Edit, Cancel, Type, Submit, Upsert, AnswerSave, SaveFails,
                  PanelNext, ChooseFile, ChooseWrongFile, Upload, ReadTemplate, ShowTemplate, LoadFails,
                  SetTemplate, AnswerUpload, UploadFails
    <2>7. \A t \in Tabs : fetch'[t].at = "read" => fetch'[t] = fetch[t]
      BY <1>1, <2>6 DEF Refetch
    <2> QED
      BY <1>3, <2>1, <2>5, <2>7
  <1>6. ASSUME NEW t \in Tabs, StartFetch(t) \/ FetchFails(t)
        PROVE  KnownOK'
    <2>1. UNCHANGED <<settings, cache>>
      BY <1>6 DEF StartFetch, FetchFails, ElsewhereFromFetches
    <2>2. \A u \in Tabs : fetch'[u].at = "read" => fetch'[u] = fetch[u]
      BY <1>1, <1>6 DEF StartFetch, FetchFails, NoFetch, FetchType
    <2> QED
      BY <1>2, <1>3, <2>1, <2>2
  <1>7. ASSUME NEW t \in Tabs, ReadRow(t)
        PROVE  KnownOK'
    BY <1>1, <1>2, <1>7 DEF ReadRow, ElsewhereFromFetches, KnownOK
  <1>8. ASSUME NEW t \in Tabs, Deliver(t)
        PROVE  KnownOK'
    BY <1>1, <1>2, <1>8 DEF Deliver, NoFetch, ElsewhereFromFetches, KnownOK
  <1> QED
    BY <1>4, <1>5, <1>6, <1>7, <1>8, Kinds DEF FetchNext

(* A panel whose template or file has changed is loading, or has none to   *)
(* show.                                                                   *)
LEMMA ReloadedIsOK ==
  ASSUME NEW shown \in PanelType, NEW template
  PROVE  /\ Reloaded(shown, template).load # "read"
         /\ \/ Reloaded(shown, template).load # "none"
            \/ Reloaded(shown, template).selected
            \/ template = 0
  BY DEF Reloaded, PanelType

LEMMA PanelStep == Typed /\ PreviewOK /\ [Next]_vars => PreviewOK'
  <1> SUFFICES ASSUME Typed, PreviewOK, [Next]_vars, NEW t \in PanelTabs
               PROVE  PanelOK(t)'
    BY KnownStep DEF PreviewOK
  <1> USE DEF Typed
  <1>1. panel \in [PanelTabs -> PanelType] /\ panel[t] \in PanelType /\ t \in Tabs
    BY DEF TypeOK, Tabs
  <1>2. PanelOK(t) /\ cache[t].template <= settings.template
    BY <1>1 DEF PreviewOK, KnownOK
  <1>3. ASSUME UNCHANGED cache, panel'[t] = panel[t]
        PROVE  PanelOK(t)'
    BY <1>2, <1>3 DEF PanelOK
  <1>4. ASSUME NEW shown \in PanelType, NEW template, panel'[t] = Reloaded(shown, template),
               cache'[t].template = template
        PROVE  PanelOK(t)'
    BY <1>4, ReloadedIsOK DEF PanelOK
  <1>5. CASE UNCHANGED vars \/ ConferencesNext \/ PageNext
    <2>1. UNCHANGED <<panel, cache>>
      BY <1>5 DEF vars, ConferencesNext, ChangeStatus, Publish, SetStatus, ElsewhereFromConferences,
                  PageNext, Edit, Cancel, Type, Submit, Upsert, AnswerSave, SaveFails,
                  ElsewhereFromPage
    <2> QED
      BY <1>3, <2>1
  <1>6. CASE PanelNext
    <2>1. UNCHANGED cache
      BY <1>6 DEF PanelNext, ChooseFile, ChooseWrongFile, Upload, ReadTemplate, ShowTemplate, LoadFails,
                  SetTemplate, AnswerUpload, UploadFails
    <2>2. ASSUME NEW selected \in BOOLEAN
          PROVE  [panel[t] EXCEPT !.selected = selected] \in PanelType
      BY <1>1 DEF PanelType
    <2>3. ASSUME NEW u \in PanelTabs, ChooseFile(u) \/ ChooseWrongFile(u)
          PROVE  PanelOK(t)'
      <3>1. CASE u # t
        BY <1>1, <1>3, <2>1, <2>3, <3>1 DEF ChooseFile, ChooseWrongFile
      <3>2. CASE u = t
        <4>1. \E selected \in BOOLEAN :
                 panel'[t] = Reloaded([panel[t] EXCEPT !.selected = selected], cache[t].template)
          BY <1>1, <2>3, <3>2 DEF ChooseFile, ChooseWrongFile
        <4> QED
          BY <1>4, <2>1, <2>2, <4>1
      <3> QED
        BY <3>1, <3>2
    <2>4. ASSUME NEW u \in PanelTabs, ReadTemplate(u) \/ ShowTemplate(u) \/ LoadFails(u)
          PROVE  PanelOK(t)'
      <3>1. CASE u # t
        BY <1>1, <1>3, <2>1, <2>4, <3>1 DEF ReadTemplate, ShowTemplate, LoadFails
      <3>2. cache[t].template \in Nat /\ settings.template \in Nat
        BY <1>1 DEF TypeOK, SettingsType
      <3>3. CASE u = t
        BY <1>1, <1>2, <2>1, <2>4, <3>2, <3>3
           DEF ReadTemplate, ShowTemplate, LoadFails, PanelOK, PanelType
      <3> QED
        BY <3>1, <3>3
    <2>5. ASSUME NEW u \in PanelTabs, NEW p \in Requests, Upload(u, p)
          PROVE  PanelOK(t)'
      BY <1>1, <1>2, <2>1, <2>5 DEF Upload, PanelOK, PanelType
    <2>6. ASSUME NEW p \in Requests, SetTemplate(p)
          PROVE  PanelOK(t)'
      BY <1>3, <2>1, <2>6 DEF SetTemplate
    <2>7. ASSUME NEW p \in Requests, AnswerUpload(p)
          PROVE  PanelOK(t)'
      <3>1. \/ panel'[t] = panel[t]
            \/ panel'[t] = Reloaded([panel[t] EXCEPT !.selected = FALSE], cache[t].template)
        BY <2>7 DEF AnswerUpload
      <3> QED
        BY <1>3, <1>4, <2>1, <2>2, <3>1
    <2>8. ASSUME NEW p \in Requests, UploadFails(p)
          PROVE  PanelOK(t)'
      BY <1>1, <1>2, <2>1, <2>8 DEF UploadFails, PanelOK, PanelType
    <2> QED
      BY <1>6, <2>3, <2>4, <2>5, <2>6, <2>7, <2>8 DEF PanelNext
  <1>7. ASSUME NEW u \in Tabs, StartFetch(u) \/ ReadRow(u)
        PROVE  PanelOK(t)'
    BY <1>3, <1>7 DEF StartFetch, ReadRow
  <1>8. ASSUME NEW u \in Tabs, FetchFails(u)
        PROVE  PanelOK(t)'
    BY <1>1, <1>2, <1>8 DEF FetchFails, PanelOK, PanelType
  <1>9. ASSUME NEW u \in Tabs, Deliver(u)
        PROVE  PanelOK(t)'
    <2>1. CASE u # t
      BY <1>1, <1>2, <1>9, <2>1 DEF Deliver, PanelOK, TypeOK
    <2>2. CASE u = t
      <3> DEFINE shown == [panel[t] EXCEPT !.uploading = @ /\ Waiting(t) = {}]
      <3>1. shown \in PanelType
        BY <1>1 DEF PanelType
      <3>2. cache'[t] = fetch[t].row /\ panel'[t] = PanelAfter(t, fetch[t].row)
        BY <1>1, <1>9, <2>2 DEF Deliver, TypeOK
      <3>3. CASE fetch[t].row.template # cache[t].template
        <4>1. panel'[t] = Reloaded(shown, fetch[t].row.template)
          BY <3>2, <3>3 DEF PanelAfter
        <4> QED
          BY <1>4, <3>1, <3>2, <4>1
      <3>4. CASE fetch[t].row.template = cache[t].template
        <4>1. panel'[t] = shown /\ cache'[t].template = cache[t].template
          BY <3>2, <3>4 DEF PanelAfter
        <4>2. /\ panel'[t].load = panel[t].load /\ panel'[t].found = panel[t].found
              /\ panel'[t].failed = panel[t].failed /\ panel'[t].selected = panel[t].selected
              /\ panel'[t].preview = panel[t].preview
          BY <1>1, <4>1 DEF PanelType
        <4> QED
          BY <1>2, <4>1, <4>2 DEF PanelOK
      <3> QED
        BY <3>3, <3>4
    <2> QED
      BY <2>1, <2>2
  <1> QED
    BY <1>5, <1>6, <1>7, <1>8, <1>9, Kinds DEF FetchNext

(* A panel at rest shows the template that its tab knows of, or a later.   *)
THEOREM PreviewsFollowTemplate == Spec => []PreviewFollowsTemplate
  <1>1. Init => PreviewOK
    BY DEF Init, PanelInit, NoSettings, NoFetch, KnownOK, PanelOK, PreviewOK, Tabs
  <1>2. Spec => [](Typed /\ PreviewOK)
    BY <1>1, InitTyped, TypedStep, PanelStep, PTL DEF Spec
  <1>3. PreviewOK => PreviewFollowsTemplate
    BY DEF PreviewOK, PanelOK, PreviewFollowsTemplate
  <1> QED
    BY <1>2, <1>3, PTL

-----------------------------------------------------------------------------
(* What a save or an upload waits for.                                     *)

(* No request has made a write that the row does not have, and whoever     *)
(* waits is a tab.                                                         *)
Located(p) == req[p].at \in {"setTemplate", "templateSet", "refetching"} => req[p].tab \in Tabs
WritesOK == \A p \in Requests : req[p].wrote <= settings.updated /\ Located(p)

(* A tab that learns of the settings has no fetch under way any longer.    *)
LEMMA LoadedStep ==
  ASSUME Typed, [Next]_vars, NEW t \in Tabs, t \in loaded', fetch'[t].at = "read"
  PROVE  t \in loaded
  <1>1. CASE UNCHANGED vars \/ ConferencesNext \/ PageNext \/ PanelNext
    <2>1. UNCHANGED loaded
      BY <1>1 DEF vars, ConferencesNext, ChangeStatus, Publish, SetStatus, ElsewhereFromConferences,
                  PageNext, Edit, Cancel, Type, Submit, Upsert, AnswerSave, SaveFails, ElsewhereFromPage,
                  PanelNext, ChooseFile, ChooseWrongFile, Upload, ReadTemplate, ShowTemplate, LoadFails,
                  SetTemplate, AnswerUpload, UploadFails, ElsewhereFromPanel
    <2> QED
      BY <2>1
  <1>2. ASSUME NEW u \in Tabs, StartFetch(u) \/ ReadRow(u) \/ FetchFails(u)
        PROVE  t \in loaded
    BY <1>2 DEF StartFetch, ReadRow, FetchFails
  <1>3. ASSUME NEW u \in Tabs, Deliver(u)
        PROVE  t \in loaded
    BY <1>3 DEF Deliver, NoFetch, Typed, TypeOK
  <1> QED
    BY <1>1, <1>2, <1>3, Kinds DEF FetchNext

LEMMA WaitStep == Typed /\ WritesOK /\ RefetchShowsWrite /\ [Next]_vars => WritesOK' /\ RefetchShowsWrite'
  <1> SUFFICES ASSUME Typed, WritesOK, RefetchShowsWrite, [Next]_vars, NEW p \in Requests
               PROVE  /\ req'[p].wrote <= settings'.updated /\ Located(p)'
                      /\ req'[p].at = "refetching" /\ req'[p].tab \in loaded /\ fetch'[req'[p].tab].at = "read"
                            => fetch'[req'[p].tab].row.updated >= req'[p].wrote
    BY LoadedStep DEF WritesOK, RefetchShowsWrite, Located
  <1> USE DEF Typed
  <1>1. req \in [Requests -> RequestType] /\ settings \in SettingsType /\ fetch \in [Tabs -> FetchType]
    BY DEF TypeOK
  <1>2. settings.updated \in Nat /\ req[p].wrote \in Nat /\ req[p].wrote <= settings.updated
        /\ Located(p)
    BY <1>1 DEF SettingsType, RequestType, WritesOK
  <1>3. req[p].at = "refetching" /\ req[p].tab \in loaded /\ fetch[req[p].tab].at = "read"
           => fetch[req[p].tab].row.updated >= req[p].wrote
    BY DEF RefetchShowsWrite
  <1> DEFINE Waits ==
               req'[p].at = "refetching" /\ req'[p].tab \in loaded /\ fetch'[req'[p].tab].at = "read"
                  => fetch'[req'[p].tab].row.updated >= req'[p].wrote
             Bounded == req'[p].wrote <= settings'.updated /\ Located(p)'
  <1>4. Idle.wrote = 0 /\ Idle.at = "idle"
    BY DEF Idle
  <1>5. ASSUME settings' = settings, fetch' = fetch,
               \/ req'[p] = req[p]
               \/ /\ req'[p].at # "refetching" /\ req'[p].wrote = 0
                  /\ req'[p].at \in {"setTemplate", "templateSet"} => req'[p].tab \in Tabs
        PROVE  Bounded /\ Waits
    BY <1>2, <1>3, <1>5 DEF Located
  <1>6. ASSUME NEW q \in Requests, Respond(q), settings' = settings, fetch' = fetch
        PROVE  Bounded /\ Waits
    BY <1>1, <1>4, <1>5, <1>6 DEF Respond
  <1>7. ASSUME NEW q \in Requests, NEW request, Begin(q, request), request.at # "refetching",
               request.wrote = 0, settings' = settings, fetch' = fetch,
               request.at \in {"setTemplate", "templateSet"} => request.tab \in Tabs
        PROVE  Bounded /\ Waits
    BY <1>1, <1>5, <1>7 DEF Begin
  <1>8. ASSUME NEW q \in Requests, Refetch(q), settings' = settings, req[q].tab \in Tabs
        PROVE  Bounded /\ Waits
    <2>1. req'[p].wrote = req[p].wrote /\ req'[p].tab = req[p].tab
      BY <1>1, <1>8 DEF Refetch, RequestType
    <2>2. ASSUME req'[p].at = "refetching", req[p].tab # req[q].tab
          PROVE  req[p].at = "refetching"
      BY <1>1, <1>8, <2>2 DEF Refetch, RequestType
    <2>3. req[p].tab \in Tabs \ {req[q].tab} => fetch'[req[p].tab] = fetch[req[p].tab]
      BY <1>1, <1>8 DEF Refetch
    <2>4. req[q].tab \in loaded => fetch'[req[q].tab].at = "asked"
      BY <1>1, <1>8 DEF Refetch
    <2>5. Located(p)'
      BY <1>1, <1>2, <1>8 DEF Refetch, RequestType, Located
    <2>6. CASE req[p].tab = req[q].tab
      BY <1>2, <1>8, <2>1, <2>4, <2>5, <2>6
    <2>7. CASE req[p].tab # req[q].tab
      <3>1. ASSUME req'[p].at = "refetching"
            PROVE  fetch'[req[p].tab] = fetch[req[p].tab] /\ req[p].at = "refetching"
        BY <1>2, <2>2, <2>3, <2>7, <3>1 DEF Located
      <3> QED
        BY <1>2, <1>3, <1>8, <2>1, <2>5, <3>1
    <2> QED
      BY <2>6, <2>7
  <1>9. CASE UNCHANGED vars
    BY <1>5, <1>9 DEF vars
  <1>10. CASE ConferencesNext
    <2>1. PICK q \in Requests :
             \/ \E to \in Statuses : ChangeStatus(q, to)
             \/ Publish(q)
             \/ SetStatus(q)
      BY <1>10 DEF ConferencesNext
    <2>2. settings' = settings /\ fetch' = fetch
      BY <2>1 DEF ChangeStatus, Publish, SetStatus, ElsewhereFromConferences
    <2>3. \A to \in Statuses : LET request == [Idle EXCEPT !.at = "setStatus", !.to = to]
                               IN request.at = "setStatus" /\ request.wrote = 0
      BY DEF Idle
    <2>4. ASSUME NEW to \in Statuses, Begin(q, [Idle EXCEPT !.at = "setStatus", !.to = to])
          PROVE  Bounded /\ Waits
      BY <1>7, <2>2, <2>3, <2>4
    <2> QED
      BY <1>6, <2>1, <2>2, <2>4 DEF ChangeStatus, Publish, SetStatus, Statuses
  <1>11. CASE PageNext
    <2>1. ASSUME NEW t \in FormTabs,
                 Edit(t) \/ Cancel(t) \/ \E c \in Cols, v \in 0 .. MaxDay : Type(t, c, v)
          PROVE  Bounded /\ Waits
      BY <1>5, <2>1 DEF Edit, Cancel, Type
    <2>2. ASSUME NEW t \in FormTabs, NEW q \in Requests, Submit(t, q)
          PROVE  Bounded /\ Waits
      <3> DEFINE request == [Idle EXCEPT !.at = "upsert", !.tab = t, !.mounted = TRUE,
                                         !.values = page[t].form]
      <3>1. request.at = "upsert" /\ request.wrote = 0
        BY DEF Idle
      <3>2. Begin(q, request) /\ settings' = settings /\ fetch' = fetch
        BY <2>2 DEF Submit
      <3> QED
        BY <1>7, <3>1, <3>2
    <2>3. ASSUME NEW q \in Requests, Upsert(q)
          PROVE  Bounded /\ Waits
      <3>1. settings'.updated = settings.updated + 1 /\ fetch' = fetch
        BY <2>3 DEF Upsert
      <3>2. CASE p # q
        BY <1>1, <1>2, <1>3, <2>3, <3>1, <3>2 DEF Upsert, Located
      <3>3. CASE p = q
        <4>1. req'[p].at = "upserted" /\ req'[p].wrote = settings.updated + 1
          BY <1>1, <2>3, <3>3 DEF Upsert, RequestType
        <4> QED
          BY <1>2, <3>1, <4>1 DEF Located
      <3> QED
        BY <3>2, <3>3
    <2>4. ASSUME NEW q \in Requests, AnswerSave(q)
          PROVE  Bounded /\ Waits
      BY <1>8, <2>4 DEF AnswerSave, SavesOK, Tabs
    <2>5. ASSUME NEW q \in Requests, SaveFails(q)
          PROVE  Bounded /\ Waits
      BY <1>6, <2>5 DEF SaveFails
    <2> QED
      BY <1>11, <2>1, <2>2, <2>3, <2>4, <2>5 DEF PageNext
  <1>12. CASE PanelNext
    <2>1. ASSUME NEW t \in PanelTabs,
                 \/ ChooseFile(t) \/ ChooseWrongFile(t)
                 \/ ReadTemplate(t) \/ ShowTemplate(t) \/ LoadFails(t)
          PROVE  Bounded /\ Waits
      BY <1>5, <2>1 DEF ChooseFile, ChooseWrongFile, ReadTemplate, ShowTemplate, LoadFails
    <2>2. ASSUME NEW t \in PanelTabs, NEW q \in Requests, Upload(t, q)
          PROVE  Bounded /\ Waits
      <3> DEFINE request == [Idle EXCEPT !.at = "setTemplate", !.tab = t, !.mounted = TRUE]
      <3>1. request.at = "setTemplate" /\ request.wrote = 0 /\ request.tab \in Tabs
        BY DEF Idle, Tabs
      <3>2. Begin(q, request) /\ settings' = settings /\ fetch' = fetch
        BY <2>2 DEF Upload
      <3> QED
        BY <1>7, <3>1, <3>2
    <2>3. ASSUME NEW q \in Requests, SetTemplate(q)
          PROVE  Bounded /\ Waits
      <3>1. settings'.updated = settings.updated + 1 /\ fetch' = fetch
        BY <1>1, <2>3 DEF SetTemplate, SettingsType
      <3>2. CASE p # q
        BY <1>1, <1>2, <1>3, <2>3, <3>1, <3>2 DEF SetTemplate, Located
      <3>3. CASE p = q
        <4>1. /\ req'[p].at = "templateSet" /\ req'[p].wrote = settings.updated + 1
              /\ req'[p].tab = req[p].tab /\ req[p].at = "setTemplate"
          BY <1>1, <2>3, <3>3 DEF SetTemplate, RequestType
        <4> QED
          BY <1>2, <3>1, <4>1 DEF Located
      <3> QED
        BY <3>2, <3>3
    <2>4. ASSUME NEW q \in Requests, AnswerUpload(q)
          PROVE  Bounded /\ Waits
      BY <1>8, <2>4 DEF AnswerUpload, WritesOK, Located
    <2>5. ASSUME NEW q \in Requests, UploadFails(q)
          PROVE  Bounded /\ Waits
      BY <1>6, <2>5 DEF UploadFails
    <2> QED
      BY <1>12, <2>1, <2>2, <2>3, <2>4, <2>5 DEF PanelNext
  <1>13. ASSUME NEW t \in Tabs, StartFetch(t)
         PROVE  Bounded /\ Waits
    <2>1. settings' = settings /\ req' = req
      BY <1>13 DEF StartFetch, ElsewhereFromFetches
    <2>2. \A u \in Tabs : fetch'[u].at = "read" => fetch'[u] = fetch[u]
      BY <1>1, <1>13 DEF StartFetch, FetchType, NoFetch
    <2> QED
      BY <1>2, <1>3, <2>1, <2>2 DEF Located
  <1>14. ASSUME NEW t \in Tabs, ReadRow(t)
         PROVE  Bounded /\ Waits
    <2>1. settings' = settings /\ req' = req
      BY <1>14 DEF ReadRow, ElsewhereFromFetches
    <2>2. fetch'[t].row = settings /\ \A u \in Tabs \ {t} : fetch'[u] = fetch[u]
      BY <1>1, <1>14 DEF ReadRow
    <2> QED
      BY <1>2, <1>3, <2>1, <2>2 DEF Located
  <1>15. ASSUME NEW t \in Tabs, Deliver(t) \/ FetchFails(t)
         PROVE  Bounded /\ Waits
    <2>1. settings' = settings
      BY <1>15 DEF Deliver, FetchFails, ElsewhereFromFetches
    <2>2. \A u \in Tabs \ {t} : fetch'[u] = fetch[u]
      BY <1>1, <1>15 DEF Deliver, FetchFails
    <2>3. fetch'[t].at = "none"
      BY <1>1, <1>15 DEF Deliver, FetchFails, NoFetch
    <2>4. \/ req'[p] = Idle \/ req'[p] = req[p]
          \/ req'[p] = [req[p] EXCEPT !.mounted = FALSE]
      BY <1>15 DEF Deliver, FetchFails
    <2>5. /\ [req[p] EXCEPT !.mounted = FALSE].at = req[p].at
          /\ [req[p] EXCEPT !.mounted = FALSE].tab = req[p].tab
          /\ [req[p] EXCEPT !.mounted = FALSE].wrote = req[p].wrote
      BY <1>1 DEF RequestType
    <2>6. CASE req'[p] = Idle
      BY <1>2, <1>4, <2>1, <2>6 DEF Located
    <2>7. CASE req'[p].at = req[p].at /\ req'[p].tab = req[p].tab /\ req'[p].wrote = req[p].wrote
      BY <1>2, <1>3, <2>1, <2>2, <2>3, <2>7 DEF Located
    <2>8. CASE req'[p] = [req[p] EXCEPT !.mounted = FALSE]
      BY <2>5, <2>7, <2>8
    <2>9. CASE req'[p] = req[p]
      BY <2>7, <2>9
    <2> QED
      BY <2>4, <2>6, <2>8, <2>9
  <1> QED
    BY <1>9, <1>10, <1>11, <1>12, <1>13, <1>14, <1>15, Kinds DEF FetchNext

(* What a save or an upload waits for is never older than its own write,   *)
(* whatever was being fetched when it was answered.                        *)
THEOREM RefetchesShowWrites == Spec => []RefetchShowsWrite
  <1>1. Init => WritesOK /\ RefetchShowsWrite
    BY DEF Init, Idle, NoSettings, WritesOK, Located, RefetchShowsWrite
  <1> QED
    BY <1>1, InitTyped, TypedStep, WaitStep, PTL DEF Spec

-----------------------------------------------------------------------------
(* Reads go forward.                                                       *)

(* Of two versions of the row, the one with the later stamp is the later   *)
(* one, and there is one version with each stamp.                          *)
NotAfter(old, new) == old.updated <= new.updated /\ (old.updated = new.updated => old = new)

(* A tab knows an earlier version than the one that it reads, and reads one*)
(* that there is or was.                                                   *)
AgesOK ==
    \A t \in Tabs : /\ NotAfter(cache[t], settings)
                    /\ fetch[t].at = "read" => /\ NotAfter(fetch[t].row, settings)
                                               /\ NotAfter(cache[t], fetch[t].row)

LoadsOK ==
    \A t \in PanelTabs :
        /\ panel[t].preview <= settings.template
        /\ panel[t].load = "read" => /\ panel[t].preview <= panel[t].found
                                     /\ panel[t].found <= settings.template

CachesForward ==
    \A t \in Tabs : /\ cache'[t].updated >= cache[t].updated
                    /\ cache'[t].updated = cache[t].updated => cache'[t] = cache[t]

PreviewsForward ==
    \A t \in PanelTabs : panel'[t].preview # 0 => panel'[t].preview >= panel[t].preview

(* Every write gives the row a stamp of its own.                           *)
LEMMA SettingsForward ==
  ASSUME Typed, [Next]_vars
  PROVE  NotAfter(settings, settings') /\ settings'.template >= settings.template
  <1> USE DEF Typed
  <1>1. settings \in SettingsType /\ settings.updated \in Nat /\ settings.template \in Nat
    BY DEF TypeOK, SettingsType
  <1>2. ASSUME NEW p \in Requests, Upsert(p)
        PROVE  settings'.updated = settings.updated + 1 /\ settings'.template = settings.template
    BY <1>2 DEF Upsert
  <1>3. ASSUME NEW p \in Requests, SetTemplate(p)
        PROVE  settings'.updated = settings.updated + 1 /\ settings'.template = settings.template + 1
    BY <1>1, <1>3 DEF SetTemplate, SettingsType
  <1>4. UNCHANGED settings \/ \E p \in Requests : Upsert(p) \/ SetTemplate(p)
    <2>1. CASE UNCHANGED vars \/ ConferencesNext
      BY <2>1 DEF vars, ConferencesNext, ChangeStatus, Publish, SetStatus, ElsewhereFromConferences
    <2>2. CASE PageNext
      BY <2>2 DEF PageNext, Edit, Cancel, Type, Submit, AnswerSave, SaveFails
    <2>3. CASE PanelNext
      BY <2>3 DEF PanelNext, ChooseFile, ChooseWrongFile, Upload, ReadTemplate, ShowTemplate,
                  LoadFails, AnswerUpload, UploadFails
    <2>4. CASE FetchNext
      BY <2>4 DEF FetchNext, StartFetch, ReadRow, Deliver, FetchFails, ElsewhereFromFetches
    <2> QED
      BY <2>1, <2>2, <2>3, <2>4, Kinds
  <1> QED
    BY <1>1, <1>2, <1>3, <1>4 DEF NotAfter

(* A tab takes what it has fetched, and nothing else.                      *)
LEMMA CacheSteps ==
  ASSUME Typed, [Next]_vars, NEW t \in Tabs
  PROVE  /\ \/ cache'[t] = cache[t]
            \/ fetch[t].at = "read" /\ cache'[t] = fetch[t].row
         /\ fetch'[t].at = "read" => \/ fetch'[t] = fetch[t] /\ cache'[t] = cache[t]
                                     \/ fetch'[t].row = settings /\ UNCHANGED <<settings, cache>>
  <1> USE DEF Typed
  <1>1. fetch \in [Tabs -> FetchType] /\ cache \in [Tabs -> SettingsType]
    BY DEF TypeOK
  <1>2. CASE UNCHANGED vars \/ ConferencesNext
    <2>1. UNCHANGED <<settings, fetch, cache>>
      BY <1>2 DEF vars, ConferencesNext, ChangeStatus, Publish, SetStatus, ElsewhereFromConferences
    <2> QED
      BY <2>1
  <1>3. CASE PageNext \/ PanelNext
    <2>1. UNCHANGED cache
      BY <1>3 DEF PageNext, Edit, Cancel, Type, Submit, Upsert, AnswerSave, SaveFails,
                  PanelNext, ChooseFile, ChooseWrongFile, Upload, ReadTemplate, ShowTemplate, LoadFails,
                  SetTemplate, AnswerUpload, UploadFails
    <2>2. UNCHANGED fetch \/ \E p \in Requests : Refetch(p)
      BY <1>3 DEF PageNext, Edit, Cancel, Type, Submit, Upsert, AnswerSave, SaveFails,
                  PanelNext, ChooseFile, ChooseWrongFile, Upload, ReadTemplate, ShowTemplate, LoadFails,
                  SetTemplate, AnswerUpload, UploadFails
    <2>3. fetch'[t].at = "read" => fetch'[t] = fetch[t]
      BY <1>1, <2>2 DEF Refetch
    <2> QED
      BY <2>1, <2>3
  <1>4. ASSUME NEW u \in Tabs, StartFetch(u) \/ FetchFails(u)
        PROVE  UNCHANGED cache /\ (fetch'[t].at = "read" => fetch'[t] = fetch[t])
    BY <1>1, <1>4 DEF StartFetch, FetchFails, NoFetch, FetchType
  <1>5. ASSUME NEW u \in Tabs, ReadRow(u)
        PROVE  /\ UNCHANGED <<settings, cache>>
               /\ fetch'[t].at = "read" => fetch'[t] = fetch[t] \/ fetch'[t].row = settings
    <2>1. UNCHANGED <<settings, cache>> /\ fetch' = [fetch EXCEPT ![u] = [at |-> "read", row |-> settings]]
      BY <1>5 DEF ReadRow, ElsewhereFromFetches
    <2> QED
      BY <1>1, <2>1
  <1>6. ASSUME NEW u \in Tabs, Deliver(u)
        PROVE  /\ \/ cache'[t] = cache[t]
                  \/ fetch[t].at = "read" /\ cache'[t] = fetch[t].row
               /\ fetch'[t].at = "read" => fetch'[t] = fetch[t] /\ cache'[t] = cache[t]
    <2>1. cache' = [cache EXCEPT ![u] = fetch[u].row] /\ fetch' = [fetch EXCEPT ![u] = NoFetch]
          /\ fetch[u].at = "read"
      BY <1>6 DEF Deliver
    <2> QED
      BY <1>1, <2>1 DEF NoFetch
  <1> QED
    BY <1>2, <1>3, <1>4, <1>5, <1>6, Kinds DEF FetchNext

LEMMA NotAfterIsOrder ==
  ASSUME NEW a \in SettingsType, NEW b \in SettingsType, NEW c \in SettingsType
  PROVE  /\ NotAfter(a, a)
         /\ NotAfter(a, b) /\ NotAfter(b, c) => NotAfter(a, c)
  <1>1. a.updated \in Nat /\ b.updated \in Nat /\ c.updated \in Nat
    BY DEF SettingsType
  <1> QED
    BY <1>1 DEF NotAfter

LEMMA AgesStep == Typed /\ AgesOK /\ [Next]_vars => AgesOK' /\ CachesForward
  <1> SUFFICES ASSUME Typed, AgesOK, [Next]_vars, NEW t \in Tabs
               PROVE  /\ NotAfter(cache'[t], settings')
                      /\ fetch'[t].at = "read" => /\ NotAfter(fetch'[t].row, settings')
                                                  /\ NotAfter(cache'[t], fetch'[t].row)
                      /\ cache'[t].updated >= cache[t].updated
                      /\ cache'[t].updated = cache[t].updated => cache'[t] = cache[t]
    BY DEF AgesOK, CachesForward
  <1>1. /\ settings \in SettingsType /\ settings' \in SettingsType
        /\ cache[t] \in SettingsType /\ cache'[t] \in SettingsType
        /\ fetch[t].row \in SettingsType /\ fetch'[t].row \in SettingsType
    BY TypedStep DEF Typed, TypeOK, FetchType
  <1>2. NotAfter(settings, settings')
    BY SettingsForward
  <1>3. /\ NotAfter(cache[t], settings)
        /\ fetch[t].at = "read" => NotAfter(fetch[t].row, settings) /\ NotAfter(cache[t], fetch[t].row)
    BY DEF AgesOK
  <1>4. /\ \/ cache'[t] = cache[t]
           \/ fetch[t].at = "read" /\ cache'[t] = fetch[t].row
        /\ fetch'[t].at = "read" => \/ fetch'[t] = fetch[t] /\ cache'[t] = cache[t]
                                    \/ fetch'[t].row = settings /\ UNCHANGED <<settings, cache>>
    BY CacheSteps
  <1>5. NotAfter(cache[t], cache'[t])
    BY <1>1, <1>3, <1>4, NotAfterIsOrder
  <1>6. NotAfter(cache'[t], settings) /\ NotAfter(cache'[t], settings')
    BY <1>1, <1>2, <1>3, <1>4, NotAfterIsOrder
  <1>7. ASSUME fetch'[t].at = "read"
        PROVE  NotAfter(fetch'[t].row, settings') /\ NotAfter(cache'[t], fetch'[t].row)
    <2>1. CASE fetch'[t] = fetch[t] /\ cache'[t] = cache[t]
      <3>1. NotAfter(fetch[t].row, settings')
        BY <1>1, <1>2, <1>3, <1>7, <2>1, NotAfterIsOrder
      <3> QED
        BY <1>3, <1>7, <2>1, <3>1
    <2>2. CASE fetch'[t].row = settings /\ UNCHANGED <<settings, cache>>
      BY <1>1, <1>3, <2>2, NotAfterIsOrder
    <2> QED
      BY <1>4, <1>7, <2>1, <2>2
  <1> QED
    BY <1>1, <1>5, <1>6, <1>7 DEF NotAfter, SettingsType

LEMMA LoadsStep == Typed /\ LoadsOK /\ [Next]_vars => LoadsOK' /\ PreviewsForward
  <1> SUFFICES ASSUME Typed, LoadsOK, [Next]_vars, NEW t \in PanelTabs
               PROVE  /\ panel'[t].preview <= settings'.template
                      /\ panel'[t].load = "read" => /\ panel'[t].preview <= panel'[t].found
                                                    /\ panel'[t].found <= settings'.template
                      /\ panel'[t].preview # 0 => panel'[t].preview >= panel[t].preview
    BY DEF LoadsOK, PreviewsForward
  <1> DEFINE old == panel[t]
             new == panel'[t]
  <1>1. /\ old \in PanelType /\ new \in PanelType /\ panel \in [PanelTabs -> PanelType]
        /\ settings.template \in Nat /\ settings'.template \in Nat
    BY TypedStep DEF Typed, TypeOK, SettingsType
  <1>2. /\ old.preview \in Nat /\ old.found \in Nat /\ new.preview \in Nat /\ new.found \in Nat
    BY <1>1 DEF PanelType
  <1>3. settings'.template >= settings.template
    BY SettingsForward
  <1>4. /\ old.preview <= settings.template
        /\ old.load = "read" => old.preview <= old.found /\ old.found <= settings.template
    BY DEF LoadsOK
  <1>5. \/ /\ new.preview \in {0, old.preview}
           /\ new.load = "read" => /\ old.load = "read" /\ new.found = old.found
                                   /\ new.preview = old.preview
        \/ new.preview = old.preview /\ new.found = settings.template
        \/ old.load = "read" /\ new.preview = old.found /\ new.load = "none"
    <2> DEFINE Keeps == /\ new.preview \in {0, old.preview}
                        /\ new.load = "read" => /\ old.load = "read" /\ new.found = old.found
                                                /\ new.preview = old.preview
    <2>1. ASSUME NEW shown \in PanelType, NEW template,
                 shown.preview = old.preview, new = Reloaded(shown, template)
          PROVE  Keeps
      BY <2>1 DEF Reloaded, PanelType
    <2>2. CASE UNCHANGED vars \/ ConferencesNext \/ PageNext
      <3>1. UNCHANGED panel
        BY <2>2 DEF vars, ConferencesNext, ChangeStatus, Publish, SetStatus, ElsewhereFromConferences,
                    PageNext, Edit, Cancel, Type, Submit, Upsert, AnswerSave, SaveFails,
                    ElsewhereFromPage
      <3> QED
        BY <3>1
    <2>3. ASSUME NEW selected \in BOOLEAN
          PROVE  /\ [old EXCEPT !.selected = selected] \in PanelType
                 /\ [old EXCEPT !.selected = selected].preview = old.preview
      BY <1>1 DEF PanelType
    <2>4. ASSUME NEW u \in PanelTabs, ChooseFile(u) \/ ChooseWrongFile(u)
          PROVE  Keeps
      <3>1. \/ new = old
            \/ \E selected \in BOOLEAN :
                  new = Reloaded([old EXCEPT !.selected = selected], cache[t].template)
        BY <1>1, <2>4 DEF ChooseFile, ChooseWrongFile
      <3> QED
        BY <2>1, <2>3, <3>1
    <2>5. ASSUME NEW u \in PanelTabs, ReadTemplate(u)
          PROVE  Keeps \/ (new.preview = old.preview /\ new.found = settings.template)
      BY <1>1, <2>5 DEF ReadTemplate, PanelType
    <2>6. ASSUME NEW u \in PanelTabs, ShowTemplate(u)
          PROVE  Keeps \/ (old.load = "read" /\ new.preview = old.found /\ new.load = "none")
      BY <1>1, <2>6 DEF ShowTemplate, PanelType
    <2>7. ASSUME NEW u \in PanelTabs, LoadFails(u)
          PROVE  Keeps
      BY <1>1, <2>7 DEF LoadFails, PanelType
    <2>8. ASSUME NEW p \in Requests, SetTemplate(p) \/ UploadFails(p) \/ \E u \in PanelTabs : Upload(u, p)
          PROVE  Keeps
      <3>1. CASE SetTemplate(p)
        BY <3>1 DEF SetTemplate
      <3>2. CASE UploadFails(p)
        BY <1>1, <3>2 DEF UploadFails, PanelType
      <3>3. ASSUME NEW u \in PanelTabs, Upload(u, p)
            PROVE  Keeps
        BY <1>1, <3>3 DEF Upload, PanelType
      <3> QED
        BY <2>8, <3>1, <3>2, <3>3
    <2>9. ASSUME NEW p \in Requests, AnswerUpload(p)
          PROVE  Keeps
      <3>1. new = old \/ new = Reloaded([old EXCEPT !.selected = FALSE], cache[t].template)
        BY <2>9 DEF AnswerUpload
      <3> QED
        BY <2>1, <2>3, <3>1
    <2>10. ASSUME NEW u \in Tabs, StartFetch(u) \/ ReadRow(u) \/ FetchFails(u)
           PROVE  Keeps
      BY <1>1, <2>10 DEF StartFetch, ReadRow, FetchFails, PanelType
    <2>11. ASSUME NEW u \in Tabs, Deliver(u)
           PROVE  Keeps
      <3> DEFINE shown == [old EXCEPT !.uploading = @ /\ Waiting(t) = {}]
      <3>1. /\ shown \in PanelType /\ shown.preview = old.preview /\ shown.load = old.load
            /\ shown.found = old.found
        BY <1>1 DEF PanelType
      <3>2. new = old \/ new = shown \/ new = Reloaded(shown, fetch[t].row.template)
        BY <2>11 DEF Deliver, PanelAfter
      <3> HIDE DEF shown
      <3> QED
        BY <2>1, <3>1, <3>2
    <2> QED
      BY <2>2, <2>4, <2>5, <2>6, <2>7, <2>8, <2>9, <2>10, <2>11, Kinds DEF FetchNext, PanelNext
  <1> QED
    BY <1>2, <1>1, <1>3, <1>4, <1>5

(* What is shown in a tab is never replaced by something older.            *)
THEOREM TabsReadForward == Spec => TabsGoForward
  <1>1. Init => AgesOK
    BY NoSettingsType, NotAfterIsOrder DEF Init, AgesOK, NoFetch
  <1>2. Init => LoadsOK
    BY DEF Init, LoadsOK, PanelInit, NoSettings
  <1>3. Spec => [](Typed /\ AgesOK /\ LoadsOK)
    BY <1>1, <1>2, InitTyped, TypedStep, AgesStep, LoadsStep, PTL DEF Spec
  <1>4. Typed /\ AgesOK /\ LoadsOK /\ [Next]_vars => [TabsForward]_vars
    BY AgesStep, LoadsStep DEF TabsForward, CachesForward, PreviewsForward
  <1> QED
    BY <1>3, <1>4, PTL DEF Spec, TabsGoForward
=============================================================================
