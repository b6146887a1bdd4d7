-------------------------------- MODULE Setup --------------------------------
(***************************************************************************)
(* The conference and the tabs of its organizers together, with the fetches*)
(* that all tabs have in common: useConferenceSettings and the query cache.*)
(***************************************************************************)
EXTENDS Conferences, SettingsPage, TemplatePanel

Init ==
    /\ scenario \in Scenarios
    /\ ConferencesInit /\ PageInit /\ PanelInit
    /\ settings = NoSettings
    /\ req = [p \in Requests |-> Idle]
    /\ fetch = [t \in Tabs |-> NoFetch]
    /\ cache = [t \in Tabs |-> NoSettings]
    /\ loaded = {}

ElsewhereFromFetches == UNCHANGED <<scenario, status, visited, settings>>

-----------------------------------------------------------------------------
(* A page is opened, a window gets the focus, or Retry is pressed.         *)
StartFetch(t) ==
    /\ fetch[t] = NoFetch
    /\ t \in FormTabs => Called("edit")
    /\ t \in PanelTabs => Called("template")
    /\ fetch' = [fetch EXCEPT ![t].at = "asked"]
    /\ UNCHANGED <<req, cache, loaded, page, panel>>
    /\ ElsewhereFromFetches

(* get answers null when there is no row, and the page takes defaults.     *)
ReadRow(t) ==
    /\ fetch[t].at = "asked"
    /\ fetch' = [fetch EXCEPT ![t] = [at |-> "read", row |-> settings]]
    /\ UNCHANGED <<req, cache, loaded, page, panel>>
    /\ ElsewhereFromFetches

(* Whoever waits for the fetch is answered with it.                        *)
Deliver(t) ==
    /\ fetch[t].at = "read"
    /\ cache' = [cache EXCEPT ![t] = fetch[t].row]
    /\ loaded' = loaded \cup {t}
    /\ fetch' = [fetch EXCEPT ![t] = NoFetch]
    /\ \E kept \in IF Saving(t) = {} THEN {Blank} ELSE Saving(t) :
          page' = [u \in FormTabs |-> IF u = t THEN ShownAfter(t, fetch[t].row, kept) ELSE page[u]]
    /\ panel' = [u \in PanelTabs |-> IF u = t THEN PanelAfter(t, fetch[t].row) ELSE panel[u]]
    /\ req' = [p \in Requests |-> IF p \in Waiting(t) THEN Idle ELSE req[p]]
    /\ ElsewhereFromFetches

(* What the cache holds stays, but a form is taken away, and the requests  *)
(* of its page go on without it.                                           *)
FetchFails(t) ==
    /\ Called("abort") /\ fetch[t].at # "none"
    /\ fetch' = [fetch EXCEPT ![t] = NoFetch]
    /\ page' = [u \in FormTabs |-> IF u = t THEN ClosedPage ELSE page[u]]
    /\ panel' = [u \in PanelTabs |->
                    IF u = t THEN [panel[u] EXCEPT !.uploading = @ /\ Waiting(t) = {}] ELSE panel[u]]
    /\ req' = [p \in Requests |->
                  IF p \in Waiting(t) THEN Idle
                  ELSE IF req[p].tab = t /\ t \in FormTabs THEN [req[p] EXCEPT !.mounted = FALSE]
                  ELSE req[p]]
    /\ UNCHANGED <<cache, loaded>>
    /\ ElsewhereFromFetches

Next ==
    \/ ConferencesNext \/ PageNext \/ PanelNext
    \/ \E t \in Tabs : StartFetch(t) \/ ReadRow(t) \/ Deliver(t) \/ FetchFails(t)

Spec == Init /\ [][Next]_vars

-----------------------------------------------------------------------------
TypeOK ==
    /\ status \in Statuses /\ visited \subseteq Statuses
    /\ settings \in SettingsType
    /\ req \in [Requests -> RequestType]
    /\ fetch \in [Tabs -> FetchType]
    /\ cache \in [Tabs -> SettingsType] /\ loaded \subseteq Tabs
    /\ page \in [FormTabs -> PageType]
    /\ panel \in [PanelTabs -> PanelType]

(* When a save or an upload is answered, a fetch of the same tab may be    *)
(* under way that has read the row before the write.  What the save or the *)
(* upload waits for, and what is shown when it ends, is never older than   *)
(* its own write, unless the tab has yet to learn of any settings.         *)
RefetchShowsWrite ==
    \A p \in Requests :
        req[p].at = "refetching" /\ req[p].tab \in loaded /\ fetch[req[p].tab].at = "read"
            => fetch[req[p].tab].row.updated >= req[p].wrote

(* What a tab knows never becomes older: fetches, writes of other tabs,    *)
(* answers that are late and fetches that were cancelled may overlap, and  *)
(* still a row that replaces another in a tab was written later, or is the *)
(* same one, and a template never gives way to one that was set before it. *)
TabsForward ==
    /\ \A t \in Tabs : /\ cache'[t].updated >= cache[t].updated
                       /\ cache'[t].updated = cache[t].updated => cache'[t] = cache[t]
    /\ \A t \in PanelTabs : panel'[t].preview # 0 => panel'[t].preview >= panel[t].preview

TabsGoForward == [][TabsForward]_vars
=============================================================================
