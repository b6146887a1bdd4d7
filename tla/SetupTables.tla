-------------------------------- MODULE SetupTables --------------------------------
(***************************************************************************)
(* The setup of one conference: its status, its row of settings, and the   *)
(* browser tabs in which organizers look at the settings and change them.  *)
(* Conferences, SettingsPage and TemplatePanel give the operations, and    *)
(* Setup puts them together.                                               *)
(*                                                                         *)
(* A tab keeps the last answer of the API in its query cache.  It fetches  *)
(* in two steps, the read of the row and the arrival of the answer, and    *)
(* anything may happen between them.                                       *)
(*                                                                         *)
(* As in EditorialTables a scenario says which calls are made in it.       *)
(***************************************************************************)
EXTENDS Naturals, FiniteSets

CONSTANTS
    Modules,    \* what has a switch and a window: "abstract" and "registration"
    MaxDay,     \* the days 1 .. MaxDay; 0 is an empty date
    FormTabs,   \* tabs with the settings page
    PanelTabs,  \* tabs with the panel of the certificate template
    Zone,       \* of each FormTab: 2 east of Greenwich, 1 at Greenwich, 0 west of it
    Requests,   \* requests under way
    Scenarios,
    MaxWrites,  \* bound on the writes of the settings
    MaxTyped,   \* bound on the columns in which a form differs from the summary
    NoTab

Tabs == FormTabs \cup PanelTabs

ASSUME SetupAssumption ==
    /\ Zone \in [FormTabs -> 0 .. 2]
    /\ FormTabs \cap PanelTabs = {} /\ NoTab \notin Tabs
    /\ IsFiniteSet(Requests)
    /\ MaxDay \in Nat \ {0} /\ MaxWrites \in Nat /\ MaxTyped \in Nat

VARIABLES
    scenario,
    status,     \* of the Conference row
    visited,    \* the statuses it has had
    settings,   \* the ConferenceSetting row
    req,        \* requests to the API
    fetch,      \* the tabs' fetches of the settings
    cache,      \* the settings as a tab knows them
    loaded,     \* the tabs that know them
    page,       \* the settings page in each FormTab
    panel       \* the template panel in each PanelTab

vars == <<scenario, status, visited, settings, req, fetch, cache, loaded, page, panel>>

Called(call) == call \in scenario

Statuses == {"DRAFT", "OPEN", "REVIEW", "REGISTRATION", "ONGOING", "COMPLETED", "ARCHIVED"}

-----------------------------------------------------------------------------
(* A switch and two dates for each module.                                 *)
Cols == {"enabled", "opens", "closes"} \X Modules

Blank == [c \in Cols |-> 0]

(* A date column holds an instant, four a day from 4 * d on, or 0 for none.*)
(* Templates are numbered in the order in which they were set; 0 is none.  *)
SettingsType == [exists : BOOLEAN, cols : [Cols -> Nat], template : Nat, updated : Nat]

NoSettings == [exists |-> FALSE, cols |-> Blank, template |-> 0, updated |-> 0]

-----------------------------------------------------------------------------
Steps == {"idle", "setStatus", "upsert", "upserted", "setTemplate", "templateSet",
          "refetching"}

(* values are those of a form, mounted says that its page is still there,  *)
(* and wrote is which write of the settings the request has made.          *)
RequestType == [at : Steps, tab : Tabs \cup {NoTab}, mounted : BOOLEAN,
                values : [Cols -> Nat], to : Statuses, wrote : Nat]

Idle == [at |-> "idle", tab |-> NoTab, mounted |-> FALSE, values |-> Blank, to |-> "DRAFT",
         wrote |-> 0]

Begin(p, request) == req[p] = Idle /\ req' = [req EXCEPT ![p] = request]
Respond(p) == req' = [req EXCEPT ![p] = Idle]

MayWrite ==
    settings.updated + Cardinality({p \in Requests : req[p].at \in {"upsert", "setTemplate"}})
        < MaxWrites

-----------------------------------------------------------------------------
NoFetch == [at |-> "none", row |-> NoSettings]
FetchType == [at : {"none", "asked", "read"}, row : SettingsType]

(* Mutant: a fetch that is under way is good enough.                       *)
RefetchUnlessFetching(p) ==
    LET t == req[p].tab IN
    /\ fetch' = [fetch EXCEPT ![t] = IF @.at = "none" THEN [at |-> "asked", row |-> NoSettings] ELSE @]
    /\ req' = [req EXCEPT ![p].at = "refetching"]

(* invalidateQueries and refetch cancel a fetch that is under way and begin*)
(* another, for which those wait who waited for the first.  But a tab that *)
(* knows nothing yet stays with the fetch that it has begun.               *)
Refetch(p) ==
    LET t == req[p].tab IN
    /\ fetch' = IF t \notin loaded /\ fetch[t].at # "none" THEN fetch
                ELSE [fetch EXCEPT ![t] = [at |-> "asked", row |-> NoSettings]]
    /\ req' = [req EXCEPT ![p].at = "refetching"]

Waiting(t) == {p \in Requests : req[p].tab = t /\ req[p].at = "refetching"}
=============================================================================
