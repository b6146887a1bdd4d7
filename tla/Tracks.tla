---------------------------------- MODULE Tracks ----------------------------------
(***************************************************************************)
(* The order of a conference's tracks: TracksService.  A new track takes   *)
(* the number of tracks for its place; a new order is written one track at *)
(* a time, in whatever order the statements of a Promise.all are answered. *)
(***************************************************************************)
EXTENDS PlatformTables

IdleOrdering == [at |-> "idle", place |-> 0, order |-> <<>>, left |-> {}]

Orders == UNION {[1 .. n -> 1 .. MaxTracks] : n \in 0 .. MaxListed}

TracksTypeOK ==
    /\ places \in Seq(Nat) /\ Len(places) <= MaxTracks
    /\ ordering \in [Requests -> [at : {"idle", "create", "find", "write"}, place : Nat,
                                  order : Orders, left : SUBSET (Nat \ {0})]]

TracksInit ==
    /\ places = <<>>
    /\ ordering = [p \in Requests |-> IdleOrdering]

-----------------------------------------------------------------------------
ElsewhereFromTracks == UNCHANGED <<scenario, accountVars, jobVars, reminderVars>>

BeginOrdering(p, call, request) ==
    /\ Called(call) /\ p \in scenario.requests
    /\ ordering[p] = IdleOrdering
    /\ ordering' = [ordering EXCEPT ![p] = request]
    /\ UNCHANGED places
    /\ ElsewhereFromTracks

OrderingEnds(p) == ordering' = [ordering EXCEPT ![p] = IdleOrdering]

(* create counts the tracks and then inserts the next.                     *)
CountTracks(p) ==
    /\ Len(places) < MaxTracks
    /\ BeginOrdering(p, "createTrack",
           [IdleOrdering EXCEPT !.at = "create", !.place = Len(places)])

CreateTrack(p) ==
    /\ ordering[p].at = "create"
    /\ IF Len(places) < MaxTracks THEN places' = Append(places, ordering[p].place)
       ELSE UNCHANGED places
    /\ OrderingEnds(p)
    /\ ElsewhereFromTracks

(* reorder with any list of tracks that is not empty.                      *)
ReorderTracks(p, order) ==
    /\ Len(order) > 0
    /\ BeginOrdering(p, "reorderTracks", [IdleOrdering EXCEPT !.at = "find", !.order = order])

(* Mutant: a list of some of the tracks is taken too.                      *)
FindSomeTracks(p) ==
    /\ ordering[p].at = "find"
    /\ ordering' = [ordering EXCEPT ![p].at = "write", ![p].left = DOMAIN ordering[p].order]
    /\ UNCHANGED places
    /\ ElsewhereFromTracks

(* The list has to name all the tracks there are and no other, as a set.   *)
FindTracks(p) ==
    /\ ordering[p].at = "find"
    /\ IF {ordering[p].order[i] : i \in DOMAIN ordering[p].order} = DOMAIN places
       THEN ordering' = [ordering EXCEPT ![p].at = "write", ![p].left = DOMAIN ordering[p].order]
       ELSE OrderingEnds(p)
    /\ UNCHANGED places
    /\ ElsewhereFromTracks

Settles(p, i) ==
    /\ ordering[p].at = "write" /\ i \in ordering[p].left
    /\ IF ordering[p].left = {i} THEN OrderingEnds(p)
       ELSE ordering' = [ordering EXCEPT ![p].left = @ \ {i}]
    /\ ElsewhereFromTracks

WritePlace(p, i) ==
    /\ Settles(p, i)
    /\ places' = [places EXCEPT ![ordering[p].order[i]] = i - 1]

(* One update fails, and with it the request; the others are under way.    *)
FailPlace(p, i) ==
    /\ Called("abort")
    /\ Settles(p, i)
    /\ UNCHANGED places

(* A process ends, with all that its request has not written.              *)
AbortOrdering(p) ==
    /\ Called("abort")
    /\ ordering[p] # IdleOrdering
    /\ OrderingEnds(p)
    /\ UNCHANGED places
    /\ ElsewhereFromTracks

(* The page lists every track once that there was when it loaded them.     *)
Permutations(n) == {f \in [1 .. n -> 1 .. n] : \A i, j \in 1 .. n : f[i] = f[j] => i = j}

(* The API takes any list: that an id is not repeated is not validated.    *)
Lists == UNION {[1 .. n -> 1 .. Len(places)] : n \in 1 .. MaxListed}

BeginTracks(p) ==
    \/ CountTracks(p)
    \/ \E n \in 1 .. Len(places) : \E order \in Permutations(n) : ReorderTracks(p, order)
    \/ Called("repeatTracks") /\ \E order \in Lists : ReorderTracks(p, order)

ContinueOrdering(p) ==
    \/ CreateTrack(p) \/ FindTracks(p)
    \/ \E i \in ordering[p].left : WritePlace(p, i)

TracksNext ==
    \E p \in Requests :
       \/ BeginTracks(p) \/ ContinueOrdering(p) \/ AbortOrdering(p)
       \/ \E i \in ordering[p].left : FailPlace(p, i)

-----------------------------------------------------------------------------
(* Properties.                                                             *)

(* When all requests have been answered, tracks share a place only where   *)
(* requests ran at a time, and never more of them than there were requests,*)
(* unless a reordering was cut off in the middle; and every track has a    *)
(* place within the list, cut off or not.  Both are true of the page's     *)
(* lists.  The service takes lists that repeat a track, too, although its  *)
(* message says "no more and no fewer": they may leave a track behind the  *)
(* end, where one that is created later joins it, with no two requests at  *)
(* a time.  But then no more than twice as many share a place.             *)
SharedPlacesBounded ==
    LET n == Cardinality(scenario.requests)
        bound == IF Called("repeatTracks") THEN 2 * n ELSE n
    IN
    /\ ~Called("repeatTracks") => \A t \in DOMAIN places : places[t] < Len(places)
    /\ (~Called("abort") /\ \A p \in Requests : ordering[p] = IdleOrdering) =>
           \A k \in 0 .. MaxListed :
               Cardinality({t \in DOMAIN places : places[t] = k}) <= bound
=============================================================================
