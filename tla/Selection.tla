------------------------------ MODULE Selection ------------------------------
(***************************************************************************)
(* The list of entries in the web interface and what is selected in it.    *)
(* The list is loaded again for every change of query, collection or tag,  *)
(* after captures and deletions, without passing the loads under way.      *)
(* Rows are selected by clicks and keys; a row the list does not hold, a   *)
(* member of a container, is fetched before it is shown, under a token     *)
(* that later clicks and keys pass.  The rail shows what is selected       *)
(* (Rail).                                                                 *)
(***************************************************************************)
EXTENDS Naturals, FiniteSets

CONSTANTS
    RootRow, MemberRow,     \* entries in the list, and below an entry of it
    Query, Found,           \* queries, and [Query -> SUBSET RootRow]: what they find
    MaxLoads                \* bound: loads of the list under way

ASSUME SelectionAssumption ==
    /\ RootRow \cap MemberRow = {} /\ "none" \notin RootRow \cup MemberRow /\ IsFiniteSet(RootRow \cup MemberRow)
    /\ Query # {} /\ Found \in [Query -> SUBSET RootRow] /\ MaxLoads \in Nat

VARIABLES
    existing,   \* entries at the server
    query,      \* searchQuery, tagFilter and selectedCollectionUid
    timed,      \* BOOLEAN: a debounced load is due
    listed,     \* entries: [of |-> query, rows |-> SUBSET RootRow]
    loads,      \* loads under way
    picked,     \* selectedUids
    selectedRow, \* selectedEntry, or "none"
    known,      \* entryCacheRef: members that were clicked
    fetches,    \* members that are fetched: [row, live]
    outrun,     \* ghost: a load was under way with one of another query, or with a deletion
    strayed     \* ghost: a fetch under way failed, or was overtaken by Escape or a deletion

listVars == <<existing, query, timed, listed, loads, outrun>>
pickVars == <<picked, selectedRow, known, fetches, strayed>>
selectionVars == <<listVars, pickVars>>

Entries == RootRow \cup MemberRow

SelectionInit ==
    /\ existing = Entries /\ query \in Query /\ timed = FALSE /\ loads = {}
    /\ listed = [of |-> query, rows |-> Found[query]] /\ outrun = FALSE
    /\ picked = {} /\ selectedRow = "none" /\ known = {} /\ fetches = {} /\ strayed = FALSE

----------------------------------------------------------------------------
(* The list. *)
Load(q) ==
    /\ loads' = loads \cup {[query |-> q, answered |-> FALSE, rows |-> {}]}
    /\ outrun' = (outrun \/ \E l \in loads : l.query # q)
MayLoad == Cardinality(loads) < MaxLoads

(* A search is loaded when typing has stopped: every key starts the wait     *)
(* again.  A collection or a tag is loaded at once, and again then.          *)
Typed(q) ==
    /\ q # query /\ query' = q /\ timed' = TRUE /\ UNCHANGED <<existing, listed, loads, outrun, pickVars>>
Narrowed(q) ==
    /\ q # query /\ MayLoad /\ query' = q /\ timed' = TRUE /\ Load(q)
    /\ UNCHANGED <<existing, listed, pickVars>>
Debounced ==
    /\ timed /\ MayLoad /\ timed' = FALSE /\ Load(query) /\ UNCHANGED <<existing, query, listed, pickVars>>
Captured == MayLoad /\ Load(query) /\ UNCHANGED <<existing, query, timed, listed, pickVars>>

AnswerLoad(l) ==
    /\ ~l.answered
    /\ loads' = (loads \ {l}) \cup {[l EXCEPT !.answered = TRUE, !.rows = Found[l.query] \cap existing]}
    /\ UNCHANGED <<existing, query, timed, listed, outrun, pickVars>>

(* What an effect makes of a new selection: several rows or none show no     *)
(* entry, and a single one that is listed is shown.                          *)
Single(S) == Cardinality(S) = 1
ShownOf(S, row, rows) ==
    IF ~Single(S) THEN "none" ELSE IF row = "none" /\ S \subseteq rows THEN CHOOSE e \in S : TRUE ELSE row

(* Rows that are no longer listed leave a selection of several. *)
LoadArrives(l) ==
    /\ l.answered /\ loads' = loads \ {l} /\ listed' = [of |-> l.query, rows |-> l.rows]
    /\ picked' = (IF Cardinality(picked) < 2 THEN picked ELSE picked \cap l.rows)
    /\ selectedRow' = (IF picked' = picked /\ ~Single(picked) THEN selectedRow ELSE ShownOf(picked', selectedRow, l.rows))
    /\ UNCHANGED <<existing, query, timed, outrun, known, fetches, strayed>>

(* A deletion: at the server, then in the list, which is loaded again for a  *)
(* member.  Deleted rows leave the selection.                                *)
DeleteRow(e) == existing' = existing \ {e} /\ UNCHANGED <<query, timed, listed, loads, outrun, pickVars>>
Deleted(e) ==
    /\ e \in Entries \ existing /\ (e \in listed.rows \/ e \in picked)
    /\ listed' = [listed EXCEPT !.rows = @ \ {e}]
    /\ picked' = picked \ {e}
    /\ selectedRow' =
        LET left == IF selectedRow = e THEN "none" ELSE selectedRow
        IN  IF picked' = picked THEN left ELSE ShownOf(picked', left, listed'.rows)
    /\ IF e \in listed.rows
       THEN UNCHANGED loads /\ outrun' = (outrun \/ loads # {})
       ELSE MayLoad /\ Load(query)
    /\ strayed' = (strayed \/ \E f \in fetches : f.live)
    /\ UNCHANGED <<existing, query, timed, known, fetches>>

----------------------------------------------------------------------------
(* The selection. *)
Passed == {[f EXCEPT !.live = FALSE] : f \in fetches}
Resolved(e) == e \in known \cup listed.rows

Click(e) ==
    /\ e \in listed.rows \cup MemberRow
    /\ known' = known \cup {e} /\ fetches' = Passed /\ picked' = {e} /\ selectedRow' = e /\ strayed' = FALSE
    /\ UNCHANGED listVars

(* One row is left: shown if it is known, else when it is fetched. *)
CtrlClick(e) ==
    LET S == IF e \in picked THEN picked \ {e} ELSE picked \cup {e}
        left == CHOOSE x \in S : TRUE
    IN  /\ e \in listed.rows \cup MemberRow
        /\ known' = known \cup {e} /\ picked' = S
        /\ IF Single(S) /\ ~(left \in known' \cup listed.rows)
           THEN fetches' = Passed \cup {[row |-> left, live |-> TRUE]} /\ selectedRow' = ShownOf(S, selectedRow, listed.rows)
           ELSE fetches' = Passed /\ selectedRow' = (IF Single(S) THEN left ELSE "none")
        /\ strayed' = FALSE
        /\ UNCHANGED listVars

ShiftClick(S) ==
    /\ S \subseteq listed.rows \cup MemberRow /\ S # {}
    /\ \E e \in S : known' = known \cup {e}
    /\ fetches' = Passed /\ picked' = S /\ selectedRow' = (IF Single(S) THEN CHOOSE e \in S : TRUE ELSE "none")
    /\ strayed' = FALSE /\ UNCHANGED listVars

(* j and k. *)
PressKey(e) ==
    /\ e \in listed.rows \cup MemberRow /\ picked # {e} /\ picked' = {e}
    /\ IF Resolved(e)
       THEN selectedRow' = e /\ fetches' = Passed /\ strayed' = FALSE
       ELSE /\ fetches' = Passed \cup {[row |-> e, live |-> TRUE]} /\ UNCHANGED <<selectedRow, strayed>>
    /\ UNCHANGED <<known, listVars>>

FetchArrives(f) ==
    /\ fetches' = fetches \ {f}
    /\ IF f.live /\ f.row \in existing
       THEN selectedRow' = f.row /\ UNCHANGED strayed
       ELSE strayed' = (strayed \/ f.live) /\ UNCHANGED selectedRow
    /\ UNCHANGED <<picked, known, listVars>>
FetchFails(f) ==
    /\ fetches' = fetches \ {f} /\ strayed' = (strayed \/ f.live)
    /\ UNCHANGED <<picked, selectedRow, known, listVars>>

(* Escape does not pass a fetch. *)
Escape ==
    /\ picked # {} /\ picked' = {} /\ selectedRow' = "none"
    /\ strayed' = (strayed \/ \E f \in fetches : f.live) /\ UNCHANGED <<known, fetches, listVars>>

SelectionNext ==
    \/ Debounced \/ Captured \/ Escape
    \/ \E q \in Query : Typed(q) \/ Narrowed(q)
    \/ \E l \in loads : AnswerLoad(l) \/ LoadArrives(l)
    \/ \E e \in existing : DeleteRow(e)
    \/ \E e \in Entries : Deleted(e) \/ Click(e) \/ CtrlClick(e) \/ PressKey(e)
    \/ \E S \in SUBSET Entries : ShiftClick(S)
    \/ \E f \in fetches : FetchArrives(f) \/ FetchFails(f)
SelectionSpec == SelectionInit /\ [][SelectionNext]_selectionVars

----------------------------------------------------------------------------
(* Properties. *)

SelectionTypeOK ==
    /\ existing \subseteq Entries /\ query \in Query /\ timed \in BOOLEAN /\ listed.rows \subseteq RootRow
    /\ picked \subseteq Entries /\ selectedRow \in Entries \cup {"none"} /\ known \subseteq Entries
    /\ \A f \in fetches : f.row \in Entries

(* The entry that is shown, and that the buttons of the rail act on, is the  *)
(* one row that is picked, unless the row is still fetched; or its fetch     *)
(* failed, or was overtaken by Escape or a deletion, which do not pass it    *)
(* (handleRowClick, the handlers of keys, and jkSeqRef).                     *)
SelectionAgrees ==
    selectedRow # "none" => picked = {selectedRow} \/ strayed \/ \E f \in fetches : f.live

(* When nothing is loaded or due, the list is one of the present query,      *)
(* unless a load was under way with one of another query: loads carry no     *)
(* token, and the last to arrive is shown (loadEntries, the debounce).       *)
ListIsOfTheQuery ==
    loads = {} /\ ~timed => listed.of = query \/ outrun
=============================================================================
