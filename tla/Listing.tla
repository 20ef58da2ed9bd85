------------------------------ MODULE Listing ------------------------------
(***************************************************************************)
(* What the lists of an archive show to whom: its capture jobs and their   *)
(* items, its runs, its tags with their counts, and what a search for a    *)
(* tag finds.  A list is asked for page by page, and a detail or the tag   *)
(* tree is put together from several statements outside a transaction,     *)
(* while captures proceed and tags and masks change.  Jobs are numbered as *)
(* they are created, runs as they start; both are listed newest first.     *)
(***************************************************************************)
EXTENDS Integers, Sequences, FiniteSets

CONSTANTS
    Viewer,       \* accounts
    Boss,         \* those with ROLE_ADMIN
    Reading,      \* requests, each of one list or one detail
    Listable,     \* entries
    ListParent,   \* [Listable -> Listable \cup {NoParent}]
    NoParent,
    Label,        \* tags
    LabelAbove,   \* [Label -> Label \cup {NoLabel}]
    NoLabel,
    NoViewer,     \* created_by IS NULL: a job of old
    PageSize,     \* limit
    JobItemsMax,  \* JOB_ITEMS_MAX
    MaxJob,       \* bound: jobs
    MaxJobItems,  \* bound: items of a run
    MaxTagging    \* bound: changes of tags and masks

ASSUME ListingAssumption ==
    /\ Boss \subseteq Viewer /\ NoViewer \notin Viewer
    /\ NoParent \notin Listable /\ IsFiniteSet(Listable)
    /\ ListParent \in [Listable -> Listable \cup {NoParent}]
    /\ NoLabel \notin Label /\ LabelAbove \in [Label -> Label \cup {NoLabel}]
    /\ PageSize \in Nat \ {0} /\ {JobItemsMax, MaxTagging} \subseteq Nat

VARIABLES
    jobRows,   \* capture_jobs, each with the items of the run it began
    task,      \* [JobNo -> how far the task of a job is]
    faulty,    \* ghost: jobs a statement of whose task failed
    started,   \* archive_runs: the numbers of their jobs, in the order of started_at
    gone,      \* SUBSET Viewer: accounts that were deleted
    bared,     \* entries with a mask of their own that meets ROLE_USER
    labels,    \* SUBSET Label: the rows of tags
    labelled,  \* entry_tag_assignments
    taggings,
    reading    \* [Reading -> what was asked for and read so far]

jobVars == <<jobRows, task, faulty, started, gone>>
labelVars == <<labels, labelled>>
listingVars == <<jobVars, bared, labelVars, taggings, reading>>

JobNo == 1..Len(jobRows)
JobState == {"pending", "running", "completed", "failed"}
RunItem == [state : {"in_progress", "completed", "failed"}, made : Listable \cup {NoParent}]
NewRow(v) == [by |-> v, state |-> "pending", run |-> FALSE, items |-> <<>>]
Begun == {started[n] : n \in 1..Len(started)}
Produced(items) == {items[n].made : n \in 1..Len(items)} \ {NoParent}
Ended(j) == jobRows[j].state \in {"completed", "failed"}
Settled(items) == \A n \in 1..Len(items) : items[n].state # "in_progress"

----------------------------------------------------------------------------
(* entry_visible_to_caller_sql, and the rows of one shelf alone.             *)
SightedWith(rows, v, e) == v \in Boss \/ e \in rows \/ ListParent[e] \in rows
Sighted(v, e) == SightedWith(bared, v, e)
OnOwnMask(v, e) == v \in Boss \/ e \in bared

(* caller_user_uid: the account may be gone since the request was let in.    *)
UidOf(v) == IF v \in gone THEN NoViewer ELSE v

(* list_capture_jobs_handler: whose jobs are listed for created_by = whom;   *)
(* nobody's if the request is refused.                                       *)
OwnersListed(v, whom) ==
    IF UidOf(v) = NoViewer THEN {}
    ELSE IF whom = "all" /\ v \in Boss THEN Viewer \cup {NoViewer}
    ELSE IF whom \in {"all", "me"} THEN {v}
    ELSE IF whom = v \/ v \in Boss THEN {whom} ELSE {}
JobsBy(v, owners) == IF v \in gone THEN {} ELSE {j \in JobNo : jobRows[j].by \in owners}

(* get_job_detail: whom a job is not hidden from.  A slip: an account that   *)
(* is gone passes for the owner of a job without one.                        *)
OpensUnknown(v, j) == v \in Boss \/ jobRows[j].by = UidOf(v)
OpensTo(v, j) == v \in Boss \/ (UidOf(v) # NoViewer /\ jobRows[j].by = UidOf(v))

(* list_runs_for_caller: the runs v may see, by the numbers of their jobs.   *)
RunsOf(v) ==
    {j \in Begun : \/ v \in Boss \/ (v \notin gone /\ jobRows[j].run /\ jobRows[j].by = v)
                   \/ \E e \in Produced(jobRows[j].items) : Sighted(v, e)}

(* ORDER BY ... DESC LIMIT PageSize OFFSET offset, of the rows that may be   *)
(* seen.  Later: how many of them come before a row.  A slip: the page is    *)
(* cut before the rows are picked.                                           *)
StartedAt(j) == CHOOSE n \in 1..Len(started) : started[n] = j
After(kind, j, k) == IF kind = "runs" THEN StartedAt(k) > StartedAt(j) ELSE k > j
CutFirst(kind, rows, all, offset) ==
    {j \in rows : Cardinality({k \in all : After(kind, j, k)}) \in offset .. offset + PageSize - 1}
Cut(kind, rows, all, offset) ==
    {j \in rows : Cardinality({k \in rows : After(kind, j, k)}) \in offset .. offset + PageSize - 1}

RowsFor(r) == IF reading[r].kind = "runs" THEN RunsOf(reading[r].who)
              ELSE JobsBy(reading[r].who, reading[r].owners)
AllRows(r) == IF reading[r].kind = "runs" THEN Begun ELSE JobNo

----------------------------------------------------------------------------
Unread == [at |-> "idle", kind |-> "none", who |-> NoViewer, owners |-> {}, job |-> 0,
           row |-> NewRow(NoViewer), made |-> {}, offset |-> 0, began |-> {}, got |-> {}, moved |-> FALSE,
           nodes |-> {}, direct |-> [t \in Label |-> 0], below |-> [t \in Label |-> 0], seen |-> {}]

ListingInit ==
    /\ jobRows \in {<<>>, <<[NewRow(NoViewer) EXCEPT !.state = "failed"]>>}
    /\ task = [j \in JobNo |-> "over"] /\ faulty = {}
    /\ started = <<>> /\ gone = {}
    /\ bared \in SUBSET Listable
    /\ labels = Label /\ labelled = {} /\ taggings = 0
    /\ reading = [r \in Reading |-> Unread]

(* The pages under way whose rows are not the same any longer, and what the  *)
(* readers of the tag tree have been able to see.                            *)
Waiting == {r \in Reading : reading[r].at \notin {"idle", "done"}}
Paging(r) == reading[r].at = "page"
Overtakes ==
    reading' = [r \in Reading |->
        IF r \notin Waiting THEN reading[r]
        ELSE [reading[r] EXCEPT !.moved = TRUE,
                                !.seen = @ \cup {e \in Listable : SightedWith(bared', reading[r].who, e)}]]

(* capture_handler and its task, as far as the lists show it.  Each action is *)
(* a statement, and may fail: what the task goes on with then, it does.      *)
listsRest == <<gone, bared, labelVars, taggings, reading>>
FaultyIf(j, bad) == faulty' = IF bad THEN faulty \cup {j} ELSE faulty
JobGoes(j, s) == jobRows' = [jobRows EXCEPT ![j].state = s]
TaskGoes(j, t) == task' = [task EXCEPT ![j] = t]

SubmitJob(v) ==
    /\ Len(jobRows) < MaxJob /\ v \notin gone
    /\ jobRows' = Append(jobRows, NewRow(v)) /\ task' = Append(task, "spawned")
    /\ UNCHANGED <<faulty, started, listsRest>>
(* The task sets the job running, and goes on if that fails; without a       *)
(* connection it returns.                                                    *)
TakeUp(j) ==
    /\ task[j] = "spawned"
    /\ \/ JobGoes(j, "running") /\ TaskGoes(j, "works") /\ UNCHANGED faulty
       \/ (TaskGoes(j, "works") \/ TaskGoes(j, "over")) /\ FaultyIf(j, TRUE) /\ UNCHANGED jobRows
    /\ UNCHANGED <<started, listsRest>>

StartRun(j) ==
    /\ task[j] = "works" /\ j \notin Begun /\ started' = Append(started, j)
    /\ UNCHANGED <<jobRows, task, faulty, listsRest>>
LinkRun(j) ==
    /\ task[j] = "works" /\ j \in Begun /\ jobRows[j].items = <<>>
    /\ jobRows' = [jobRows EXCEPT ![j].run = TRUE]
    /\ UNCHANGED <<task, faulty, started, listsRest>>

(* The root item, then those of a playlist whose container was made.  If the *)
(* link failed there is none; if the update that fails a child did, the      *)
(* child stays open.                                                         *)
MadeRoot(items) == items # <<>> /\ items[1].state = "completed"
Sound(row) == row.run /\ Settled(row.items)
AddItem(j) ==
    /\ task[j] = "works" /\ j \in Begun /\ Len(jobRows[j].items) < MaxJobItems
    /\ jobRows[j].items = <<>> \/ MadeRoot(jobRows[j].items)
    /\ jobRows' = [jobRows EXCEPT
           ![j].items = Append(jobRows[j].items, [state |-> "in_progress", made |-> NoParent])]
    /\ FaultyIf(j, ~Sound(jobRows[j])) /\ UNCHANGED <<task, started, listsRest>>
LastItem(j) == jobRows[j].items[Len(jobRows[j].items)]
SettleItem(j) ==
    /\ task[j] = "works" /\ jobRows[j].items # <<>> /\ LastItem(j).state = "in_progress"
    /\ \E e \in Listable \cup {NoParent} :
        jobRows' = [jobRows EXCEPT ![j].items[Len(jobRows[j].items)] =
                       [state |-> IF e = NoParent THEN "failed" ELSE "completed", made |-> e]]
    /\ UNCHANGED <<task, faulty, started, listsRest>>
(* An entry is recorded up to its item, but a statement behind that fails.   *)
FailRecorded(j) ==
    /\ task[j] = "works" /\ jobRows[j].items # <<>> /\ LastItem(j).state = "completed"
    /\ jobRows' = [jobRows EXCEPT ![j].items[Len(jobRows[j].items)].state = "failed"]
    /\ FaultyIf(j, TRUE) /\ UNCHANGED <<task, started, listsRest>>

(* perform_capture returned, and the last update of the job is made, or      *)
(* fails in its turn.                                                        *)
CloseJob(j, rows, bad) ==
    /\ task[j] = "works" /\ TaskGoes(j, "over")
    /\ \/ (\E row \in rows : jobRows' = [jobRows EXCEPT ![j] = row]) /\ FaultyIf(j, bad)
       \/ UNCHANGED jobRows /\ FaultyIf(j, TRUE)
    /\ UNCHANGED <<started, listsRest>>

(* Ok, with the status of the run and the count of the children that were    *)
(* made; a status that cannot be read is completed, such a count none.       *)
SomeFailed(items) == \E n \in 1..Len(items) : items[n].state = "failed"
MadeChild(items) == \E n \in 2..Len(items) : items[n].state = "completed"
Verdict(items) == IF SomeFailed(items) /\ ~MadeChild(items) THEN "failed" ELSE "completed"
Misread(items) == IF SomeFailed(items) THEN {"completed", "failed"} ELSE {"completed"}
EndsAs(row, states) == {[row EXCEPT !.state = s, !.run = TRUE] : s \in states}
FinishJob(j) ==
    /\ MadeRoot(jobRows[j].items)
    /\ \/ CloseJob(j, EndsAs(jobRows[j], {Verdict(jobRows[j].items)}), ~Sound(jobRows[j]))
       \/ CloseJob(j, EndsAs(jobRows[j], Misread(jobRows[j].items)), TRUE)

(* Err: no run is begun, or fail_run has failed the root item; after any     *)
(* other statement the items are left as they are.                           *)
LostRoot(items) == items # <<>> /\ items[1].state = "failed"
FailJob(j) ==
    CloseJob(j, {[jobRows[j] EXCEPT !.state = "failed"]}, j \in Begun /\ ~LostRoot(jobRows[j].items))

(* A crash, and the recovery at startup, of which a statement may fail.  A   *)
(* slip: the jobs are failed before the items.                               *)
Stopped(items) ==
    [n \in 1..Len(items) |->
        IF items[n].state = "in_progress" THEN [items[n] EXCEPT !.state = "failed"] ELSE items[n]]
JobsFirst(row, done) ==
    [row EXCEPT !.items = IF done = 3 THEN Stopped(row.items) ELSE row.items,
                !.state = IF done >= 1 /\ row.state = "running" THEN "failed" ELSE row.state]
Recovered(row, done) ==
    [row EXCEPT !.items = IF done >= 1 THEN Stopped(row.items) ELSE row.items,
                !.state = IF done = 3 /\ row.state = "running" THEN "failed" ELSE row.state]
Restart ==
    /\ task' = [j \in JobNo |-> "over"]
    /\ \E done \in 0..3 : jobRows' = [j \in JobNo |-> Recovered(jobRows[j], done)]
    /\ reading' = [r \in Reading |-> IF r \in Waiting THEN Unread ELSE reading[r]]
    /\ UNCHANGED <<faulty, started, gone, bared, labelVars, taggings>>

(* delete_user: the jobs keep the uid of their author.                       *)
DeleteAccount(v) ==
    /\ v \notin gone \cup Boss /\ gone' = gone \cup {v}
    /\ UNCHANGED <<jobRows, task, faulty, started, bared, labelVars, taggings>> /\ Overtakes

(* The mask of an entry's row is changed.                                    *)
ChangeMask(e) ==
    /\ taggings < MaxTagging /\ taggings' = taggings + 1
    /\ bared' = IF e \in bared THEN bared \ {e} ELSE bared \cup {e}
    /\ Overtakes
    /\ UNCHANGED <<jobVars, labelVars>>

----------------------------------------------------------------------------
(* A client that asks for page after page until one is short.                *)
AskList(r, v, k, w) ==
    /\ reading[r].at = "idle" /\ v \notin gone
    /\ LET asks == [Unread EXCEPT !.at = "page", !.kind = k, !.who = v]
       IN  reading' = [reading EXCEPT ![r] =
               IF k = "runs" THEN [asks EXCEPT !.began = RunsOf(v)]
               ELSE [asks EXCEPT !.owners = OwnersListed(v, w), !.began = JobsBy(v, OwnersListed(v, w))]]
    /\ UNCHANGED <<jobVars, bared, labelVars, taggings>>
ReadPage(r) ==
    /\ Paging(r)
    /\ LET page == Cut(reading[r].kind, RowsFor(r), AllRows(r), reading[r].offset)
       IN  reading' = [reading EXCEPT ![r].got = @ \cup page, ![r].offset = @ + PageSize,
                                      ![r].at = IF Cardinality(page) < PageSize THEN "done" ELSE "page"]
    /\ UNCHANGED <<jobVars, bared, labelVars, taggings>>

(* get_capture_job_handler: the row of the job, then the items of the run it *)
(* is linked to that are shown, and what all of them made.                   *)
AskJob(r, v, j) ==
    /\ reading[r].at = "idle"
    /\ reading' = [reading EXCEPT ![r] =
           [Unread EXCEPT !.kind = "job", !.who = v, !.job = j, !.row = jobRows[j],
                          !.at = IF OpensTo(v, j) THEN "items" ELSE "refused"]]
    /\ UNCHANGED <<jobVars, bared, labelVars, taggings>>
FirstItems(items) == SubSeq(items, 1, IF Len(items) < JobItemsMax THEN Len(items) ELSE JobItemsMax)
(* Slips: the items are read before the row; entries of the items shown.     *)
RowLate(row, now) == [row |-> [now EXCEPT !.items = FirstItems(row.items)], made |-> Produced(row.items)]
OfThoseShown(row, now) == [row |-> [row EXCEPT !.items = FirstItems(now.items)],
                           made |-> Produced(FirstItems(now.items))]
ItemsOf(row, now) == IF row.run THEN now.items ELSE <<>>
DetailOf(row, now) ==
    [row |-> [row EXCEPT !.items = FirstItems(ItemsOf(row, now))], made |-> Produced(ItemsOf(row, now))]
ReadItems(r) ==
    /\ reading[r].at = "items"
    /\ LET told == DetailOf(reading[r].row, jobRows[reading[r].job])
       IN  reading' = [reading EXCEPT ![r].at = "done", ![r].row = told.row, ![r].made = told.made]
    /\ UNCHANGED <<jobVars, bared, labelVars, taggings>>

----------------------------------------------------------------------------
(* Tags: who reads the tree reads the rows, the entries of each tag, and     *)
(* those of each subtree, in three statements.                               *)
ClosedBelow(S) == \A u \in labels : LabelAbove[u] \in S => u \in S
LabelledBelow(t) ==  \* descendants: the least set with t and what is below those in it
    {u \in labels : t \in labels /\ \A S \in SUBSET labels : t \in S /\ ClosedBelow(S) => u \in S}
EntriesFor(t) == {e \in Listable : \E u \in LabelledBelow(t) : <<u, e>> \in labelled}
DirectOf(t) == {e \in Listable : t \in labels /\ <<t, e>> \in labelled}

(* search_entries within _default_, with a tag.                              *)
FoundFor(v, t) == {e \in EntriesFor(t) : OnOwnMask(v, e)}

(* The counts of a subtree.  Slips: assignments are counted; nobody asks who *)
(* the reader is.                                                            *)
CountAssigned(v, t) ==
    Cardinality({x \in labelled : x[1] \in LabelledBelow(t) /\ Sighted(v, x[2])})
CountHidden(v, t) == Cardinality(EntriesFor(t))
CountBelow(v, t) == Cardinality({e \in EntriesFor(t) : Sighted(v, e)})
CountDirect(v, t) == Cardinality({e \in DirectOf(t) : Sighted(v, e)})

AskTree(r, v) ==
    /\ reading[r].at = "idle" /\ v \notin gone
    /\ reading' = [reading EXCEPT ![r] =
           [Unread EXCEPT !.at = "direct", !.kind = "tree", !.who = v, !.nodes = labels,
                          !.seen = {e \in Listable : Sighted(v, e)}]]
    /\ UNCHANGED <<jobVars, bared, labelVars, taggings>>
CountTags(r) ==
    /\ reading[r].at = "direct"
    /\ reading' = [reading EXCEPT ![r].at = "below",
                      ![r].direct = [t \in Label |-> CountDirect(reading[r].who, t)]]
    /\ UNCHANGED <<jobVars, bared, labelVars, taggings>>
CountSubtrees(r) ==
    /\ reading[r].at = "below"
    /\ reading' = [reading EXCEPT ![r].at = "done",
                      ![r].below = [t \in Label |-> CountBelow(reading[r].who, t)]]
    /\ UNCHANGED <<jobVars, bared, labelVars, taggings>>

(* A tag is assigned or taken away, or deleted with those below it.          *)
Relabel(t, e) ==
    /\ taggings < MaxTagging /\ taggings' = taggings + 1 /\ t \in labels
    /\ labelled' = IF <<t, e>> \in labelled THEN labelled \ {<<t, e>>} ELSE labelled \cup {<<t, e>>}
    /\ UNCHANGED <<jobVars, bared, labels>> /\ Overtakes
(* ON DELETE CASCADE of the assignments.  A slip: those of the tag alone.    *)
UnassignOne(t) == {x \in labelled : x[1] # t}
Unassign(t) == {x \in labelled : x[1] \notin LabelledBelow(t)}
DeleteLabel(t) ==
    /\ taggings < MaxTagging /\ taggings' = taggings + 1 /\ t \in labels
    /\ labels' = labels \ LabelledBelow(t)
    /\ labelled' = Unassign(t)
    /\ UNCHANGED <<jobVars, bared>> /\ Overtakes

JobSteps ==
    \/ \E v \in Viewer : SubmitJob(v) \/ DeleteAccount(v)
    \/ \E j \in JobNo : TakeUp(j) \/ StartRun(j) \/ LinkRun(j) \/ FinishJob(j) \/ FailJob(j)
    \/ \E j \in JobNo : AddItem(j) \/ SettleItem(j) \/ FailRecorded(j)
    \/ Restart
    \/ \E r \in Reading : ReadPage(r) \/ ReadItems(r)
    \/ \E r \in Reading, v \in Viewer :
        \/ \E k \in {"jobs", "runs"}, w \in {"all", "me"} \cup Viewer : AskList(r, v, k, w)
        \/ \E j \in JobNo : AskJob(r, v, j)
LabelSteps ==
    \/ \E t \in Label : DeleteLabel(t) \/ \E e \in Listable : Relabel(t, e)
    \/ \E r \in Reading : CountTags(r) \/ CountSubtrees(r) \/ \E v \in Viewer : AskTree(r, v)
ListingNext == JobSteps \/ LabelSteps \/ \E e \in Listable : ChangeMask(e)
ListingSpec == ListingInit /\ [][ListingNext]_listingVars

----------------------------------------------------------------------------
ListingTypeOK ==
    /\ jobRows \in Seq([by : Viewer \cup {NoViewer}, state : JobState, run : BOOLEAN, items : Seq(RunItem)])
    /\ task \in [JobNo -> {"spawned", "works", "over"}] /\ faulty \subseteq JobNo
    /\ started \in Seq(JobNo) /\ gone \subseteq Viewer /\ bared \subseteq Listable
    /\ labels \subseteq Label /\ labelled \subseteq labels \X Listable /\ taggings \in 0..MaxTagging
    /\ \A r \in Reading : reading[r].at \in {"idle", "page", "items", "refused", "direct", "below", "done"}

Answered(k) == {r \in Reading : reading[r].at = "done" /\ reading[r].kind \in k}

(* Who pages through a list misses nothing that was there when they began,   *)
(* unless their account went or, for runs, masks changed since, however many *)
(* captures are submitted and started in between (list_capture_jobs,         *)
(* list_runs_for_caller).                                                    *)
NothingIsSkipped ==
    \A r \in Answered({"jobs", "runs"}) :
        ~reading[r].moved \/ (reading[r].kind = "jobs" /\ reading[r].who \notin gone) =>
            reading[r].began \subseteq reading[r].got

(* What a list of jobs names opens for its reader, and a job without an      *)
(* author opens for an administrator only (list_capture_jobs_handler,        *)
(* get_job_detail).                                                          *)
ListedJobsOpen ==
    /\ \A r \in Answered({"jobs"}), j \in JobNo :
        j \in reading[r].got /\ reading[r].who \notin gone => OpensTo(reading[r].who, j)
    /\ \A r \in Answered({"job"}) :
        reading[r].who \in Boss \/ reading[r].row.by = reading[r].who

(* A job that is told to have ended is told with how all its items ended and *)
(* with every entry they made, even if not all of them are shown, unless a   *)
(* statement of its own task failed; and if it is told of a run at all, then *)
(* with every entry even so (get_job_detail, list_job_items).                *)
EndedJobsAreTold ==
    \A r \in Answered({"job"}) :
        LET told == reading[r]
            made == Produced(jobRows[told.job].items)
        IN  told.row.state \in {"completed", "failed"} =>
                /\ told.row.run => told.made = made
                /\ told.job \notin faulty => Settled(told.row.items) /\ told.made = made

(* The counts of the tag tree tell of no entry that its reader could not see *)
(* while they asked, no tag is told without the one above it, and a search   *)
(* for a tag never finds more than its count says (list_tag_tree,            *)
(* search_entries).                                                          *)
TreeTellsWhatIsSeen ==
    /\ \A v \in Viewer, t \in Label : Cardinality(FoundFor(v, t)) <= CountBelow(v, t)
    /\ \A r \in Answered({"tree"}), t \in Label :
        LET told == reading[r]
        IN  /\ told.below[t] <= Cardinality(told.seen)
            /\ t \in told.nodes /\ LabelAbove[t] # NoLabel => LabelAbove[t] \in told.nodes
            /\ ~told.moved => told.direct[t] <= told.below[t]

JobsTellTheTruth == NothingIsSkipped /\ ListedJobsOpen /\ EndedJobsAreTold
ListsTellTheTruth == JobsTellTheTruth /\ TreeTellsWhatIsSeen
=============================================================================
