----------------------------- MODULE SiteAdmin -----------------------------
(***************************************************************************)
(* SitesPage with its SiteDetail: the list of sites, the site that is      *)
(* selected, the dialogs that create, edit and delete sites, lines and     *)
(* machines, the requests they send, the cached list, the cached details   *)
(* and the tables sites, production_lines and machines.                    *)
(*                                                                         *)
(* Two kinds of entries say how many lines a site has, and the hooks       *)
(* invalidate now one, now both; some wait for the refetch and some do     *)
(* not.  The page selects a site by itself when none is.                   *)
(***************************************************************************)
EXTENDS Integers, QueryCache

CONSTANTS
    Plant,          \* sites
    Part,           \* production lines and machines
    PlantOf,        \* the site a part belongs to
    Within,         \* the parts that are deleted with a part: a line's machines
    NoPlant,        \* none is selected
    NoPart,
    FirstTrees,     \* what the tables may hold when the page is opened
    MaxTreeWrites   \* bound: writes to the tables

ASSUME TreeConstants ==
    /\ PlantOf \in [Part -> Plant]
    /\ Within \in [Part -> SUBSET Part]
    /\ \A p \in Part : p \in Within[p] /\ \A q \in Within[p] : PlantOf[q] = PlantOf[p]
    /\ NoPlant \notin Plant
    /\ MaxTreeWrites \in Nat

VARIABLES
    tree,         \* the tables
    treeWrites,   \* how often they were written
    listQuery,    \* the cache entry ['admin-sites']
    detailQuery,  \* the entries ['site-detail', id]
    selected,     \* selectedSiteId
    modal,        \* the dialog that is open
    treeCall,     \* the request in flight, and (history) the part it made
    done          \* history: own, whether the last write is that of the part's creation
                  \* or deletion in flight, with its site selected since; last, the
                  \* deletion of a part that concluded so, with no write since; and the
                  \* sites whose deletion was concluded, unless the refetch it waited
                  \* for failed

treeVars == <<tree, treeWrites, listQuery, detailQuery, selected, modal, treeCall, done>>

\* used: the ids that were given out, which are not given out again.
Tree == {t \in [plants : SUBSET Plant, parts : SUBSET Part, used : SUBSET (Plant \cup Part)] :
            /\ t.plants \cup t.parts \subseteq t.used
            /\ \A p \in t.parts : PlantOf[p] \in t.plants}
ASSUME FirstTreesAreTrees == FirstTrees \subseteq Tree

\* The parts stand for line_count and machine_count of every site.
Sites  == [plants : SUBSET Plant, parts : SUBSET Part]
Detail == SUBSET Part
ASSUME NoSitesAreUndefined == \A data \in Sites \cup Detail : data # NoData

\* What a dialog is about, and a request: a new site, an edited one, a new or
\* edited line or machine, a deletion.
NoTask == [kind |-> "none", of |-> NoPlant, part |-> NoPart]
NewSite == [kind |-> "new site", of |-> NoPlant, part |-> NoPart]
PartTask(p) == [kind : {"edit part", "delete part"}, of : {PlantOf[p]}, part : {p}]
Request == {NewSite} \cup (UNION {PartTask(p) : p \in Part}) \cup
           [kind : {"edit site", "delete site", "new part"}, of : Plant, part : {NoPart}]
Task == Request \cup {NoTask}
NoTreeCall == [stage |-> "none", task |-> NoTask, made |-> {}]

TreeInit ==
    /\ tree \in FirstTrees
    /\ treeWrites = 0
    /\ listQuery = [Empty EXCEPT !.fetch = "asked"]
    /\ detailQuery = [p \in Plant |-> Empty]
    /\ selected = NoPlant
    /\ modal = NoTask
    /\ treeCall = NoTreeCall
    /\ done = [last |-> NoTask, own |-> FALSE, deleted |-> {}]

ListedPlants == IF listQuery.data = NoData THEN {} ELSE listQuery.data.plants

-----------------------------------------------------------------------------
(* The page. *)

PageOnly == UNCHANGED <<tree, treeWrites, listQuery, treeCall>>

\* A site that is shown is asked for.
Show(p) ==
    /\ selected' = p
    /\ detailQuery' = [detailQuery EXCEPT ![p] = Ask(@)]
    /\ done' = [done EXCEPT !.last = NoTask, !.own = FALSE]

SelectPlant(p) ==
    /\ modal = NoTask
    /\ p \in ListedPlants
    /\ Show(p)
    /\ PageOnly /\ UNCHANGED modal

\* The effect on [sites, selectedSiteId] takes the first one of the list; which
\* that is the names decide.  Nobody clicks before it has run.
SelectFirst(p) ==
    /\ selected = NoPlant
    /\ p \in ListedPlants
    /\ Show(p)
    /\ PageOnly /\ UNCHANGED modal

\* The buttons of the list and of the detail.
Offered(task) ==
    \/ task = NewSite
    \/ /\ selected # NoPlant /\ task.of = selected
       /\ detailQuery[selected].data # NoData
       /\ task.part # NoPart => task.part \in detailQuery[selected].data

OpenModal(task) ==
    /\ modal = NoTask
    /\ Offered(task)
    /\ modal' = task
    /\ PageOnly /\ UNCHANGED <<selected, detailQuery, done>>

\* A request under way does not keep a dialog from being closed.
CloseModal ==
    /\ modal # NoTask
    /\ modal' = NoTask
    /\ PageOnly /\ UNCHANGED <<selected, detailQuery, done>>

\* One request at a time, where the page lets every dialog have one of its own.
Confirm ==
    /\ modal # NoTask
    /\ treeCall = NoTreeCall
    /\ treeCall' = [stage |-> "sent", task |-> modal, made |-> {}]
    /\ done' = [done EXCEPT !.last = NoTask, !.own = FALSE]
    /\ UNCHANGED <<tree, treeWrites, listQuery, detailQuery, selected, modal>>

-----------------------------------------------------------------------------
(* The server. *)

WriteTree(new, own) ==
    /\ treeWrites < MaxTreeWrites
    /\ treeWrites' = treeWrites + 1
    /\ tree' = new
    /\ done' = [done EXCEPT !.last = NoTask, !.own = own]
    /\ UNCHANGED <<listQuery, detailQuery, selected, modal>>

\* What is within a deleted row is deleted with it.
WithPlant(p) == [tree EXCEPT !.plants = @ \cup {p}, !.used = @ \cup {p}]
WithPart(p) == [tree EXCEPT !.parts = @ \cup {p}, !.used = @ \cup {p}]
WithoutPlantAlone(p) == [tree EXCEPT !.plants = @ \ {p}] \* mutant of WithoutPlant: no cascade
WithoutPlant(p) == [tree EXCEPT !.plants = @ \ {p}, !.parts = {q \in @ : PlantOf[q] # p}]
WithoutPart(p) == [tree EXCEPT !.parts = @ \ Within[p]]

\* The tables a request may lead to.
Carried(task) ==
    CASE task.kind = "new site"    -> {WithPlant(p) : p \in Plant \ tree.used}
      [] task.kind = "new part"    -> {WithPart(p) : p \in {q \in Part \ tree.used :
                                        PlantOf[q] = task.of /\ task.of \in tree.plants}}
      [] task.kind = "delete site" -> {WithoutPlant(task.of)}
      [] task.kind = "delete part" -> {WithoutPart(task.part)}
      [] OTHER                     -> {tree}

MakesOrDeletesPart(task) == task.kind \in {"new part", "delete part"}

ApplyTask ==
    /\ treeCall.stage = "sent"
    /\ \E new \in Carried(treeCall.task) :
        /\ WriteTree(new, MakesOrDeletesPart(treeCall.task) /\ treeCall.task.of = selected)
        /\ treeCall' = [treeCall EXCEPT !.stage = "done", !.made = new.parts \ tree.parts]

\* Another administrator.
OthersTask(task) ==
    /\ \E new \in Carried(task) \ {tree} : WriteTree(new, FALSE)
    /\ UNCHANGED treeCall

-----------------------------------------------------------------------------
(* The replies. *)

TablesAlone == UNCHANGED <<tree, treeWrites>>

RefetchList ==
    /\ listQuery' = Ask(listQuery)
    /\ listQuery' # listQuery
    /\ TablesAlone /\ UNCHANGED <<detailQuery, selected, modal, treeCall, done>>

RefetchDetail ==
    /\ selected # NoPlant
    /\ detailQuery' = [detailQuery EXCEPT ![selected] = Ask(@)]
    /\ detailQuery' # detailQuery
    /\ TablesAlone /\ UNCHANGED <<listQuery, selected, modal, treeCall, done>>

AnswerList ==
    /\ listQuery.fetch = "asked"
    /\ listQuery' = Answer(listQuery, [plants |-> tree.plants, parts |-> tree.parts])
    /\ TablesAlone /\ UNCHANGED <<detailQuery, selected, modal, treeCall, done>>

\* The promise of the hook's invalidation, which a refetch that fails fulfils as well, is
\* awaited by createSite and deleteSite for the list, by what creates or edits a part
\* for the detail; the other hooks return none.
\* (Mutants: a return is missing in deleteSite, in createLine and createMachine.)
AwaitsNewSite(task) == task.kind = "new site"
AwaitsEdits(task)   == task.kind = "edit part"
AwaitsList(task) == task.kind \in {"new site", "delete site"}
AwaitsDetail(task) == task.kind \in {"new part", "edit part"}

\* The components a dialog belongs to: SitesPage has one for a new site; SiteDetail
\* has one for its site, one that confirms deletions, and two for its parts, which
\* count as one here.
DialogOf(task) ==
    CASE task.kind \in {"new part", "edit part"}      -> "part"
      [] task.kind \in {"delete site", "delete part"} -> "delete"
      [] OTHER                                        -> task.kind

\* The handler goes on: it closes its dialog, whatever that is open for by now, and
\* after the deletion of a site nothing is selected, which unmounts SiteDetail.
GoesOn(task) ==
    /\ treeCall' = NoTreeCall
    /\ modal' = IF \/ DialogOf(modal) = DialogOf(task)
                   \/ task.kind = "delete site" /\ modal.kind # "new site"
                THEN NoTask ELSE modal
    /\ selected' = IF task.kind = "delete site" THEN NoPlant ELSE selected
    /\ done' = [done EXCEPT !.last = IF done.own /\ task.kind = "delete part" THEN task ELSE NoTask,
                            !.own = FALSE,
                            !.deleted = IF task.kind = "delete site" /\ listQuery'.fetch # "failed"
                                        THEN @ \cup {task.of} ELSE @]

GoesOnIf(awaited) ==
    IF treeCall.stage = "settling" /\ awaited THEN GoesOn(treeCall.task)
    ELSE UNCHANGED <<treeCall, modal, selected, done>>

DeliverList ==
    /\ listQuery.fetch = "answered"
    /\ listQuery' = Deliver(listQuery)
    /\ GoesOnIf(AwaitsList(treeCall.task))
    /\ TablesAlone /\ UNCHANGED detailQuery

\* Any error, or no answer: the list stays as it was, and who waits goes on.
FailList ==
    /\ listQuery.fetch = "asked"
    /\ listQuery' = Fail(listQuery)
    /\ GoesOnIf(AwaitsList(treeCall.task))
    /\ TablesAlone /\ UNCHANGED detailQuery

AnswerDetail(p) ==
    /\ detailQuery[p].fetch = "asked"
    /\ p \in tree.plants
    /\ detailQuery' = [detailQuery EXCEPT ![p] = Answer(@, {q \in tree.parts : PlantOf[q] = p})]
    /\ TablesAlone /\ UNCHANGED <<listQuery, selected, modal, treeCall, done>>

GoesOnAt(p) ==
    IF p = selected THEN GoesOnIf(AwaitsDetail(treeCall.task))
    ELSE UNCHANGED <<treeCall, modal, selected, done>>

\* 404 when the site is gone, any other error, or no answer.
FailDetail(p) ==
    /\ detailQuery[p].fetch = "asked"
    /\ detailQuery' = [detailQuery EXCEPT ![p] = Fail(@)]
    /\ GoesOnAt(p)
    /\ TablesAlone /\ UNCHANGED listQuery

DeliverDetail(p) ==
    /\ detailQuery[p].fetch = "answered"
    /\ detailQuery' = [detailQuery EXCEPT ![p] = Deliver(@)]
    /\ GoesOnAt(p)
    /\ TablesAlone /\ UNCHANGED listQuery

\* onSuccess.  The creation of a part leaves the list as it is, counts and all.
\* (Mutant: nor does a deletion change it.)
InvalidatesListForSites(task) == task.kind \in {"new site", "edit site", "delete site"}
InvalidatesList(task) == task.kind \notin {"new part", "edit part"}
InvalidatesDetail(task) == task.kind \notin {"new site", "delete site"}

TaskReplied ==
    /\ treeCall.stage = "done"
    /\ LET task == treeCall.task IN
        /\ listQuery' = IF InvalidatesList(task) THEN Invalidate(listQuery, TRUE) ELSE listQuery
        /\ detailQuery' = IF InvalidatesDetail(task) /\ selected # NoPlant
                          THEN [detailQuery EXCEPT ![selected] = Invalidate(@, TRUE)]
                          ELSE detailQuery
        /\ IF AwaitsList(task) \/ (AwaitsDetail(task) /\ selected # NoPlant)
           THEN treeCall' = [treeCall EXCEPT !.stage = "settling"] /\ UNCHANGED <<modal, selected, done>>
           ELSE GoesOn(task)
    /\ TablesAlone

\* Refused or lost: an error, or no word, and the dialog stays.
TaskFails ==
    /\ treeCall.stage \in {"sent", "done"}
    /\ treeCall' = NoTreeCall
    /\ done' = [done EXCEPT !.own = FALSE]
    /\ TablesAlone /\ UNCHANGED <<listQuery, detailQuery, selected, modal>>

TreeNext ==
    \/ \E p \in Plant : SelectPlant(p) \/ SelectFirst(p)
    \/ \E p \in Plant : AnswerDetail(p) \/ DeliverDetail(p) \/ FailDetail(p)
    \/ \E task \in Request : OpenModal(task) \/ OthersTask(task)
    \/ CloseModal \/ Confirm \/ ApplyTask \/ TaskReplied \/ TaskFails
    \/ RefetchList \/ RefetchDetail \/ AnswerList \/ DeliverList \/ FailList

TreeSpec == TreeInit /\ [][TreeNext]_treeVars

-----------------------------------------------------------------------------
(* Properties. *)

TreeTypeOK ==
    /\ tree \in Tree
    /\ treeWrites \in 0 .. MaxTreeWrites
    /\ listQuery \in Entry(Sites)
    /\ detailQuery \in [Plant -> Entry(Detail)]
    /\ selected \in Plant \cup {NoPlant}
    /\ modal \in Task
    /\ treeCall \in [stage : {"none", "sent", "done", "settling"}, task : Task,
                    made : SUBSET Part]
    /\ done \in [last : Task, own : BOOLEAN, deleted : SUBSET Plant]

\* A site whose deletion the page waited for is not selected again: the selection is
\* cleared only when the list without the site has arrived, and nothing that arrives
\* later brings it back.  (If that refetch fails, the list still has the site, and the
\* effect may well select it again.)
DeletedSiteNotReselected ==
    selected \notin done.deleted

\* After a line or a machine was deleted, once nothing is on its way and the last
\* fetches arrived, the counts in the list and the detail on the right agree with the
\* tables, and so with each other.
DeletionShownInBoth ==
    done.last.kind = "delete part" /\ listQuery.fetch = "idle" /\ selected \in tree.plants
    /\ detailQuery[selected].fetch = "idle"
        => /\ listQuery.data.parts = tree.parts
           /\ detailQuery[selected].data = {q \in tree.parts : PlantOf[q] = selected}

\* When a dialog that created a line or a machine closes by itself, the detail
\* behind it shows the new one, unless the refetch it waited for failed.
NewPartIsShown ==
    [][ /\ treeCall.task.kind = "new part" /\ treeCall' = NoTreeCall
        /\ modal # NoTask /\ modal' = NoTask
        /\ done.own /\ selected = treeCall.task.of
        /\ detailQuery'[selected].fetch # "failed"
        => treeCall.made \subseteq detailQuery'[selected].data ]_treeVars
=============================================================================
