-------------------------- MODULE AlertRulesEditor --------------------------
(***************************************************************************)
(* AlertRulesPage of one site with its AlertRuleDialog: the list of rules, *)
(* the rules ticked in it, the dialog in which a rule is created or        *)
(* edited, the confirmation of a deletion, the requests they send, the     *)
(* cached list and the table alerts.                                       *)
(*                                                                         *)
(* The dialog works on the rule as it was listed when it was opened, and   *)
(* sends all of it back, whether it is active among the rest.              *)
(***************************************************************************)
EXTENDS Integers, QueryCache

CONSTANTS
    Rule,           \* ids of rules
    NewRule,        \* the id of none
    Device,         \* machines of the site
    Metric,         \* metrics
    MetricsOf,      \* the metrics the machine's registers have at one time or another
    RuleRequest,    \* requests the page may have in flight, to tell them apart
    Blank,          \* nothing chosen, no rule
    MaxRuleWrites   \* bound: writes to the table

ASSUME RuleConstants ==
    /\ NewRule \notin Rule
    /\ MetricsOf \in [Device -> SUBSET Metric]
    /\ Blank \notin Metric
    /\ "others" \notin RuleRequest
    /\ MaxRuleWrites \in Nat

VARIABLES
    rules,       \* the table
    ruleIds,     \* the ids that were given out, which are not given out again
    ruleWrites,  \* how often it was written
    rulesQuery,  \* the cache entry ['alerts', site]
    ticked,      \* selectedIds
    dialog,      \* the dialog that creates or edits a rule
    toDelete,    \* deleteTarget: the ids the open confirmation is about
    ruleCalls,   \* the requests in flight
    lastRuleWrite \* history: the request in flight that wrote last, or "others"

ruleVars == <<rules, ruleIds, ruleWrites, rulesQuery, ticked, dialog, toDelete,
              ruleCalls, lastRuleWrite>>

\* Name, severity, condition and threshold go with the row wherever it goes.
RuleRow == [device : Device, metric : Metric, active : BOOLEAN]
\* created_at orders the list and ids tell rows apart, so that the list is the table.
List == [Rule -> RuleRow \cup {Blank}]

Dialog == [open : BOOLEAN, rule : Rule \cup {NewRule}, device : Device \cup {Blank},
           metric : Metric \cup {Blank}, active : BOOLEAN]
NewDialog == [open |-> TRUE, rule |-> NewRule, device |-> Blank, metric |-> Blank,
              active |-> TRUE]
ClosedDialog == [NewDialog EXCEPT !.open = FALSE]

NoTarget == [bulk |-> FALSE, ids |-> {}]
NoRuleCall == [stage |-> "none", kind |-> "save", ids |-> {}, row |-> ClosedDialog]
\* "delete" is the bulk action, "delete one" that of the bin in a row.
Kind == {"save", "enable", "disable", "delete", "delete one"}
RuleCall == [stage : {"none", "sent", "done", "settling"}, kind : Kind,
             ids : SUBSET Rule, row : Dialog]

RuleInit ==
    /\ rules = [r \in Rule |-> Blank]
    /\ ruleIds = {}
    /\ ruleWrites = 0
    /\ rulesQuery = [Empty EXCEPT !.fetch = "asked"]
    /\ ticked = {}
    /\ dialog = ClosedDialog
    /\ toDelete = NoTarget
    /\ ruleCalls = [c \in RuleRequest |-> NoRuleCall]
    /\ lastRuleWrite = "others"

Listed == IF rulesQuery.data = NoData THEN {}
          ELSE {r \in Rule : rulesQuery.data[r] # Blank}

\* A modal dialog covers the list.
ListInReach == ~dialog.open /\ toDelete = NoTarget

-----------------------------------------------------------------------------
(* The list. *)

ListOnly == UNCHANGED <<rules, ruleIds, ruleWrites, rulesQuery, ruleCalls, lastRuleWrite>>

ToggleSelect(r) ==
    /\ ListInReach
    /\ r \in Listed
    /\ ticked' = IF r \in ticked THEN ticked \ {r} ELSE ticked \cup {r}
    /\ ListOnly /\ UNCHANGED <<dialog, toDelete>>

\* All that the filters let through: what they hide stays ticked, until a second
\* click forgets it too.
ToggleAll(filtered) ==
    /\ ListInReach
    /\ filtered # {}
    /\ filtered \subseteq Listed
    /\ ticked' = IF filtered \subseteq ticked THEN {} ELSE filtered
    /\ ListOnly /\ UNCHANGED <<dialog, toDelete>>

ClearSelection ==
    /\ ListInReach
    /\ ticked # {}
    /\ ticked' = {}
    /\ ListOnly /\ UNCHANGED <<dialog, toDelete>>

AskDelete(target) ==
    /\ ListInReach
    /\ \/ target = [bulk |-> TRUE, ids |-> ticked] /\ ticked # {}
       \/ \E r \in Listed : target = [bulk |-> FALSE, ids |-> {r}]
    /\ toDelete' = target
    /\ ListOnly /\ UNCHANGED <<ticked, dialog>>

CancelDelete ==
    /\ toDelete # NoTarget
    /\ toDelete' = NoTarget
    /\ ListOnly /\ UNCHANGED <<ticked, dialog>>

Unused == {c \in RuleRequest : ruleCalls[c] = NoRuleCall}

Send(kind, ids, row) ==
    /\ Unused # {}
    /\ LET c == CHOOSE x \in Unused : TRUE
       IN /\ ruleCalls' = [ruleCalls EXCEPT ![c] = [stage |-> "sent", kind |-> kind, ids |-> ids,
                                                    row |-> row]]
          /\ lastRuleWrite' = IF lastRuleWrite = c THEN "others" ELSE lastRuleWrite
    /\ UNCHANGED <<rules, ruleIds, ruleWrites, rulesQuery, ticked, dialog, toDelete>>

\* handleBulk and handleDelete: nothing is disabled meanwhile, and what is ticked
\* or cancelled before the reply does not change the request.
SetActive(kind) ==
    /\ ListInReach
    /\ ticked # {}
    /\ kind \in {"enable", "disable"}
    /\ Send(kind, ticked, ClosedDialog)

\* The button stays there, and a second click sends a second request.
ConfirmDelete ==
    /\ toDelete # NoTarget
    /\ Send(IF toDelete.bulk THEN "delete" ELSE "delete one", toDelete.ids, ClosedDialog)

-----------------------------------------------------------------------------
(* The dialog. *)

DialogOnly == ListOnly /\ UNCHANGED <<ticked, toDelete>>

CreateRule ==
    /\ ListInReach
    /\ dialog' = NewDialog
    /\ DialogOnly

EditRule(r) ==
    /\ ListInReach
    /\ r \in Listed
    /\ LET row == rulesQuery.data[r]
       IN dialog' = [open |-> TRUE, rule |-> r, device |-> row.device, metric |-> row.metric,
                     active |-> row.active]
    /\ DialogOnly

CloseDialog ==
    /\ dialog.open
    /\ dialog' = ClosedDialog
    /\ DialogOnly

\* Mutant of ChooseDevice: the metric stays.
ChooseDeviceOnly(d) ==
    /\ dialog.open /\ dialog.rule = NewRule
    /\ dialog' = [dialog EXCEPT !.device = d]
    /\ DialogOnly

\* Another machine in a new rule: the effect on [machineId] forgets the metric.
ChooseDevice(d) ==
    /\ dialog.open /\ dialog.rule = NewRule
    /\ dialog' = [dialog EXCEPT !.device = d, !.metric = IF d = dialog.device THEN @ ELSE Blank]
    /\ DialogOnly

\* useMachineMetrics, by the machine's id: none until they are delivered, and whatever
\* its registers, which others change, were called at that time.
ChooseMetric(m) ==
    /\ dialog.open
    /\ dialog.device # Blank
    /\ m \in MetricsOf[dialog.device]
    /\ dialog' = [dialog EXCEPT !.metric = m]
    /\ DialogOnly

\* isPending, also of a save from before the dialog was closed and opened again.
SavePending == \E c \in RuleRequest : ruleCalls[c] # NoRuleCall /\ ruleCalls[c].kind = "save"

SubmitRule ==
    /\ dialog.open
    /\ ~SavePending
    /\ dialog.device # Blank /\ dialog.metric # Blank
    /\ Send("save", {}, dialog)

-----------------------------------------------------------------------------
(* The server. *)

WriteRules(rows, by) ==
    /\ ruleWrites < MaxRuleWrites
    /\ ruleWrites' = ruleWrites + 1
    /\ rules' = rows
    /\ ruleIds' = ruleIds \cup {r \in Rule : rows[r] # Blank}
    /\ lastRuleWrite' = by
    /\ UNCHANGED <<rulesQuery, ticked, dialog, toDelete>>

Existing == {r \in Rule : rules[r] # Blank}

RowOf(d) == [device |-> d.device, metric |-> d.metric, active |-> d.active]

Saved(r, d) ==
    IF d.rule = NewRule THEN [rules EXCEPT ![r] = RowOf([d EXCEPT !.active = TRUE])]
    ELSE [rules EXCEPT ![r] = [RowOf(d) EXCEPT !.device = rules[r].device]]

Stage(c, stage) == ruleCalls' = [ruleCalls EXCEPT ![c].stage = stage]

ApplyRule(c) ==
    /\ ruleCalls[c].stage = "sent" /\ ruleCalls[c].kind = "save"
    /\ \E r \in Rule :
        /\ IF ruleCalls[c].row.rule = NewRule THEN r \notin ruleIds
           ELSE r = ruleCalls[c].row.rule /\ r \in Existing
        /\ WriteRules(Saved(r, ruleCalls[c].row), c)
    /\ Stage(c, "done")

\* BulkAction, or DELETE of one: ids that are gone are passed over.
Acted(kind, ids) ==
    [r \in Rule |-> IF r \notin ids \/ rules[r] = Blank THEN rules[r]
                    ELSE IF kind \in {"delete", "delete one"} THEN Blank
                    ELSE [rules[r] EXCEPT !.active = (kind = "enable")]]

ApplyBulk(c) ==
    /\ ruleCalls[c].stage = "sent" /\ ruleCalls[c].kind # "save"
    /\ WriteRules(Acted(ruleCalls[c].kind, ruleCalls[c].ids), c)
    /\ Stage(c, "done")

\* Other administrators keep to the machine's metrics, as the page does.
OthersSaveRule(r, row) ==
    /\ row.metric \in MetricsOf[row.device]
    /\ IF rules[r] = Blank THEN r \notin ruleIds ELSE row.device = rules[r].device
    /\ WriteRules([rules EXCEPT ![r] = row], "others")
    /\ UNCHANGED ruleCalls

OthersAct(kind, ids) ==
    /\ ids # {} /\ ids \subseteq Existing
    /\ WriteRules(Acted(kind, ids), "others")
    /\ UNCHANGED ruleCalls

-----------------------------------------------------------------------------
(* The replies. *)

RefetchRules ==
    /\ AtRest(rulesQuery)
    /\ rulesQuery' = Ask(rulesQuery)
    /\ UNCHANGED <<rules, ruleIds, ruleWrites, ticked, dialog, toDelete, ruleCalls, lastRuleWrite>>

AnswerRules ==
    /\ rulesQuery.fetch = "asked"
    /\ rulesQuery' = Answer(rulesQuery, rules)
    /\ UNCHANGED <<rules, ruleIds, ruleWrites, ticked, dialog, toDelete, ruleCalls, lastRuleWrite>>

\* The hooks wait for the refetch their replies caused; then every request that
\* waited goes on, be the refetch delivered or failed.  A save closes the dialog that
\* is open by then, be it of another rule; a bulk action forgets what is ticked by
\* then, a deletion closes the confirmation that is open by then.
Settling == {c \in RuleRequest : ruleCalls[c].stage = "settling"}

RulesConcluded ==
    LET kinds == {ruleCalls[c].kind : c \in Settling} IN
    /\ ruleCalls' = [c \in RuleRequest |-> IF c \in Settling THEN NoRuleCall ELSE ruleCalls[c]]
    /\ dialog' = IF "save" \in kinds THEN ClosedDialog ELSE dialog
    /\ ticked' = IF kinds \cap {"enable", "disable", "delete"} # {} THEN {} ELSE ticked
    /\ toDelete' = IF kinds \cap {"delete", "delete one"} # {} THEN NoTarget ELSE toDelete
    /\ UNCHANGED <<rules, ruleIds, ruleWrites, lastRuleWrite>>

DeliverRules ==
    /\ rulesQuery.fetch = "answered"
    /\ rulesQuery' = Deliver(rulesQuery)
    /\ RulesConcluded

\* Any error, or no answer: the list stays as it was.
FailRules ==
    /\ rulesQuery.fetch = "asked"
    /\ rulesQuery' = Fail(rulesQuery)
    /\ RulesConcluded

PageStays == UNCHANGED <<rules, ruleIds, ruleWrites, ticked, dialog, toDelete, lastRuleWrite>>

\* Mutant of RuleReplied: the refetch joins one that is in flight.
RuleRepliedJoining(c) ==
    /\ ruleCalls[c].stage = "done"
    /\ Stage(c, "settling")
    /\ rulesQuery' = Ask(rulesQuery)
    /\ PageStays

RuleReplied(c) ==
    /\ ruleCalls[c].stage = "done"
    /\ Stage(c, "settling")
    /\ rulesQuery' = Invalidate(rulesQuery, TRUE)
    /\ PageStays

\* Refused or lost: mutateJSON throws, and dialog, confirmation and ticks stay.
RuleCallFails(c) ==
    /\ ruleCalls[c].stage \in {"sent", "done"}
    /\ ruleCalls' = [ruleCalls EXCEPT ![c] = NoRuleCall]
    /\ UNCHANGED rulesQuery
    /\ PageStays

RuleNext ==
    \/ \E r \in Rule : ToggleSelect(r) \/ EditRule(r) \/ \E row \in RuleRow : OthersSaveRule(r, row)
    \/ \E filtered \in SUBSET Rule : ToggleAll(filtered)
    \/ ClearSelection \/ CancelDelete \/ ConfirmDelete
    \/ \E target \in [bulk : BOOLEAN, ids : SUBSET Rule] : AskDelete(target)
    \/ \E kind \in {"enable", "disable", "delete"} :
        SetActive(kind) \/ \E ids \in SUBSET Rule : OthersAct(kind, ids)
    \/ CreateRule \/ CloseDialog \/ SubmitRule
    \/ \E d \in Device : ChooseDevice(d)
    \/ \E m \in Metric : ChooseMetric(m)
    \/ \E c \in RuleRequest : ApplyRule(c) \/ ApplyBulk(c) \/ RuleReplied(c) \/ RuleCallFails(c)
    \/ RefetchRules \/ AnswerRules \/ DeliverRules \/ FailRules

RuleSpec == RuleInit /\ [][RuleNext]_ruleVars

-----------------------------------------------------------------------------
(* Properties. *)

RuleTypeOK ==
    /\ rules \in [Rule -> RuleRow \cup {Blank}]
    /\ ruleIds \subseteq Rule
    /\ ruleWrites \in 0 .. MaxRuleWrites
    /\ rulesQuery \in Entry(List)
    /\ ticked \subseteq Rule
    /\ dialog \in Dialog
    /\ toDelete \in [bulk : BOOLEAN, ids : SUBSET Rule]
    /\ ruleCalls \in [RuleRequest -> RuleCall]
    /\ lastRuleWrite \in RuleRequest \cup {"others"}

\* A rule watches a metric its own machine has, or has had, whatever was chosen in
\* which order, whatever others did to the rule meanwhile and whichever requests are
\* in flight.
RuleWatchesItsMachine ==
    \A r \in Existing : rules[r].metric \in MetricsOf[rules[r].device]

\* When the page drops the ticks, closes the dialog or the confirmation because a
\* request succeeded, however many are in flight, the list behind, if it was there
\* before, shows what the request did, unless the refetch it waited for failed.
ConcludedIsShown ==
    [][ \A c \in RuleRequest :
            /\ ruleCalls[c].stage = "settling" /\ ruleCalls'[c] = NoRuleCall
            /\ lastRuleWrite = c
            /\ rulesQuery.data # NoData /\ rulesQuery'.fetch # "failed"
            => rulesQuery'.data = rules ]_ruleVars
=============================================================================
