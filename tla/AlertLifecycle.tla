--------------------------- MODULE AlertLifecycle ---------------------------
(***************************************************************************)
(* The alert rules and alert events of one machine: the rows of tables     *)
(* alerts and alert_events, the API calls that write them, and Evaluate,   *)
(* which every polling goroutine of the machine runs after each reading.   *)
(*                                                                         *)
(* A Poller is one RunMachine goroutine.  Two may poll one machine: the    *)
(* workers start a poller for every machine of their config, whether their *)
(* claim took effect or not (StartThreads in WorkerFleet).  Each statement *)
(* is a step, and none of Evaluate's is in a transaction with another.     *)
(***************************************************************************)
EXTENDS Integers

CONSTANTS
    Poller,      \* polling goroutines of the machine
    Rule,        \* values of alerts.id, each used once
    Definition,  \* what a rule may say (a subset of AnyDefinition)
    Reading,     \* what a read may return: metric -> value, partial
    Metric,      \* metric names
    Value,       \* values and thresholds, integers
    User,        \* users that acknowledge
    MaxEvents,   \* bound: rows of alert_events at a time
    None         \* SQL NULL, and "no row"

Conditions == {">", ">=", "<", "<=", "=="}
Severities == {"info", "warning", "critical"}

AnyDefinition == [metric : Metric, condition : Conditions, threshold : Value,
                  severity : Severities, active : BOOLEAN]

ASSUME AlertConstants ==
    /\ Value \subseteq Int
    /\ Definition \subseteq AnyDefinition
    \* a rule may be switched on and off as it is
    /\ \A d \in Definition, a \in BOOLEAN : [d EXCEPT !.active = a] \in Definition
    /\ Reading \subseteq UNION {[S -> Value] : S \in SUBSET Metric}
    /\ MaxEvents \in Nat
    /\ None \notin Poller /\ None \notin Rule /\ None \notin User
    /\ None \notin Definition /\ None \notin Reading

VARIABLES
    alerts,    \* table alerts, by id; None when there is no such row
    used,      \* ids given out so far
    events,    \* table alert_events
    plant,     \* what the machine's registers hold
    phase,     \* where a poller is
    reading,   \* the values its last read returned
    rules,     \* the rules it has loaded and not yet evaluated
    cur,       \* the rule it is about to insert an event for
    blind,     \* the query for an open event of cur failed
    edited     \* history: rules changed since the poller loaded them

tables  == <<alerts, used, events>>
pollers == <<phase, reading, rules, cur, blind, edited>>
vars    == <<tables, plant, pollers>>

EventId == 1 .. MaxEvents
Event   == [rule : Rule \cup {None}, status : {"absent", "open", "resolved"},
            value : Value \cup {None}, acked : User \cup {None},
            by : Poller \cup {None}]
NoEvent == [rule |-> None, status |-> "absent", value |-> None, acked |-> None,
            by |-> None]
NoRules == [r \in Rule |-> None]

(***************************************************************************)
(* Every variable has its type, and a poller holds a reading, loaded rules *)
(* and a current rule exactly where Evaluate has them.                     *)
(***************************************************************************)
TypeOK ==
    /\ alerts \in [Rule -> Definition \cup {None}]
    /\ used \in SUBSET Rule
    /\ events \in [EventId -> Event]
    /\ plant \in Reading
    /\ phase \in [Poller -> {"idle", "read", "eval", "insert"}]
    /\ reading \in [Poller -> Reading \cup {None}]
    /\ rules \in [Poller -> [Rule -> Definition \cup {None}]]
    /\ cur \in [Poller -> Rule \cup {None}]
    /\ blind \in [Poller -> BOOLEAN]
    /\ edited \in [Poller -> SUBSET Rule]
    /\ \A p \in Poller :
          /\ (phase[p] = "idle") <=> (reading[p] = None)
          /\ (phase[p] = "insert") <=> (cur[p] # None)
          /\ cur[p] # None => /\ rules[p][cur[p]] # None
                              /\ rules[p][cur[p]].metric \in DOMAIN reading[p]
          /\ (phase[p] \in {"idle", "read"}) <=> (rules[p] = NoRules)

Init ==
    /\ alerts = [r \in Rule |-> None]
    /\ used = {}
    /\ events = [i \in EventId |-> NoEvent]
    /\ plant \in Reading
    /\ phase = [p \in Poller |-> "idle"]
    /\ reading = [p \in Poller |-> None]
    /\ rules = [p \in Poller |-> NoRules]
    /\ cur = [p \in Poller |-> None]
    /\ blind = [p \in Poller |-> FALSE]
    /\ edited = [p \in Poller |-> {}]

-----------------------------------------------------------------------------
(* Evaluate.                                                               *)

Open(r) == {i \in EventId : events[i].rule = r /\ events[i].status = "open"}

\* The switch over rule.Condition.
Triggered(d, v) ==
    CASE d.condition = ">"  -> v > d.threshold
      [] d.condition = ">=" -> v >= d.threshold
      [] d.condition = "<"  -> v < d.threshold
      [] d.condition = "<=" -> v <= d.threshold
      [] d.condition = "==" -> v = d.threshold

Reports(d, values)  == d.metric \in DOMAIN values
Violates(d, values) == Reports(d, values) /\ Triggered(d, values[d.metric])
Clears(d, values)   == Reports(d, values) /\ ~Triggered(d, values[d.metric])

\* A successful read of the machine.
Read(p) ==
    /\ phase[p] = "idle"
    /\ phase' = [phase EXCEPT ![p] = "read"]
    /\ reading' = [reading EXCEPT ![p] = plant]
    /\ UNCHANGED <<tables, plant, rules, cur, blind, edited>>

\* Mutation: disabled rules are loaded too.
AnyRules == {r \in Rule : alerts[r] # None}

\* Mutation: a rule whose event is open is not looked at again.
QuietRules == {r \in Rule : alerts[r] # None /\ alerts[r].active /\ Open(r) = {}}

ActiveRules == {r \in Rule : alerts[r] # None /\ alerts[r].active}

\* The poller turns to its next tick.
Rest(p) ==
    /\ phase' = [phase EXCEPT ![p] = "idle"]
    /\ reading' = [reading EXCEPT ![p] = None]
    /\ rules' = [rules EXCEPT ![p] = NoRules]
    /\ cur' = [cur EXCEPT ![p] = None]
    /\ blind' = [blind EXCEPT ![p] = FALSE]
    /\ edited' = [edited EXCEPT ![p] = {}]

\* The rules are loaded.  An error ends the evaluation or, as rows.Err is not
\* asked, cuts the list short: what is loaded is some of the active rules.
LoadRules(p) ==
    /\ phase[p] = "read"
    /\ \E S \in SUBSET ActiveRules :
          IF S = {} THEN Rest(p)
          ELSE /\ phase' = [phase EXCEPT ![p] = "eval"]
               /\ rules' = [rules EXCEPT ![p] = [r \in Rule |-> IF r \in S THEN alerts[r]
                                                                ELSE None]]
               /\ UNCHANGED <<reading, cur, blind, edited>>
    /\ UNCHANGED <<tables, plant>>

\* Mutation: the rule in hand is not put away.
StillInHand(p, r) ==
    /\ phase' = [phase EXCEPT ![p] = "eval"]
    /\ rules' = [rules EXCEPT ![p][r] = None]
    /\ UNCHANGED <<reading, cur, blind, edited>>

\* The loop goes on to the next rule, or Evaluate returns.
NextRule(p, r) ==
    IF \A s \in Rule \ {r} : rules[p][s] = None
    THEN Rest(p)
    ELSE /\ phase' = [phase EXCEPT ![p] = "eval"]
         /\ rules' = [rules EXCEPT ![p][r] = None]
         /\ cur' = [cur EXCEPT ![p] = None]
         /\ blind' = [blind EXCEPT ![p] = FALSE]
         /\ edited' = [edited EXCEPT ![p] = @ \ {r}]
         /\ UNCHANGED reading

Evaluating(p, r) == phase[p] = "eval" /\ rules[p][r] # None

\* The metric is not in the reading.
SkipRule(p, r) ==
    /\ Evaluating(p, r)
    /\ ~Reports(rules[p][r], reading[p])
    /\ NextRule(p, r)
    /\ UNCHANGED <<tables, plant>>

\* Mutation: only events that nobody has acknowledged count as open.
UnseenEvent(r) == {i \in Open(r) : events[i].acked = None}

\* Mutation: resolved events count as well.
AnyEvent(r) == {i \in EventId : events[i].rule = r}

\* SELECT EXISTS: an event of the rule that is not resolved.
OpenEvent(r) == Open(r)

\* A triggered rule whose event is already open: nothing to do.
AlreadyOpen(p, r) ==
    /\ Evaluating(p, r)
    /\ Violates(rules[p][r], reading[p])
    /\ OpenEvent(r) # {}
    /\ NextRule(p, r)
    /\ UNCHANGED <<tables, plant>>

\* A triggered rule of which no open event is found.  When the query fails
\* the error is dropped and exists stays false: the poller inserts blindly.
FindNone(p, r) ==
    /\ Evaluating(p, r)
    /\ Violates(rules[p][r], reading[p])
    /\ \E failed \in BOOLEAN :
          /\ failed \/ OpenEvent(r) = {}
          /\ blind' = [blind EXCEPT ![p] = failed]
    /\ phase' = [phase EXCEPT ![p] = "insert"]
    /\ cur' = [cur EXCEPT ![p] = r]
    /\ UNCHANGED <<tables, plant, reading, rules, edited>>

\* Mutation: no foreign key.
NoForeignKey(r) == TRUE

\* alert_events.alert_id REFERENCES alerts.
ForeignKey(r) == alerts[r] # None

\* The INSERT.
InsertEvent(p) ==
    LET r == cur[p] IN
    /\ phase[p] = "insert"
    /\ ForeignKey(r)
    /\ \E i \in EventId :
          /\ events[i] = NoEvent
          /\ \A j \in EventId : j < i => events[j] # NoEvent
          /\ events' = [events EXCEPT ![i] =
                          [rule |-> r, status |-> "open",
                           value |-> reading[p][rules[p][r].metric], acked |-> None,
                           by |-> IF blind[p] THEN None ELSE p]]
    /\ NextRule(p, r)
    /\ UNCHANGED <<alerts, used, plant>>

\* The INSERT fails, on the foreign key or for any other reason: not reported.
InsertFails(p) ==
    /\ phase[p] = "insert"
    /\ NextRule(p, cur[p])
    /\ UNCHANGED <<tables, plant>>

\* The rows that the UPDATE of a rule that is not triggered resolves.
ToResolve(r) == Open(r)

ResolveEvents(p, r) ==
    /\ Evaluating(p, r)
    /\ Clears(rules[p][r], reading[p])
    /\ events' = [i \in EventId |-> IF i \in ToResolve(r)
                                    THEN [events[i] EXCEPT !.status = "resolved"]
                                    ELSE events[i]]
    /\ NextRule(p, r)
    /\ UNCHANGED <<alerts, used, plant>>

\* Its error is dropped.
ResolveFails(p, r) ==
    /\ Evaluating(p, r)
    /\ Clears(rules[p][r], reading[p])
    /\ NextRule(p, r)
    /\ UNCHANGED <<tables, plant>>

\* The process is stopped or killed in the middle of Evaluate.
Abandon(p) ==
    /\ phase[p] # "idle"
    /\ Rest(p)
    /\ UNCHANGED <<tables, plant>>

-----------------------------------------------------------------------------
(* The API: rules.                                                         *)

\* The rules in S change under the pollers that have loaded them.
Edit(S) ==
    edited' = [p \in Poller |-> edited[p] \cup {r \in S : rules[p][r] # None}]

\* is_active is left to its default, TRUE.
CreateAlert(r, d) ==
    /\ r \notin used
    /\ used' = used \cup {r}
    /\ alerts' = [alerts EXCEPT ![r] = [d EXCEPT !.active = TRUE]]
    /\ UNCHANGED <<events, plant, pollers>>

UpdateAlert(r, d) ==
    /\ alerts[r] # None
    /\ alerts' = [alerts EXCEPT ![r] = d]
    /\ Edit({r})
    /\ UNCHANGED <<used, events, plant, phase, reading, rules, cur, blind>>

BulkUpdateAlerts(S, active) ==
    /\ S # {}
    /\ alerts' = [r \in Rule |-> IF r \in S /\ alerts[r] # None
                                 THEN [alerts[r] EXCEPT !.active = active]
                                 ELSE alerts[r]]
    /\ Edit(S)
    /\ UNCHANGED <<used, events, plant, phase, reading, rules, cur, blind>>

\* Deleting rules, one or several, deletes their events (ON DELETE CASCADE).
BulkDeleteAlerts(S) ==
    /\ S # {}
    /\ alerts' = [r \in Rule |-> IF r \in S THEN None ELSE alerts[r]]
    /\ events' = [i \in EventId |-> IF events[i].rule \in S THEN NoEvent ELSE events[i]]
    /\ Edit(S)
    /\ UNCHANGED <<used, plant, phase, reading, rules, cur, blind>>

DeleteAlert(r) == BulkDeleteAlerts({r})

-----------------------------------------------------------------------------
(* The API: events.                                                        *)

\* Whatever the state of the event, and over any earlier acknowledgement.
AcknowledgeAlertEvent(i, u) ==
    /\ events[i] # NoEvent
    /\ events' = [events EXCEPT ![i].acked = u]
    /\ UNCHANGED <<alerts, used, plant, pollers>>

\* The open, unacknowledged events of what are info rules now.
AcknowledgeInfoEvents(u) ==
    LET seen == {i \in EventId : /\ events[i].status = "open" /\ events[i].acked = None
                                 /\ alerts[events[i].rule].severity = "info"}
    IN
    /\ events' = [i \in EventId |-> IF i \in seen THEN [events[i] EXCEPT !.acked = u]
                                    ELSE events[i]]
    /\ UNCHANGED <<alerts, used, plant, pollers>>

-----------------------------------------------------------------------------
\* The machine's registers change.
Change ==
    /\ plant' \in Reading \ {plant}
    /\ UNCHANGED <<tables, pollers>>

Evaluate(p) ==
    \/ Read(p) \/ LoadRules(p)
    \/ \E r \in Rule : SkipRule(p, r) \/ AlreadyOpen(p, r) \/ FindNone(p, r)
                          \/ ResolveEvents(p, r) \/ ResolveFails(p, r)
    \/ InsertEvent(p) \/ InsertFails(p)

Api ==
    \/ \E r \in Rule, d \in Definition : CreateAlert(r, d) \/ UpdateAlert(r, d)
    \/ \E S \in SUBSET Rule : BulkDeleteAlerts(S) \/ \E a \in BOOLEAN : BulkUpdateAlerts(S, a)
    \/ \E r \in Rule : DeleteAlert(r)
    \/ \E u \in User : \/ AcknowledgeInfoEvents(u)
                       \/ \E i \in EventId : AcknowledgeAlertEvent(i, u)

Next ==
    \/ \E p \in Poller : Evaluate(p) \/ Abandon(p)
    \/ Api
    \/ Change

Spec == Init /\ [][Next]_vars

(***************************************************************************)
(* Fairness.  The ticker of a poller keeps firing and each step of         *)
(* Evaluate returns.  Errors and restarts are transient: a statement       *)
(* that is due again and again does not fail, nor is the process stopped   *)
(* just before it, every time.                                             *)
(***************************************************************************)
FindsNone(p, r) == FindNone(p, r) /\ ~blind'[p]

LoadsAll(p) == LoadRules(p) /\ (ActiveRules # {} => \A r \in ActiveRules : rules'[p][r] # None)

FairSpec ==
    /\ Spec
    /\ \A p \in Poller :
          /\ WF_vars(Evaluate(p))
          /\ SF_vars(LoadsAll(p))
          /\ SF_vars(InsertEvent(p))
          /\ \A r \in Rule : SF_vars(ResolveEvents(p, r)) /\ SF_vars(FindsNone(p, r))

-----------------------------------------------------------------------------
(***************************************************************************)
(* A poller never opens a second event of a rule while one it opened is    *)
(* still open, unless its query failed.  So a rule has at most as many     *)
(* open events as the machine has pollers: with one poller, at most one.   *)
(***************************************************************************)
OneOpenPerPoller ==
    \A i, j \in EventId :
        /\ events[i].status = "open" /\ events[j].status = "open"
        /\ events[i].rule = events[j].rule
        /\ events[i].by = events[j].by /\ events[i].by # None
        => i = j

(***************************************************************************)
(* No event outlives its rule, although a poller may be about to insert    *)
(* one for a rule that has been deleted under it.                          *)
(***************************************************************************)
NoOrphanEvents ==
    \A i \in EventId : events[i] # NoEvent => alerts[events[i].rule] # None

\* What the status of event i, of rule r, may do in a step.
FollowsRule(i, r) ==
    /\ events'[i].rule = r
    /\ events'[i].status # events[i].status
    => \E p \in Poller :
          /\ reading[p] # None
          /\ \/ r \in edited[p]
             \/ /\ alerts[r] # None /\ alerts[r].active
                /\ IF events'[i].status = "open"
                   THEN /\ Violates(alerts[r], reading[p])
                        /\ events'[i].value = reading[p][alerts[r].metric]
                   ELSE Clears(alerts[r], reading[p])

(***************************************************************************)
(* Events are opened and resolved for rules as they stand: active, and     *)
(* violated or met by the reading, except where the rule was edited after  *)
(* the poller had loaded it.                                               *)
(***************************************************************************)
EventsFollowRules == [][\A i \in EventId, r \in Rule : FollowsRule(i, r)]_vars

Cleared(r)  == alerts[r] # None /\ alerts[r].active /\ Clears(alerts[r], plant)

(***************************************************************************)
(* An active rule whose condition is over in the end has no open event,    *)
(* however many had been opened and whoever opened them.                   *)
(***************************************************************************)
ClearedResolves ==
    \A r \in Rule : <>[]Cleared(r) => <>[](Open(r) = {})

Lasting(r) == alerts[r] # None /\ alerts[r].active /\ Violates(alerts[r], plant)
Full       == \A i \in EventId : events[i] # NoEvent

(***************************************************************************)
(* An active rule whose condition lasts in the end has an open event, or   *)
(* the bound on rows has been reached.                                     *)
(***************************************************************************)
ViolationIsReported ==
    \A r \in Rule : <>[]Lasting(r) => <>[](Open(r) # {} \/ Full)

(***************************************************************************)
(* What the design document says of deleting a rule: its events are        *)
(* preserved as historical records.                                        *)
(***************************************************************************)
EventsPreserved ==
    [][\A i \in EventId : events[i] # NoEvent => events'[i] # NoEvent]_vars

=============================================================================
