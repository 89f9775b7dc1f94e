----------------------------- MODULE AlertProofs -----------------------------
(***************************************************************************)
(* Proofs about AlertLifecycle: its type invariant, that events neither    *)
(* outlive their rules nor pile up, and that they follow the rules.        *)
(***************************************************************************)
EXTENDS AlertLifecycle, TLAPS

\* The type invariant, by tables and by pollers.
Tables ==
    /\ alerts \in [Rule -> Definition \cup {None}]
    /\ used \in SUBSET Rule
    /\ events \in [EventId -> Event]

Pollers ==
    /\ phase \in [Poller -> {"idle", "read", "eval", "insert"}]
    /\ reading \in [Poller -> Reading \cup {None}]
    /\ rules \in [Poller -> [Rule -> Definition \cup {None}]]
    /\ cur \in [Poller -> Rule \cup {None}]
    /\ blind \in [Poller -> BOOLEAN]
    /\ edited \in [Poller -> SUBSET Rule]

Shape(p) ==
    /\ (phase[p] = "idle") <=> (reading[p] = None)
    /\ (phase[p] = "insert") <=> (cur[p] # None)
    /\ cur[p] # None => /\ rules[p][cur[p]] # None
                        /\ rules[p][cur[p]].metric \in DOMAIN reading[p]
    /\ (phase[p] \in {"idle", "read"}) <=> (rules[p] = NoRules)

LEMMA TypeParts ==
    TypeOK <=> Tables /\ plant \in Reading /\ Pollers /\ \A p \in Poller : Shape(p)
BY DEF TypeOK, Tables, Pollers, Shape

LEMMA TypePartsNext ==
    TypeOK' <=> Tables' /\ plant' \in Reading /\ Pollers' /\ \A p \in Poller : Shape(p)'
BY DEF TypeOK, Tables, Pollers, Shape

LEMMA NullIsNoRow ==
    None \notin Poller /\ None \notin Rule /\ None \notin Definition /\ None \notin Reading
BY AlertConstants

\* A rule may be switched on and off.
LEMMA Switching ==
    ASSUME NEW d \in Definition, NEW a \in BOOLEAN
    PROVE  [d EXCEPT !.active = a] \in Definition
BY AlertConstants

\* What a reading says of a metric is a value.
LEMMA ReadValue ==
    ASSUME NEW x \in Reading, NEW m \in DOMAIN x
    PROVE  x[m] \in Value
<1>1. PICK S \in SUBSET Metric : x \in [S -> Value]
  BY AlertConstants
<1> QED
  BY <1>1

\* What happens to the fields of an event.
LEMMA EventFields ==
    ASSUME NEW e \in Event
    PROVE  /\ \A u \in User : [e EXCEPT !.acked = u] \in Event
           /\ [e EXCEPT !.status = "resolved"] \in Event
           /\ NoEvent \in Event
BY DEF Event, NoEvent

-----------------------------------------------------------------------------
(* Rest and NextRule leave the pollers well-formed.                        *)

LEMMA RestType ==
    ASSUME Pollers, \A q \in Poller : Shape(q), NEW p \in Poller, Rest(p)
    PROVE  Pollers' /\ \A q \in Poller : Shape(q)'
<1>1. Pollers'
  BY DEF Rest, Pollers, NoRules
<1>2. ASSUME NEW q \in Poller PROVE Shape(q)'
  <2>1. CASE q = p
    BY <2>1, NullIsNoRow DEF Rest, Pollers, Shape
  <2>2. CASE q # p
    BY <2>2 DEF Rest, Pollers, Shape
  <2> QED
    BY <2>1, <2>2
<1> QED
  BY <1>1, <1>2

LEMMA NextRuleType ==
    ASSUME Pollers, \A q \in Poller : Shape(q),
           NEW p \in Poller, NEW r \in Rule,
           phase[p] \in {"eval", "insert"}, NextRule(p, r)
    PROVE  Pollers' /\ \A q \in Poller : Shape(q)'
<1>1. CASE \A s \in Rule \ {r} : rules[p][s] = None
  BY <1>1, RestType DEF NextRule
<1>2. CASE ~ \A s \in Rule \ {r} : rules[p][s] = None
  <2>0. PICK s \in Rule \ {r} : rules[p][s] # None
    BY <1>2
  <2>1. /\ phase' = [phase EXCEPT ![p] = "eval"]
        /\ rules' = [rules EXCEPT ![p][r] = None]
        /\ cur' = [cur EXCEPT ![p] = None]
        /\ blind' = [blind EXCEPT ![p] = FALSE]
        /\ edited' = [edited EXCEPT ![p] = @ \ {r}]
        /\ UNCHANGED reading
    BY <1>2 DEF NextRule
  <2>2. Pollers'
    BY <2>1 DEF Pollers
  <2>3. ASSUME NEW q \in Poller PROVE Shape(q)'
    <3>1. CASE q = p
      <4>1. rules'[p][s] # None
        BY <2>0, <2>1 DEF Pollers
      <4>2. rules'[p] # NoRules
        BY <4>1 DEF NoRules
      <4>3. reading'[p] # None
        BY <2>1 DEF Shape
      <4>4. phase'[p] = "eval" /\ cur'[p] = None
        BY <2>1 DEF Pollers
      <4> QED
        BY <3>1, <4>2, <4>3, <4>4 DEF Shape, NoRules
    <3>2. CASE q # p
      BY <2>1, <3>2 DEF Pollers, Shape
    <3> QED
      BY <3>1, <3>2
  <2> QED
    BY <2>2, <2>3
<1> QED
  BY <1>1, <1>2

-----------------------------------------------------------------------------
(* TypeOK is inductive.                                                    *)

LEMMA TypeInit == Init => TypeOK
<1> SUFFICES ASSUME Init PROVE TypeOK
  OBVIOUS
<1>1. Tables /\ plant \in Reading
  BY DEF Init, Tables, Event, NoEvent
<1>2. Pollers
  BY DEF Init, Pollers, NoRules
<1>3. \A p \in Poller : Shape(p)
  BY NullIsNoRow DEF Init, Shape
<1> QED
  BY <1>1, <1>2, <1>3, TypeParts

\* The steps of Evaluate, as far as the pollers go.
LEMMA EvaluateType ==
    ASSUME TypeOK, NEW p \in Poller, Evaluate(p) \/ Abandon(p)
    PROVE  Pollers' /\ (\A q \in Poller : Shape(q)') /\ alerts' = alerts
           /\ used' = used /\ plant' = plant
<1> USE TypeParts
<1>1. CASE Read(p)
  <2>1. Pollers'
    BY <1>1 DEF Read, Pollers
  <2>2. ASSUME NEW q \in Poller PROVE Shape(q)'
    <3>1. CASE q = p
      BY <1>1, <3>1, NullIsNoRow DEF Read, Pollers, Shape
    <3>2. CASE q # p
      BY <1>1, <3>2 DEF Read, Pollers, Shape
    <3> QED
      BY <3>1, <3>2
  <2> QED
    BY <1>1, <2>1, <2>2 DEF Read, tables
<1>2. CASE LoadRules(p)
  <2>0. PICK S \in SUBSET ActiveRules :
           IF S = {} THEN Rest(p)
           ELSE /\ phase' = [phase EXCEPT ![p] = "eval"]
                /\ rules' = [rules EXCEPT ![p] = [r \in Rule |-> IF r \in S THEN alerts[r]
                                                                 ELSE None]]
                /\ UNCHANGED <<reading, cur, blind, edited>>
    BY <1>2 DEF LoadRules
  <2>1. CASE S = {}
    BY <1>2, <2>0, <2>1, RestType DEF LoadRules, tables
  <2>2. CASE S # {}
    <3>0. [r \in Rule |-> IF r \in S THEN alerts[r] ELSE None]
             \in [Rule -> Definition \cup {None}]
      BY DEF Tables
    <3>1. Pollers'
      BY <2>0, <2>2, <3>0 DEF Pollers
    <3>2. PICK s \in S : s \in Rule /\ alerts[s] # None
      BY <2>2 DEF ActiveRules
    <3>3. rules'[p][s] # None
      BY <2>0, <2>2, <3>2 DEF Pollers
    <3>4. rules'[p] # NoRules
      BY <3>2, <3>3 DEF NoRules
    <3>5. ASSUME NEW q \in Poller PROVE Shape(q)'
      <4>1. CASE q = p
        BY <1>2, <2>0, <2>2, <3>4, <4>1 DEF LoadRules, Pollers, Shape, NoRules
      <4>2. CASE q # p
        BY <2>0, <2>2, <4>2 DEF Pollers, Shape
      <4> QED
        BY <4>1, <4>2
    <3> QED
      BY <1>2, <3>1, <3>5 DEF LoadRules, tables
  <2> QED
    BY <2>1, <2>2
<1>3. ASSUME NEW r \in Rule,
             SkipRule(p, r) \/ AlreadyOpen(p, r) \/ ResolveEvents(p, r) \/ ResolveFails(p, r)
      PROVE  Pollers' /\ (\A q \in Poller : Shape(q)') /\ alerts' = alerts
             /\ used' = used /\ plant' = plant
  <2>1. phase[p] \in {"eval", "insert"} /\ NextRule(p, r)
    BY <1>3 DEF SkipRule, AlreadyOpen, ResolveEvents, ResolveFails, Evaluating
  <2>2. alerts' = alerts /\ used' = used /\ plant' = plant
    BY <1>3 DEF SkipRule, AlreadyOpen, ResolveEvents, ResolveFails, tables
  <2> QED
    BY <2>1, <2>2, NextRuleType
<1>4. ASSUME NEW r \in Rule, FindNone(p, r)
      PROVE  Pollers' /\ (\A q \in Poller : Shape(q)') /\ alerts' = alerts
             /\ used' = used /\ plant' = plant
  <2>1. Pollers'
    BY <1>4 DEF FindNone, Pollers
  <2>2. ASSUME NEW q \in Poller PROVE Shape(q)'
    <3>1. CASE q = p
      BY <1>4, <3>1, NullIsNoRow
         DEF FindNone, Evaluating, Violates, Reports, Pollers, Shape
    <3>2. CASE q # p
      BY <1>4, <3>2 DEF FindNone, Pollers, Shape
    <3> QED
      BY <3>1, <3>2
  <2> QED
    BY <1>4, <2>1, <2>2 DEF FindNone, tables
<1>5. CASE InsertEvent(p) \/ InsertFails(p)
  <2>1. phase[p] = "insert" /\ NextRule(p, cur[p])
    BY <1>5 DEF InsertEvent, InsertFails
  <2>2. cur[p] \in Rule
    BY <2>1 DEF Shape, Pollers
  <2>3. alerts' = alerts /\ used' = used /\ plant' = plant
    BY <1>5 DEF InsertEvent, InsertFails, tables
  <2> QED
    BY <2>1, <2>2, <2>3, NextRuleType
<1>6. CASE Abandon(p)
  BY <1>6, RestType DEF Abandon, tables
<1> QED
  BY <1>1, <1>2, <1>3, <1>4, <1>5, <1>6 DEF Evaluate

\* The events after a step of Evaluate.
LEMMA EvaluateEvents ==
    ASSUME TypeOK, NEW p \in Poller, Evaluate(p) \/ Abandon(p)
    PROVE  events' \in [EventId -> Event]
<1> USE TypeParts
<1>1. CASE InsertEvent(p)
  <2> DEFINE r == cur[p]
  <2>1. r \in Rule /\ rules[p][r] # None /\ rules[p][r].metric \in DOMAIN reading[p]
    BY <1>1 DEF InsertEvent, Shape, Pollers
  <2>2. reading[p] \in Reading
    BY <1>1 DEF InsertEvent, Shape, Pollers
  <2>3. reading[p][rules[p][r].metric] \in Value
    BY <2>1, <2>2, ReadValue
  <2>4. PICK i \in EventId :
           events' = [events EXCEPT ![i] =
                        [rule |-> r, status |-> "open",
                         value |-> reading[p][rules[p][r].metric], acked |-> None,
                         by |-> IF blind[p] THEN None ELSE p]]
    BY <1>1 DEF InsertEvent
  <2>5. [rule |-> r, status |-> "open", value |-> reading[p][rules[p][r].metric],
         acked |-> None, by |-> IF blind[p] THEN None ELSE p] \in Event
    BY <2>1, <2>3 DEF Event
  <2> QED
    BY <2>4, <2>5 DEF Tables
<1>2. ASSUME NEW r \in Rule, ResolveEvents(p, r)
      PROVE  events' \in [EventId -> Event]
  BY <1>2, EventFields DEF ResolveEvents, Tables
<1>3. CASE events' = events
  BY <1>3 DEF Tables
<1> QED
  BY <1>1, <1>2, <1>3
     DEF Evaluate, Read, LoadRules, SkipRule, AlreadyOpen, FindNone, ResolveFails,
         InsertFails, Abandon, tables

\* An edit marks pollers and changes nothing else of them.
LEMMA EditType ==
    ASSUME Pollers, \A q \in Poller : Shape(q), NEW S \in SUBSET Rule, Edit(S),
           UNCHANGED <<phase, reading, rules, cur, blind>>
    PROVE  Pollers' /\ \A q \in Poller : Shape(q)'
<1>1. Pollers'
  BY DEF Edit, Pollers
<1>2. \A q \in Poller : Shape(q)'
  BY DEF Shape, NoRules
<1> QED
  BY <1>1, <1>2

LEMMA SamePollers ==
    ASSUME Pollers, \A q \in Poller : Shape(q), UNCHANGED pollers
    PROVE  Pollers' /\ \A q \in Poller : Shape(q)'
BY DEF Pollers, Shape, pollers, NoRules

LEMMA ApiType ==
    ASSUME TypeOK, Api
    PROVE  TypeOK'
<1> USE TypeParts, TypePartsNext
<1>1. ASSUME NEW r \in Rule, NEW d \in Definition, CreateAlert(r, d)
      PROVE  TypeOK'
  <2>1. Tables' /\ plant' \in Reading
    BY <1>1, Switching DEF CreateAlert, Tables
  <2> QED
    BY <1>1, <2>1, SamePollers DEF CreateAlert
<1>2. ASSUME NEW r \in Rule, NEW d \in Definition, UpdateAlert(r, d)
      PROVE  TypeOK'
  <2>1. Tables' /\ plant' \in Reading
    BY <1>2 DEF UpdateAlert, Tables
  <2> QED
    BY <1>2, <2>1, EditType DEF UpdateAlert
<1>3. ASSUME NEW S \in SUBSET Rule, NEW a \in BOOLEAN, BulkUpdateAlerts(S, a)
      PROVE  TypeOK'
  <2>1. ASSUME NEW r \in Rule, alerts[r] # None
        PROVE  [alerts[r] EXCEPT !.active = a] \in Definition
    BY <2>1, Switching DEF Tables
  <2>2. Tables' /\ plant' \in Reading
    BY <1>3, <2>1 DEF BulkUpdateAlerts, Tables
  <2> QED
    BY <1>3, <2>2, EditType DEF BulkUpdateAlerts
<1>4. ASSUME NEW S \in SUBSET Rule, BulkDeleteAlerts(S)
      PROVE  TypeOK'
  <2>1. Tables' /\ plant' \in Reading
    BY <1>4, EventFields DEF BulkDeleteAlerts, Tables
  <2> QED
    BY <1>4, <2>1, EditType DEF BulkDeleteAlerts
<1>5. ASSUME NEW u \in User, AcknowledgeInfoEvents(u)
      PROVE  TypeOK'
  <2>1. Tables' /\ plant' \in Reading
    BY <1>5, EventFields DEF AcknowledgeInfoEvents, Tables
  <2> QED
    BY <1>5, <2>1, SamePollers DEF AcknowledgeInfoEvents
<1>6. ASSUME NEW u \in User, NEW i \in EventId, AcknowledgeAlertEvent(i, u)
      PROVE  TypeOK'
  <2>1. Tables' /\ plant' \in Reading
    BY <1>6, EventFields DEF AcknowledgeAlertEvent, Tables
  <2> QED
    BY <1>6, <2>1, SamePollers DEF AcknowledgeAlertEvent
<1> QED
  BY <1>1, <1>2, <1>3, <1>4, <1>5, <1>6 DEF Api, DeleteAlert

LEMMA TypeStep == TypeOK /\ [Next]_vars => TypeOK'
<1> SUFFICES ASSUME TypeOK, [Next]_vars PROVE TypeOK'
  OBVIOUS
<1> USE TypeParts, TypePartsNext
<1>1. ASSUME NEW p \in Poller, Evaluate(p) \/ Abandon(p)
      PROVE  TypeOK'
  BY <1>1, EvaluateType, EvaluateEvents DEF Tables
<1>2. CASE Api
  BY <1>2, ApiType
<1>3. CASE Change
  BY <1>3, SamePollers DEF Change, Tables, tables
<1>4. CASE UNCHANGED vars
  BY <1>4, SamePollers DEF vars, Tables, tables
<1> QED
  BY <1>1, <1>2, <1>3, <1>4 DEF Next

(***************************************************************************)
(* Every variable keeps its type, and a poller's reading, loaded rules and *)
(* current rule go with its place in Evaluate, for any rules and readings. *)
(***************************************************************************)
THEOREM AlertTypes == Spec => []TypeOK
BY TypeInit, TypeStep, PTL DEF Spec

-----------------------------------------------------------------------------
(***************************************************************************)
(* The inductive invariant behind the properties of events.  A poller that *)
(* is about to insert has found the rule violated and, unless its query    *)
(* failed, no open event of its own; others can only have added theirs.    *)
(* What a poller has loaded is the rule as it stands, or was edited since. *)
(***************************************************************************)
EventsHaveRules == \A i \in EventId : events[i] # NoEvent => events[i].rule \in Rule

NoneOfItsOwn ==
    \A p \in Poller : phase[p] = "insert" /\ ~blind[p] =>
        \A i \in EventId :
            events[i].rule = cur[p] /\ events[i].status = "open" => events[i].by # p

InHand(p) ==
    /\ phase[p] = "insert" => Violates(rules[p][cur[p]], reading[p])
    /\ \A r \in Rule : rules[p][r] # None =>
          r \in edited[p] \/ (alerts[r] = rules[p][r] /\ alerts[r].active)

GivenOut == \A r \in Rule : alerts[r] # None => r \in used

EventInv ==
    /\ TypeOK /\ GivenOut
    /\ EventsHaveRules /\ NoOrphanEvents /\ OneOpenPerPoller
    /\ NoneOfItsOwn /\ \A p \in Poller : InHand(p)

\* A step of Evaluate disturbs no other poller.
LEMMA OtherPollers ==
    ASSUME TypeOK, NEW p \in Poller, Evaluate(p) \/ Abandon(p), NEW q \in Poller, q # p
    PROVE  /\ phase'[q] = phase[q] /\ reading'[q] = reading[q] /\ rules'[q] = rules[q]
           /\ cur'[q] = cur[q] /\ blind'[q] = blind[q] /\ edited'[q] = edited[q]
<1> USE TypeParts
<1>1. ASSUME Rest(p)
      PROVE  /\ phase'[q] = phase[q] /\ reading'[q] = reading[q] /\ rules'[q] = rules[q]
             /\ cur'[q] = cur[q] /\ blind'[q] = blind[q] /\ edited'[q] = edited[q]
  BY <1>1 DEF Rest, Pollers
<1>2. ASSUME NEW r, NextRule(p, r)
      PROVE  /\ phase'[q] = phase[q] /\ reading'[q] = reading[q] /\ rules'[q] = rules[q]
             /\ cur'[q] = cur[q] /\ blind'[q] = blind[q] /\ edited'[q] = edited[q]
  BY <1>1, <1>2 DEF NextRule, Pollers
<1>3. CASE Read(p)
  BY <1>3 DEF Read, Pollers
<1>4. CASE LoadRules(p)
  BY <1>1, <1>4 DEF LoadRules, Pollers
<1>5. ASSUME NEW r \in Rule, FindNone(p, r)
      PROVE  /\ phase'[q] = phase[q] /\ reading'[q] = reading[q] /\ rules'[q] = rules[q]
             /\ cur'[q] = cur[q] /\ blind'[q] = blind[q] /\ edited'[q] = edited[q]
  BY <1>5 DEF FindNone, Pollers
<1> QED
  BY <1>1, <1>2, <1>3, <1>4, <1>5
     DEF Evaluate, SkipRule, AlreadyOpen, ResolveEvents, ResolveFails, InsertEvent,
         InsertFails, Abandon

\* Where NextRule and Rest leave the poller itself.
LEMMA RestEffect ==
    ASSUME Pollers, NEW p \in Poller, Rest(p)
    PROVE  phase'[p] = "idle" /\ \A s \in Rule : rules'[p][s] = None
BY DEF Rest, Pollers, NoRules

LEMMA NextRuleEffect ==
    ASSUME Pollers, NEW p \in Poller, NEW r \in Rule, NextRule(p, r)
    PROVE  /\ phase'[p] # "insert"
           /\ \A s \in Rule : rules'[p][s] # None =>
                 /\ rules'[p][s] = rules[p][s]
                 /\ s \in edited[p] => s \in edited'[p]
<1>1. CASE \A s \in Rule \ {r} : rules[p][s] = None
  BY <1>1, RestEffect DEF NextRule
<1>2. CASE ~ \A s \in Rule \ {r} : rules[p][s] = None
  BY <1>2 DEF NextRule, Pollers
<1> QED
  BY <1>1, <1>2

LEMMA EventInit == Init => EventInv
<1> SUFFICES ASSUME Init PROVE EventInv
  OBVIOUS
<1>1. TypeOK /\ GivenOut
  BY TypeInit DEF Init, GivenOut
<1>2. \A i \in EventId : events[i] = NoEvent
  BY DEF Init
<1>3. EventsHaveRules /\ NoOrphanEvents /\ OneOpenPerPoller
  BY <1>2 DEF EventsHaveRules, NoOrphanEvents, OneOpenPerPoller, NoEvent
<1>4. NoneOfItsOwn /\ \A p \in Poller : InHand(p)
  BY DEF Init, NoneOfItsOwn, InHand, NoRules
<1> QED
  BY <1>1, <1>3, <1>4 DEF EventInv

\* What a poller has in hand after a step of Evaluate.
LEMMA HandsAfterEvaluate ==
    ASSUME EventInv, NEW p \in Poller, Evaluate(p) \/ Abandon(p)
    PROVE  \A q \in Poller : InHand(q)'
<1> USE TypeParts DEF EventInv
<1>0. alerts' = alerts
  BY EvaluateType
<1>1. InHand(p)'
  <2>1. ASSUME Rest(p) \/ \E r \in Rule : NextRule(p, r)
        PROVE  InHand(p)'
    BY <1>0, <2>1, RestEffect, NextRuleEffect DEF InHand
  <2>2. CASE Read(p)
    BY <1>0, <2>2 DEF Read, Pollers, InHand
  <2>3. CASE LoadRules(p)
    <3>1. PICK S \in SUBSET ActiveRules :
             IF S = {} THEN Rest(p)
             ELSE /\ phase' = [phase EXCEPT ![p] = "eval"]
                  /\ rules' = [rules EXCEPT ![p] = [r \in Rule |-> IF r \in S THEN alerts[r]
                                                                   ELSE None]]
                  /\ UNCHANGED <<reading, cur, blind, edited>>
      BY <2>3 DEF LoadRules
    <3>2. CASE S = {}
      BY <2>1, <3>1, <3>2
    <3>3. CASE S # {}
      <4>1. phase'[p] = "eval"
        BY <3>1, <3>3 DEF Pollers
      <4>2. \A r \in Rule : rules'[p][r] = IF r \in S THEN alerts[r] ELSE None
        BY <3>1, <3>3 DEF Pollers
      <4> QED
        BY <1>0, <4>1, <4>2 DEF ActiveRules, InHand
    <3> QED
      BY <3>2, <3>3
  <2>4. ASSUME NEW r \in Rule, FindNone(p, r)
        PROVE  InHand(p)'
    <3>1. cur'[p] = r /\ rules' = rules /\ reading' = reading /\ edited' = edited
      BY <2>4 DEF FindNone, Pollers
    <3>2. Violates(rules[p][r], reading[p])
      BY <2>4 DEF FindNone
    <3> QED
      BY <1>0, <3>1, <3>2 DEF InHand
  <2>5. ASSUME InsertEvent(p) \/ InsertFails(p)
        PROVE  \E r \in Rule : NextRule(p, r)
    BY <2>5 DEF InsertEvent, InsertFails, Shape, Pollers
  <2> QED
    BY <2>1, <2>2, <2>3, <2>4, <2>5
       DEF Evaluate, SkipRule, AlreadyOpen, ResolveEvents, ResolveFails, Abandon
<1> QED
  BY <1>0, <1>1, OtherPollers DEF InHand

\* What is left of the event in place i after a step: its rule and its poller.
Kept(i) == /\ events'[i].rule = events[i].rule /\ events'[i].by = events[i].by
           /\ events'[i].status = "open" => events[i].status = "open"

\* An event is kept, deleted with its rule, or new.
LEMMA KeptByEvaluate ==
    ASSUME TypeOK, EventsHaveRules, NEW p \in Poller, Evaluate(p) \/ Abandon(p),
           ~ InsertEvent(p), NEW i \in EventId
    PROVE  Kept(i) /\ (events'[i] # NoEvent => events[i] # NoEvent)
<1>1. CASE events' = events
  BY <1>1 DEF Kept
<1>2. ASSUME NEW r \in Rule, ResolveEvents(p, r)
      PROVE  Kept(i) /\ (events'[i] # NoEvent => events[i] # NoEvent)
  <2>1. events'[i] = IF i \in ToResolve(r) THEN [events[i] EXCEPT !.status = "resolved"]
                     ELSE events[i]
    BY <1>2 DEF ResolveEvents
  <2>2. events[i] \in Event
    BY TypeParts DEF Tables
  <2>3. CASE i \in ToResolve(r)
    BY <2>1, <2>2, <2>3 DEF Kept, Event, ToResolve, Open, NoEvent
  <2>4. CASE i \notin ToResolve(r)
    BY <2>1, <2>4 DEF Kept
  <2> QED
    BY <2>3, <2>4
<1> QED
  BY <1>1, <1>2
     DEF Evaluate, Read, LoadRules, SkipRule, AlreadyOpen, FindNone, ResolveFails,
         InsertFails, Abandon, tables

LEMMA EventsAfterEvaluate ==
    ASSUME EventInv, NEW p \in Poller, Evaluate(p) \/ Abandon(p)
    PROVE  EventsHaveRules' /\ NoOrphanEvents' /\ OneOpenPerPoller' /\ NoneOfItsOwn'
<1> USE TypeParts DEF EventInv
<1>0. alerts' = alerts
  BY EvaluateType
<1>1. CASE InsertEvent(p)
  <2> DEFINE r == cur[p]
  <2>0. r \in Rule /\ alerts[r] # None /\ phase[p] = "insert"
    BY <1>1 DEF InsertEvent, ForeignKey, Shape, Pollers
  <2>1. PICK i \in EventId :
           /\ events[i] = NoEvent
           /\ events' = [events EXCEPT ![i] =
                           [rule |-> r, status |-> "open",
                            value |-> reading[p][rules[p][r].metric], acked |-> None,
                            by |-> IF blind[p] THEN None ELSE p]]
    BY <1>1 DEF InsertEvent
  <2>2. /\ events'[i].rule = r /\ events'[i].status = "open"
        /\ events'[i].by = IF blind[p] THEN None ELSE p
        /\ events'[i] # NoEvent
    BY <2>1 DEF Tables, NoEvent
  <2>3. \A j \in EventId : j # i => events'[j] = events[j]
    BY <2>1 DEF Tables
  <2>4. EventsHaveRules'
    BY <2>0, <2>2, <2>3 DEF EventsHaveRules
  <2>5. NoOrphanEvents'
    BY <1>0, <2>0, <2>2, <2>3 DEF NoOrphanEvents
  <2>6. phase'[p] # "insert"
    BY <1>1, <2>0, NextRuleEffect DEF InsertEvent
  <2>7. blind[p] \in BOOLEAN
    BY DEF Pollers
  <2>8. OneOpenPerPoller'
    BY <2>0, <2>2, <2>3, <2>7 DEF OneOpenPerPoller, NoneOfItsOwn
  <2>9. NoneOfItsOwn'
    BY <2>2, <2>3, <2>6, <2>7, OtherPollers, NullIsNoRow DEF NoneOfItsOwn
  <2> QED
    BY <2>4, <2>5, <2>8, <2>9
<1>2. CASE ~ InsertEvent(p)
  <2>1. \A i \in EventId : Kept(i) /\ (events'[i] # NoEvent => events[i] # NoEvent)
    BY <1>2, KeptByEvaluate
  <2>2. EventsHaveRules' /\ NoOrphanEvents' /\ OneOpenPerPoller'
    BY <1>0, <2>1 DEF Kept, EventsHaveRules, NoOrphanEvents, OneOpenPerPoller
  <2>3. ASSUME phase'[p] = "insert", ~ blind'[p], NEW i \in EventId,
               events'[i].rule = cur'[p], events'[i].status = "open"
        PROVE  events'[i].by # p
    <3>1. PICK r \in Rule : FindNone(p, r)
      BY <1>2, <2>3, RestEffect, NextRuleEffect
         DEF Evaluate, Read, LoadRules, SkipRule, AlreadyOpen, ResolveEvents, ResolveFails,
             InsertFails, Abandon, Pollers, Shape
    <3>2. cur'[p] = r /\ OpenEvent(r) = {} /\ events' = events
      BY <2>3, <3>1 DEF FindNone, Pollers, tables
    <3> QED
      BY <2>3, <3>2 DEF OpenEvent, Open
  <2>4. NoneOfItsOwn'
    BY <2>1, <2>3, OtherPollers DEF NoneOfItsOwn, Kept
  <2> QED
    BY <2>2, <2>4
<1> QED
  BY <1>1, <1>2

\* Calls that write rules: the pollers that had loaded them are marked.
LEMMA HandsAfterEdit ==
    ASSUME EventInv, NEW S \in SUBSET Rule, Edit(S),
           \A r \in Rule \ S : alerts'[r] = alerts[r],
           UNCHANGED <<phase, reading, rules, cur, blind>>
    PROVE  \A q \in Poller : InHand(q)'
<1> USE TypeParts DEF EventInv
<1>1. \A q \in Poller : edited'[q] = edited[q] \cup {r \in S : rules[q][r] # None}
  BY DEF Edit
<1> QED
  BY <1>1 DEF InHand

LEMMA ApiStep == EventInv /\ Api => EventInv'
<1> SUFFICES ASSUME EventInv, Api PROVE EventInv'
  OBVIOUS
<1> USE TypeParts DEF EventInv
<1>0. TypeOK'
  BY ApiType
<1>1. ASSUME NEW r \in Rule, NEW d \in Definition, CreateAlert(r, d)
      PROVE  EventInv'
  <2>1. alerts[r] = None /\ alerts'[r] = [d EXCEPT !.active = TRUE]
    BY <1>1 DEF CreateAlert, GivenOut, Tables
  <2>2. alerts'[r] # None
    BY <2>1, Switching, NullIsNoRow
  <2>3. \A q \in Rule : q # r => alerts'[q] = alerts[q]
    BY <1>1 DEF CreateAlert, Tables
  <2>4. /\ UNCHANGED <<events, phase, reading, rules, cur, blind, edited>>
        /\ used' = used \cup {r}
    BY <1>1 DEF CreateAlert, pollers
  <2>5. GivenOut' /\ EventsHaveRules' /\ NoOrphanEvents'
    BY <2>2, <2>3, <2>4 DEF GivenOut, EventsHaveRules, NoOrphanEvents
  <2>6. OneOpenPerPoller' /\ NoneOfItsOwn'
    BY <2>4 DEF OneOpenPerPoller, NoneOfItsOwn
  <2>7. \A q \in Poller : InHand(q)'
    BY <2>1, <2>3, <2>4 DEF InHand
  <2> QED
    BY <1>0, <2>5, <2>6, <2>7
<1>2. ASSUME NEW S \in SUBSET Rule, Edit(S),
             \A r \in Rule : (alerts'[r] # None) <=> (alerts[r] # None),
             \A r \in Rule \ S : alerts'[r] = alerts[r],
             UNCHANGED <<used, events, phase, reading, rules, cur, blind>>
      PROVE  EventInv'
  <2>1. GivenOut' /\ EventsHaveRules' /\ NoOrphanEvents'
    BY <1>2 DEF GivenOut, EventsHaveRules, NoOrphanEvents
  <2>2. OneOpenPerPoller' /\ NoneOfItsOwn'
    BY <1>2 DEF OneOpenPerPoller, NoneOfItsOwn
  <2> QED
    BY <1>0, <1>2, <2>1, <2>2, HandsAfterEdit
<1>3. ASSUME NEW r \in Rule, NEW d \in Definition, UpdateAlert(r, d)
      PROVE  EventInv'
  <2>1. \A q \in Rule : alerts'[q] = IF q = r THEN d ELSE alerts[q]
    BY <1>3 DEF UpdateAlert, Tables
  <2> QED
    BY <1>2, <1>3, <2>1, NullIsNoRow DEF UpdateAlert
<1>4. ASSUME NEW S \in SUBSET Rule, NEW a \in BOOLEAN, BulkUpdateAlerts(S, a)
      PROVE  EventInv'
  <2>1. \A r \in Rule : alerts'[r] = IF r \in S /\ alerts[r] # None
                                     THEN [alerts[r] EXCEPT !.active = a] ELSE alerts[r]
    BY <1>4 DEF BulkUpdateAlerts
  <2>2. \A r \in Rule : alerts[r] # None => [alerts[r] EXCEPT !.active = a] # None
    BY Switching, NullIsNoRow DEF Tables
  <2> QED
    BY <1>2, <1>4, <2>1, <2>2 DEF BulkUpdateAlerts
<1>5. ASSUME NEW S \in SUBSET Rule, BulkDeleteAlerts(S)
      PROVE  EventInv'
  <2>1. \A r \in Rule : alerts'[r] = IF r \in S THEN None ELSE alerts[r]
    BY <1>5 DEF BulkDeleteAlerts
  <2>2. \A i \in EventId : events'[i] = IF events[i].rule \in S THEN NoEvent ELSE events[i]
    BY <1>5 DEF BulkDeleteAlerts
  <2>3. UNCHANGED <<used, phase, reading, rules, cur, blind>>
    BY <1>5 DEF BulkDeleteAlerts
  <2>4. GivenOut' /\ EventsHaveRules' /\ NoOrphanEvents'
    BY <2>1, <2>2, <2>3 DEF GivenOut, EventsHaveRules, NoOrphanEvents
  <2>5. OneOpenPerPoller' /\ NoneOfItsOwn'
    BY <2>2, <2>3 DEF OneOpenPerPoller, NoneOfItsOwn, NoEvent
  <2>6. \A q \in Poller : InHand(q)'
    BY <1>5, <2>1, <2>3, HandsAfterEdit DEF BulkDeleteAlerts
  <2> QED
    BY <1>0, <2>4, <2>5, <2>6
<1>6. ASSUME UNCHANGED <<alerts, used, pollers>>, NEW u \in User,
             \A i \in EventId : \/ events'[i] = events[i]
                                \/ /\ events[i] # NoEvent
                                   /\ events'[i] = [events[i] EXCEPT !.acked = u]
      PROVE  EventInv'
  <2>1. \A i \in EventId : /\ events'[i].rule = events[i].rule
                           /\ events'[i].status = events[i].status
                           /\ events'[i].by = events[i].by
                           /\ events'[i] # NoEvent => events[i] # NoEvent
    <3> SUFFICES ASSUME NEW i \in EventId
                 PROVE  /\ events'[i].rule = events[i].rule
                        /\ events'[i].status = events[i].status
                        /\ events'[i].by = events[i].by
                        /\ events'[i] # NoEvent => events[i] # NoEvent
      OBVIOUS
    <3>1. events[i] \in Event
      BY DEF Tables
    <3>2. [events[i] EXCEPT !.acked = u].rule = events[i].rule
          /\ [events[i] EXCEPT !.acked = u].status = events[i].status
          /\ [events[i] EXCEPT !.acked = u].by = events[i].by
      BY <3>1 DEF Event
    <3> QED
      BY <1>6, <3>2
  <2>2. GivenOut' /\ EventsHaveRules' /\ NoOrphanEvents'
    BY <1>6, <2>1 DEF GivenOut, EventsHaveRules, NoOrphanEvents
  <2>3. OneOpenPerPoller' /\ NoneOfItsOwn'
    BY <1>6, <2>1 DEF OneOpenPerPoller, NoneOfItsOwn, pollers
  <2>4. \A q \in Poller : InHand(q)'
    BY <1>6 DEF InHand, pollers
  <2> QED
    BY <1>0, <2>2, <2>3, <2>4
<1>7. ASSUME NEW u \in User, AcknowledgeInfoEvents(u)
      PROVE  EventInv'
  <2>1. \A i \in EventId : events[i].status = "open" => events[i] # NoEvent
    BY DEF NoEvent
  <2>2. \A i \in EventId : \/ events'[i] = events[i]
                           \/ /\ events[i].status = "open"
                              /\ events'[i] = [events[i] EXCEPT !.acked = u]
    BY <1>7 DEF AcknowledgeInfoEvents
  <2>3. UNCHANGED <<alerts, used, pollers>>
    BY <1>7 DEF AcknowledgeInfoEvents
  <2> QED
    BY <1>6, <2>1, <2>2, <2>3
<1>8. ASSUME NEW u \in User, NEW i \in EventId, AcknowledgeAlertEvent(i, u)
      PROVE  EventInv'
  <2>1. \A j \in EventId : events'[j] = IF j = i THEN [events[i] EXCEPT !.acked = u]
                                        ELSE events[j]
    BY <1>8 DEF AcknowledgeAlertEvent, Tables
  <2> QED
    BY <1>6, <1>8, <2>1 DEF AcknowledgeAlertEvent
<1> QED
  BY <1>1, <1>3, <1>4, <1>5, <1>7, <1>8 DEF Api, DeleteAlert

LEMMA EventStep == EventInv /\ [Next]_vars => EventInv'
<1> SUFFICES ASSUME EventInv, [Next]_vars PROVE EventInv'
  OBVIOUS
<1> USE DEF EventInv
<1>0. TypeOK'
  BY TypeStep
<1>1. ASSUME NEW p \in Poller, Evaluate(p) \/ Abandon(p)
      PROVE  EventInv'
  <2>1. GivenOut'
    BY <1>1, EvaluateType DEF GivenOut
  <2> QED
    BY <1>0, <1>1, <2>1, HandsAfterEvaluate, EventsAfterEvaluate
<1>2. CASE Api
  BY <1>2, ApiStep
<1>3. CASE UNCHANGED <<tables, pollers>>
  BY <1>0, <1>3
     DEF tables, pollers, GivenOut, EventsHaveRules, NoOrphanEvents, OneOpenPerPoller,
         NoneOfItsOwn, InHand
<1> QED
  BY <1>1, <1>2, <1>3 DEF Next, Change, vars

\* The invariant holds in every reachable state, for any rules and pollers.
THEOREM EventInvariant == Spec => []EventInv
BY EventInit, EventStep, PTL DEF Spec

-----------------------------------------------------------------------------
(***************************************************************************)
(* No event outlives its rule, though the insert of one may be under way   *)
(* when the rule is deleted.                                               *)
(***************************************************************************)
THEOREM NoEventOutlivesItsRule == Spec => []NoOrphanEvents
BY EventInvariant, PTL DEF EventInv

(***************************************************************************)
(* Whatever the number of pollers and rules, a poller that can read the    *)
(* table never opens a second event beside one it opened.                  *)
(***************************************************************************)
THEOREM OpenEventsAreBounded == Spec => []OneOpenPerPoller
BY EventInvariant, PTL DEF EventInv

-----------------------------------------------------------------------------
\* The status of an event changes in an insert, an update by Evaluate, or a
\* deletion, which leaves no rule in its place.
LEMMA FollowStep ==
    ASSUME EventInv, [Next]_vars, NEW i \in EventId, NEW r \in Rule
    PROVE  FollowsRule(i, r)
<1> USE TypeParts DEF EventInv
<1> SUFFICES ASSUME events'[i].rule = r, events'[i].status # events[i].status
             PROVE  FollowsRule(i, r)
  BY DEF FollowsRule
<1>1. ASSUME NEW p \in Poller, InsertEvent(p)
      PROVE  FollowsRule(i, r)
  <2>1. phase[p] = "insert" /\ cur[p] \in Rule /\ rules[p][cur[p]] # None
    BY <1>1 DEF InsertEvent, Shape, Pollers
  <2>2. reading[p] # None /\ Violates(rules[p][cur[p]], reading[p])
    BY <2>1 DEF InHand, Shape
  <2>3. /\ events'[i].rule = cur[p]
        /\ events'[i].status = "open"
        /\ events'[i].value = reading[p][rules[p][cur[p]].metric]
    BY <1>1 DEF InsertEvent, Tables
  <2>4. r \in edited[p] \/ (alerts[r] = rules[p][r] /\ alerts[r].active)
    BY <2>1, <2>3 DEF InHand
  <2> QED
    BY <2>1, <2>2, <2>3, <2>4 DEF FollowsRule
<1>2. ASSUME NEW p \in Poller, NEW s \in Rule, ResolveEvents(p, s)
      PROVE  FollowsRule(i, r)
  <2>1. /\ phase[p] = "eval" /\ rules[p][s] # None
        /\ Clears(rules[p][s], reading[p])
    BY <1>2 DEF ResolveEvents, Evaluating
  <2>2. events'[i] = IF i \in ToResolve(s) THEN [events[i] EXCEPT !.status = "resolved"]
                     ELSE events[i]
    BY <1>2 DEF ResolveEvents
  <2>3. i \in ToResolve(s)
    BY <2>2
  <2>4. events[i] \in Event /\ events[i].rule = s
    BY <2>3 DEF Tables, ToResolve, Open
  <2>5. r = s /\ events'[i].status = "resolved"
    BY <2>2, <2>3, <2>4 DEF Event
  <2>6. reading[p] # None
    BY <2>1 DEF Shape
  <2>7. r \in edited[p] \/ (alerts[r] = rules[p][r] /\ alerts[r].active)
    BY <2>1, <2>5 DEF InHand
  <2> QED
    BY <2>1, <2>5, <2>6, <2>7 DEF FollowsRule
<1>3. ASSUME NEW S \in SUBSET Rule, BulkDeleteAlerts(S)
      PROVE  FALSE
  <2>1. events'[i] = IF events[i].rule \in S THEN NoEvent ELSE events[i]
    BY <1>3 DEF BulkDeleteAlerts
  <2> QED
    BY <2>1, NullIsNoRow DEF NoEvent
<1>4. ASSUME NEW u \in User, NEW j \in EventId, AcknowledgeAlertEvent(j, u)
      PROVE  FALSE
  BY <1>4 DEF AcknowledgeAlertEvent, Tables, Event
<1>5. ASSUME NEW u \in User, AcknowledgeInfoEvents(u)
      PROVE  FALSE
  <2>1. events'[i] = events[i] \/ events'[i] = [events[i] EXCEPT !.acked = u]
    BY <1>5 DEF AcknowledgeInfoEvents
  <2>2. events[i] \in Event
    BY DEF Tables
  <2> QED
    BY <2>1, <2>2 DEF Event
<1>6. CASE events' = events
  BY <1>6
<1> QED
  BY <1>1, <1>2, <1>3, <1>4, <1>5, <1>6
     DEF Next, Evaluate, Read, LoadRules, SkipRule, AlreadyOpen, FindNone, ResolveFails,
         InsertFails, Abandon, Api, CreateAlert, UpdateAlert, BulkUpdateAlerts,
         DeleteAlert, Change, tables, vars

(***************************************************************************)
(* For any rules, readings and pollers: events are opened and resolved     *)
(* for rules as they stand, unless the rule was edited under the poller.   *)
(***************************************************************************)
THEOREM EventsFollow == Spec => EventsFollowRules
<1>1. EventInv /\ [Next]_vars => [\A i \in EventId, r \in Rule : FollowsRule(i, r)]_vars
  BY FollowStep
<1> QED
  BY <1>1, EventInvariant, PTL DEF Spec, EventsFollowRules

=============================================================================
