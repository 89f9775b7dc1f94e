----------------------------- MODULE WidgetForm -----------------------------
(***************************************************************************)
(* The data sources of a widget as its configuration form edits them:      *)
(* DataSourceList with a picker of line, machine and metric per source     *)
(* (LineChartConfig, BarChartConfig; IndicatorConfig with one source), and *)
(* DataSourceMachine, the older form of StatusCardConfig.                  *)
(*                                                                         *)
(* A source carries the name of its line for the legend.  The line a       *)
(* picker shows is state of the picker, and not of the source: a form that *)
(* is opened again starts each of them on the first line.                  *)
(***************************************************************************)
EXTENDS Integers, Sequences, SequencesExt

CONSTANTS
    ShopLine,     \* production lines of the site
    FirstLine,    \* the first one /sites/{id}/lines lists
    Unit,         \* machines
    LineOf,       \* the line a machine is on
    Measure,      \* metrics
    MeasuresOf,   \* those a machine has
    Unset,        \* nothing chosen, no name
    MaxSources,   \* bound: sources ever made
    MaxItems      \* bound: sources in a list

ASSUME WidgetConstants ==
    /\ FirstLine \in ShopLine
    /\ LineOf \in [Unit -> ShopLine]
    /\ MeasuresOf \in [Unit -> SUBSET Measure]
    /\ Unset \notin ShopLine
    /\ MaxSources \in Nat /\ MaxItems \in Nat

VARIABLES
    applied,    \* the widget's config.data_sources
    widget,     \* the form: whether it is open, of which kind, its sources, how many
                \* were ever made
    pickers,    \* the line each picker shows
    linesKnown, \* the site's lines have arrived
    unitsKnown, \* the lines whose machines have
    measuresKnown, \* the machines whose metrics have
    repicked    \* history: the sources whose machine was chosen in this form

widgetVars == <<applied, widget, pickers, linesKnown, unitsKnown, measuresKnown, repicked>>

Id    == 1 .. MaxSources
Item  == [id : Id, unit : Unit \cup {Unset}, measure : Measure \cup {Unset},
          line : ShopLine \cup {Unset}]
Items == SeqOf(Item, MaxItems)
NewItem(id) == [id |-> id, unit |-> Unset, measure |-> Unset, line |-> Unset]

WidgetInit ==
    /\ applied = <<>>
    /\ widget \in [open : {FALSE}, kind : {"list", "single", "card"}, items : {<<>>}, made : {0}]
    /\ pickers = [i \in Id |-> Unset]
    /\ linesKnown = FALSE
    /\ unitsKnown = {}
    /\ measuresKnown = {}
    /\ repicked = {}

\* A list without sources shows a new one, which is in the list from the first
\* change on.
ShownItems == IF widget.items = <<>> THEN <<NewItem(widget.made + 1)>> ELSE widget.items
Made == IF widget.items = <<>> THEN widget.made + 1 ELSE widget.made

HasItem(i) == widget.open /\ Made <= MaxSources /\ i \in DOMAIN ShownItems

\* The effect on [lines, lineId]: no line is never what a picker shows for long.
Settle(line, known) == IF line = Unset /\ known THEN FirstLine ELSE line

-----------------------------------------------------------------------------
OpenWidget ==
    /\ ~widget.open
    /\ widget' = [widget EXCEPT !.open = TRUE, !.items = applied]
    /\ UNCHANGED <<applied, linesKnown, unitsKnown, measuresKnown>>
    /\ pickers' = [i \in Id |-> Settle(Unset, linesKnown)]
    /\ repicked' = {}

CloseWidget ==
    /\ widget.open
    /\ widget' = [widget EXCEPT !.open = FALSE, !.items = <<>>]
    /\ UNCHANGED <<applied, pickers, linesKnown, unitsKnown, measuresKnown, repicked>>

\* Apply: a list has to have one complete source, the card need not.
ApplyWidget ==
    /\ widget.open
    /\ widget.kind # "card" =>
        \E i \in DOMAIN widget.items : Unset \notin {widget.items[i].unit, widget.items[i].measure}
    /\ applied' = widget.items
    /\ widget' = [widget EXCEPT !.open = FALSE, !.items = <<>>]
    /\ UNCHANGED <<pickers, linesKnown, unitsKnown, measuresKnown, repicked>>

UpdateItem(i, item) ==
    /\ widget' = [widget EXCEPT !.items = [ShownItems EXCEPT ![i] = item], !.made = Made]
    /\ UNCHANGED <<applied, linesKnown, unitsKnown, measuresKnown>>

\* The card's picker leaves machine and metric as they are.
ChooseLine(i, line) ==
    /\ HasItem(i)
    /\ linesKnown
    /\ UpdateItem(i, IF widget.kind = "card" THEN ShownItems[i] ELSE NewItem(ShownItems[i].id))
    /\ pickers' = [pickers EXCEPT ![ShownItems[i].id] = Settle(line, linesKnown)]
    /\ repicked' = repicked \ {ShownItems[i].id}

PickerLine(i) == pickers[ShownItems[i].id]

Picked(item, unit, line) ==
    IF widget.kind = "card" THEN [item EXCEPT !.unit = unit]
    ELSE [item EXCEPT !.unit = unit, !.measure = Unset, !.line = line]

ChooseUnit(i, unit) ==
    /\ HasItem(i)
    /\ unit # Unset => PickerLine(i) \in unitsKnown /\ LineOf[unit] = PickerLine(i)
    /\ UpdateItem(i, Picked(ShownItems[i], unit, PickerLine(i)))
    /\ repicked' = repicked \cup {ShownItems[i].id}
    /\ UNCHANGED pickers

\* The name of the line is written once more, of the line the picker shows now.
ChooseMeasure(i, measure) ==
    /\ HasItem(i)
    /\ LET item == ShownItems[i]
       IN /\ item.unit # Unset
          /\ measure # Unset => item.unit \in measuresKnown /\ measure \in MeasuresOf[item.unit]
          /\ UpdateItem(i, [item EXCEPT !.measure = measure,
                                        !.line = IF widget.kind = "card" THEN @
                                                 ELSE IF PickerLine(i) # Unset THEN PickerLine(i)
                                                 ELSE @])
    /\ UNCHANGED <<pickers, repicked>>

AddItem ==
    /\ widget.open /\ widget.kind = "list"
    /\ Len(ShownItems) < MaxItems /\ Made < MaxSources
    /\ widget' = [widget EXCEPT !.items = Append(ShownItems, NewItem(Made + 1)), !.made = Made + 1]
    /\ pickers' = [pickers EXCEPT ![Made + 1] = Settle(Unset, linesKnown)]
    /\ UNCHANGED <<applied, linesKnown, unitsKnown, measuresKnown, repicked>>

\* The pickers are keyed by the sources' ids.  (Its mutant keys them by place.)
PickersByPlace(i) ==
    LET place(d) == CHOOSE j \in DOMAIN widget.items : widget.items[j].id = d
    IN [d \in Id |-> IF \E j \in DOMAIN widget.items : j > i /\ widget.items[j].id = d
                     THEN pickers[widget.items[place(d) - 1].id] ELSE pickers[d]]
PickersWithout(i) == pickers

RemoveItem(i) ==
    /\ HasItem(i) /\ widget.kind = "list"
    /\ Len(ShownItems) > 1
    /\ widget' = [widget EXCEPT !.items = RemoveAt(@, i)]
    /\ pickers' = PickersWithout(i)
    /\ UNCHANGED <<applied, linesKnown, unitsKnown, measuresKnown, repicked>>

-----------------------------------------------------------------------------
(* What the pickers ask for arrives; it is cached and stays. *)

LinesArrive ==
    /\ widget.open
    /\ linesKnown' = TRUE
    /\ pickers' = [i \in Id |-> Settle(pickers[i], TRUE)]
    /\ UNCHANGED <<applied, widget, unitsKnown, measuresKnown, repicked>>

UnitsArrive(line) ==
    /\ \E i \in 1 .. MaxItems : HasItem(i) /\ PickerLine(i) = line
    /\ unitsKnown' = unitsKnown \cup {line}
    /\ UNCHANGED <<applied, widget, pickers, linesKnown, measuresKnown, repicked>>

MeasuresArrive(unit) ==
    /\ \E i \in DOMAIN widget.items : widget.items[i].unit = unit
    /\ measuresKnown' = measuresKnown \cup {unit}
    /\ UNCHANGED <<applied, widget, pickers, linesKnown, unitsKnown, repicked>>

WidgetNext ==
    \/ OpenWidget \/ CloseWidget \/ ApplyWidget \/ AddItem \/ LinesArrive
    \/ \E i \in 1 .. MaxItems :
        \/ RemoveItem(i)
        \/ \E line \in ShopLine \cup {Unset} : ChooseLine(i, line)
        \/ \E unit \in Unit \cup {Unset} : ChooseUnit(i, unit)
        \/ \E measure \in Measure \cup {Unset} : ChooseMeasure(i, measure)
    \/ \E line \in ShopLine : UnitsArrive(line)
    \/ \E unit \in Unit : MeasuresArrive(unit)

WidgetSpec == WidgetInit /\ [][WidgetNext]_widgetVars

-----------------------------------------------------------------------------
(* Properties. *)

WidgetTypeOK ==
    /\ applied \in Items
    /\ widget.open \in BOOLEAN /\ widget.kind \in {"list", "single", "card"}
    /\ widget.items \in Items /\ widget.made \in 0 .. MaxSources
    /\ pickers \in [Id -> ShopLine \cup {Unset}]
    /\ linesKnown \in BOOLEAN
    /\ unitsKnown \subseteq ShopLine
    /\ measuresKnown \subseteq Unit
    /\ repicked \subseteq Id

\* A source whose machine was chosen in this form stays in step with it while
\* sources are added and removed around it: the picker shows the machine's line,
\* the legend has that line's name, and the metric is one the machine has.
\* (Of a source from before, the legend gets the first line's name as soon as its
\* metric is changed; and the card keeps the metric of another machine.)
SourceMatchesItsMachine ==
    widget.kind \in {"list", "single"} =>
        \A i \in DOMAIN widget.items :
            LET item == widget.items[i]
            IN item.id \in repicked /\ item.unit # Unset =>
                /\ pickers[item.id] = LineOf[item.unit]
                /\ item.line = LineOf[item.unit]
                /\ item.measure \in MeasuresOf[item.unit] \cup {Unset}
=============================================================================
