----------------------------- MODULE MCConsole -----------------------------
(* An instance of Console for TLC. *)
EXTENDS Console

\* ConfigEditor: a machine on the first site, without a host of its own.
MCSiteOf == [m \in Machine |-> "s1"]
MCHostOf == [m \in Machine |-> NoHost]

\* RegisterEditor: a file whose row the server would complete.
MCFile == {<<[name |-> "a", scale |-> 0]>>}

\* AlertRulesEditor: a machine that has only a coil, and one that has none.
MCMetricsOf == [d \in Device |-> IF d = "d1" THEN {"coil"} ELSE {"level"}]

\* SiteAdmin: the part is a machine on the first site.
MCPlantOf == [p \in Part |-> "p1"]
MCWithin  == [p \in Part |-> {p}]
\* Two sites, of which the first is to get a machine, or that one with a machine.
MCFirstTrees == {[plants |-> Plant, parts |-> {}, used |-> Plant],
                 [plants |-> {"p1"}, parts |-> Part, used |-> {"p1"} \cup Part]}

\* WidgetForm: a machine on either line; they have one metric in common.
MCLineOf     == [u \in Unit |-> IF u = "u1" THEN "l1" ELSE "l2"]
MCMeasuresOf == [u \in Unit |-> IF u = "u1" THEN {"q1"} ELSE {"q1", "q2"}]
=============================================================================
