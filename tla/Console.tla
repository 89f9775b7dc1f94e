------------------------------ MODULE Console ------------------------------
(***************************************************************************)
(* The browser's pages side by side: a tab on one page of the application, *)
(* with the server's tables that page works on.  The pages share no state  *)
(* but the query cache, whose entries they do not share, and the other     *)
(* tabs and users are in each page's own module; so a tab that stays on    *)
(* one page shows all there is to see of it, and leaving a page and coming *)
(* back are steps of the page.                                             *)
(***************************************************************************)
EXTENDS ConfigEditor, DashboardEditor, RegisterEditor, AlertRulesEditor, Session,
        SiteAdmin, AlertEvents, WidgetForm, ChartWidget, WorkerConsole, ApiKeys

VARIABLE page   \* the one the tab is on

consoleVars == <<page, configVars, boardVars, registerVars, ruleVars, sessionVars, treeVars,
                 eventVars, widgetVars, chartVars, fleetVars, keyVars>>

Page == {"config", "board", "registers", "rules", "session", "sites", "events", "widget",
         "chart", "workers", "keys"}

\* Where a module has several initial states, they matter on its own page only.
ConsoleInit ==
    /\ page \in Page
    /\ ConfigInit /\ BoardInit /\ RuleInit /\ ChartInit /\ FleetInit /\ KeyInit
    /\ RegisterInit /\ (page # "registers" => machine = CHOOSE m \in MachineRow : TRUE)
    /\ SessionInit  /\ (page # "session" => cookies = NoCookies)
    /\ TreeInit     /\ (page # "sites" => tree = CHOOSE t \in FirstTrees : TRUE)
    /\ EventInit    /\ (page # "events" => \A e \in Event : events[e] = Absent)
    /\ WidgetInit   /\ (page # "widget" => widget.kind = "list")

\* The pages the tab is not on.
Rest(p) ==
    /\ page = p
    /\ UNCHANGED page
    /\ IF p = "config" THEN TRUE ELSE UNCHANGED configVars
    /\ IF p = "board" THEN TRUE ELSE UNCHANGED boardVars
    /\ IF p = "registers" THEN TRUE ELSE UNCHANGED registerVars
    /\ IF p = "rules" THEN TRUE ELSE UNCHANGED ruleVars
    /\ IF p = "session" THEN TRUE ELSE UNCHANGED sessionVars
    /\ IF p = "sites" THEN TRUE ELSE UNCHANGED treeVars
    /\ IF p = "events" THEN TRUE ELSE UNCHANGED eventVars
    /\ IF p = "widget" THEN TRUE ELSE UNCHANGED widgetVars
    /\ IF p = "chart" THEN TRUE ELSE UNCHANGED chartVars
    /\ IF p = "workers" THEN TRUE ELSE UNCHANGED fleetVars
    /\ IF p = "keys" THEN TRUE ELSE UNCHANGED keyVars

ConsoleNext ==
    \/ Rest("config") /\ ConfigNext
    \/ Rest("board") /\ BoardNext
    \/ Rest("registers") /\ RegisterNext
    \/ Rest("rules") /\ RuleNext
    \/ Rest("session") /\ SessionNext
    \/ Rest("sites") /\ TreeNext
    \/ Rest("events") /\ EventNext
    \/ Rest("widget") /\ WidgetNext
    \/ Rest("chart") /\ ChartNext
    \/ Rest("workers") /\ FleetPageNext
    \/ Rest("keys") /\ KeyNext

ConsoleSpec == ConsoleInit /\ [][ConsoleNext]_consoleVars

-----------------------------------------------------------------------------
\* Every table, cache entry, dialog and request of every page keeps its shape: no
\* reply, early, late or lost, leaves a page in a state its code does not know.
ConsoleTypeOK ==
    /\ page \in Page
    /\ ConfigTypeOK /\ BoardTypeOK /\ RegisterTypeOK /\ RuleTypeOK /\ SessionTypeOK
    /\ TreeTypeOK /\ EventTypeOK /\ WidgetTypeOK /\ ChartTypeOK /\ FleetTypeOK /\ KeyTypeOK
=============================================================================
