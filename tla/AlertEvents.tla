---------------------------- MODULE AlertEvents ----------------------------
(***************************************************************************)
(* AlertsPage: the events of one site as filters and page let them         *)
(* through, the acknowledgements it sends, the cached answers and the      *)
(* table alert_events, which workers write too.                            *)
(*                                                                         *)
(* The cache keeps an answer for each combination of site, filters, order  *)
(* and page that was looked at.  A late answer is of the combination it    *)
(* was asked for, also when the page has moved on by then.                 *)
(***************************************************************************)
EXTENDS Integers, FiniteSets, QueryCache

CONSTANTS
    Event,          \* events, numbered in the order in which they were triggered
    Info,           \* the events of info rules
    PageSize,       \* 20
    Filter,         \* what the page may be narrowed to
    Reporter,       \* users who acknowledge
    Open, Resolved, Absent,  \* what an event is, unless somebody acknowledged it
    MaxEventWrites  \* bound: writes to the table

ASSUME EventConstants ==
    /\ Event \subseteq Nat /\ IsFiniteSet(Event)
    /\ Info \subseteq Event
    /\ Filter \subseteq {"all", "info", "open"}
    /\ "all" \in Filter
    /\ PageSize \in Nat \ {0}
    /\ MaxEventWrites \in Nat

VARIABLES
    events,      \* the table: Open, Resolved, Absent or who acknowledged it
    eventWrites, \* how often it was written
    view,        \* the filter and the page
    answers,     \* the cache entries ['alert-events', site, params]
    ackOne,      \* the acknowledgement of one event in flight
    ackInfo,     \* that of all info events of a site
    ackShown     \* history: "call" when the last write was one of those, "shown"
                 \* when the page has the reply

eventVars == <<events, eventWrites, view, answers, ackOne, ackInfo, ackShown>>

\* The choices of site, severity, status, line, machine and order; "info" stands
\* for what an event keeps, "open" for what it may lose.
Lets(filter, e, state) ==
    CASE filter = "info" -> e \in Info
      [] filter = "open" -> state = Open
      [] OTHER           -> TRUE

LastPage == (Cardinality(Event) - 1) \div PageSize
View == [filter : Filter, page : 0 .. LastPage]
State == {Open, Resolved, Absent} \cup Reporter
Listing == [rows : [Event -> State], total : 0 .. Cardinality(Event)]

NoAck == [stage |-> "none"]

EventInit ==
    /\ events \in [Event -> {Absent, Open}]
    /\ eventWrites = 0
    /\ view \in {v \in View : v.filter = "all" /\ v.page = 0}
    /\ answers = [v \in View |-> IF v = view THEN [Empty EXCEPT !.fetch = "asked"] ELSE Empty]
    /\ ackOne = NoAck
    /\ ackInfo = NoAck
    /\ ackShown = "others"

\* queryKey: everything the answer depends on.  (Its mutant leaves the filter out.)
KeyOfPage(v) == [v EXCEPT !.filter = "all"]
KeyOf(v) == v
Current == answers[KeyOf(view)]
RowsShown == IF Current.data = NoData THEN {}
             ELSE {e \in Event : Current.data.rows[e] # Absent}

-----------------------------------------------------------------------------
(* The page. *)

\* The entry is asked for, also when it has data.  If a fetch of it is in flight,
\* from before, it is that one whose answer is shown.  Entries nobody looks at are
\* collected after a while: here, all but the one that was looked at until now.
Kept(v) == [k \in View |-> IF k \in {KeyOf(v), KeyOf(view)} THEN answers[k] ELSE Empty]

Look(v) ==
    /\ v # view
    /\ view' = v
    /\ answers' = [Kept(v) EXCEPT ![KeyOf(v)] = Ask(@)]
    /\ ackShown' = IF AtRest(answers[KeyOf(v)]) THEN ackShown ELSE "others"
    /\ UNCHANGED <<events, eventWrites, ackOne, ackInfo>>

ChooseFilter(f) == Look([view EXCEPT !.filter = f, !.page = 0])

\* The banner clears the filter by line, TopNav changes the site: the page stays.
ClearFilter(f) == Look([view EXCEPT !.filter = f])

TotalPages == IF Current.data = NoData \/ Current.data.total = 0 THEN 1
              ELSE (Current.data.total + PageSize - 1) \div PageSize

\* The buttons are there while there is more than one page.
Turn(to) ==
    /\ TotalPages > 1
    /\ to \in {view.page - 1, view.page + 1}
    /\ to >= 0
    /\ to > view.page => view.page < TotalPages - 1
    /\ Look([view EXCEPT !.page = to])

CallsOnly == UNCHANGED <<events, eventWrites, view, answers, ackShown>>

\* The button is there for rows that are open.
Acknowledge(e, user) ==
    /\ ackOne = NoAck
    /\ e \in RowsShown
    /\ Current.data.rows[e] = Open
    /\ ackOne' = [stage |-> "sent", event |-> e, user |-> user]
    /\ CallsOnly /\ UNCHANGED ackInfo

\* There for any open info row of this page; the request is for the whole site.
AcknowledgeAllInfo(user) ==
    /\ ackInfo = NoAck
    /\ \E e \in RowsShown \cap Info : Current.data.rows[e] = Open
    /\ ackInfo' = [stage |-> "sent", user |-> user]
    /\ CallsOnly /\ UNCHANGED ackOne

-----------------------------------------------------------------------------
(* The server, and the workers. *)

WriteEvents(new, by) ==
    /\ eventWrites < MaxEventWrites
    /\ eventWrites' = eventWrites + 1
    /\ events' = new
    /\ ackShown' = by
    /\ UNCHANGED <<view, answers>>

\* AcknowledgeAlertEvent asks for no state.  Of a resolved event one sees only
\* that it is resolved.
ApplyAck ==
    /\ ackOne.stage = "sent"
    /\ WriteEvents([events EXCEPT ![ackOne.event] =
                        IF @ \in {Resolved, Absent} THEN @ ELSE ackOne.user], "call")
    /\ ackOne' = [stage |-> "done"]
    /\ UNCHANGED ackInfo

\* 403 or 500; the page takes the reply for a success.
RefuseAck ==
    /\ ackOne.stage = "sent"
    /\ ackOne' = [stage |-> "done"]
    /\ CallsOnly /\ UNCHANGED ackInfo

Swept(user) == [e \in Event |-> IF e \in Info /\ events[e] = Open THEN user ELSE events[e]]

ApplyAckInfo ==
    /\ ackInfo.stage = "sent"
    /\ WriteEvents(Swept(ackInfo.user), "call")
    /\ ackInfo' = [stage |-> "done"]
    /\ UNCHANGED ackOne

\* A worker triggers an event, or resolves one; another user acknowledges one.
OthersWrite(e, state) ==
    /\ \/ events[e] = Absent /\ state = Open
       \/ events[e] \notin {Absent, Resolved} /\ state = Resolved
       \/ events[e] = Open /\ state \in Reporter
    /\ WriteEvents([events EXCEPT ![e] = state], "others")
    /\ UNCHANGED <<ackOne, ackInfo>>

-----------------------------------------------------------------------------
(* The replies. *)

\* refetchInterval, as the user has set it.
RefetchEvents ==
    /\ AtRest(Current)
    /\ answers' = [answers EXCEPT ![KeyOf(view)] = Ask(@)]
    /\ UNCHANGED <<events, eventWrites, view, ackOne, ackInfo, ackShown>>

\* ListAlertEvents: LIMIT and OFFSET over the rows the filter lets through.
Matching(v) == {e \in Event : events[e] # Absent /\ Lets(v.filter, e, events[e])}
Before(v, e) == {x \in Matching(v) : x > e}
OnPage(v) == {e \in Matching(v) : Cardinality(Before(v, e)) \div PageSize = v.page}

AnswerEvents(v) ==
    /\ answers[v].fetch = "asked"
    /\ answers' = [answers EXCEPT ![v] = Answer(@,
            [rows  |-> [e \in Event |-> IF e \in OnPage(v) THEN events[e] ELSE Absent],
             total |-> Cardinality(Matching(v))])]
    /\ UNCHANGED <<events, eventWrites, view, ackOne, ackInfo, ackShown>>

DeliverEvents(v) ==
    /\ answers[v].fetch = "answered"
    /\ answers' = [answers EXCEPT ![v] = Deliver(@)]
    /\ UNCHANGED <<events, eventWrites, view, ackOne, ackInfo, ackShown>>

\* Any error, or no answer: the rows stay as they were.
FailEvents(v) ==
    /\ answers[v].fetch = "asked"
    /\ answers' = [answers EXCEPT ![v] = Fail(@)]
    /\ UNCHANGED <<events, eventWrites, view, ackOne, ackInfo, ackShown>>

\* Mutant of AckReplied: the hooks forget to invalidate.
AckRepliedQuietly ==
    /\ \/ ackOne.stage = "done" /\ ackOne' = NoAck /\ UNCHANGED ackInfo
       \/ ackInfo.stage = "done" /\ ackInfo' = NoAck /\ UNCHANGED ackOne
    /\ ackShown' = IF ackShown = "call" /\ ~Joins(Current) THEN "shown" ELSE ackShown
    /\ UNCHANGED <<events, eventWrites, view, answers>>

\* Only the entry that is looked at is asked for again; every other one is when it
\* is looked at.  (The button stays disabled until the refetch is over.)
AckReplied ==
    /\ \/ ackOne.stage = "done" /\ ackOne' = NoAck /\ UNCHANGED ackInfo
       \/ ackInfo.stage = "done" /\ ackInfo' = NoAck /\ UNCHANGED ackOne
    /\ answers' = [answers EXCEPT ![KeyOf(view)] = Invalidate(@, TRUE)]
    /\ ackShown' = IF ackShown = "call" /\ ~Joins(Current) THEN "shown" ELSE ackShown
    /\ UNCHANGED <<events, eventWrites, view>>

AckFails ==
    /\ \/ ackOne # NoAck /\ ackOne' = NoAck /\ UNCHANGED ackInfo
       \/ ackInfo # NoAck /\ ackInfo' = NoAck /\ UNCHANGED ackOne
    /\ CallsOnly

EventNext ==
    \/ \E f \in Filter : ChooseFilter(f) \/ ClearFilter(f)
    \/ \E to \in 0 .. LastPage : Turn(to)
    \/ \E user \in Reporter : AcknowledgeAllInfo(user) \/ \E e \in Event : Acknowledge(e, user)
    \/ ApplyAck \/ RefuseAck \/ ApplyAckInfo \/ AckReplied \/ AckFails
    \/ \E e \in Event, state \in State : OthersWrite(e, state)
    \/ RefetchEvents
    \/ \E v \in View : AnswerEvents(v) \/ DeliverEvents(v) \/ FailEvents(v)

EventSpec == EventInit /\ [][EventNext]_eventVars

-----------------------------------------------------------------------------
(* Properties. *)

EventTypeOK ==
    /\ events \in [Event -> State]
    /\ eventWrites \in 0 .. MaxEventWrites
    /\ view \in View
    /\ answers \in [View -> Entry(Listing)]
    /\ \A ack \in {ackOne, ackInfo} : ack.stage \in {"none", "sent", "done"}
    /\ ackShown \in {"others", "call", "shown"}

\* However fast filters and page change, and in whatever order the answers arrive,
\* the rows shown are of the filter shown above them.
RowsMatchView ==
    \A e \in RowsShown : Lets(view.filter, e, Current.data.rows[e])

\* Once the page has the reply to an acknowledgement, nothing is on its way and the
\* last fetch arrived, each row it shows is as the table has it, on whatever page and
\* under whatever filter it now is: unless somebody wrote after it, or it was looked at for the
\* first time as the reply came, when the answer in flight may be an older one.
AckIsShown ==
    ackShown = "shown" /\ Current.fetch = "idle" =>
        \A e \in RowsShown : Current.data.rows[e] = events[e]
=============================================================================
