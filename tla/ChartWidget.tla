---------------------------- MODULE ChartWidget ----------------------------
(***************************************************************************)
(* LineChartWidget: the data sources a line chart is configured with, the  *)
(* cached samples it draws, and the lines it draws them as.                *)
(*                                                                         *)
(* The samples are cached by what was measured, and with them the source   *)
(* that asked for them; the chart draws samples under the id of that one.  *)
(* A source keeps its id when it is given another machine or metric.       *)
(***************************************************************************)
EXTENDS Integers, QueryCache

CONSTANTS
    Source,     \* ids of data sources
    Sensor,     \* machines
    Quantity,   \* metrics; the time range is one more part of what is measured
    Unplotted,  \* a source that is not in the list or not complete, no samples
    MaxApplies  \* bound: changes of the configuration

ASSUME ChartConstants ==
    /\ Unplotted \notin Source
    /\ MaxApplies \in Nat

VARIABLES
    plotted,  \* config.data_sources: what each source measures
    samples,  \* the cache entries ['datapoints', machine, metric, range]
    requests, \* the request in flight: what is asked for, and by which source
    applies,
    current   \* history: the entries asked for since the configuration changed

chartVars == <<plotted, samples, requests, applies, current>>

Series  == [machine : Sensor, metric : Quantity]
Samples == [of : Series \cup {Unplotted}, by : Source]
ASSUME NoSamplesAreUndefined == \A drawn \in Samples : drawn # NoData
Plotted == {s \in Source : plotted[s] # Unplotted}

ChartInit ==
    /\ plotted = [s \in Source |-> Unplotted]
    /\ samples = [k \in Series |-> Empty]
    /\ requests = [k \in Series |-> Unplotted]
    /\ applies = 0
    /\ current = {}

\* queryKey.  (Its mutant leaves the machine out.)
MetricKey(series) == [series EXCEPT !.machine = CHOOSE d \in Sensor : TRUE]
SeriesKey(series) == series
KeyOfSource(s) == SeriesKey(plotted[s])
Observed == {KeyOfSource(s) : s \in Plotted}

-----------------------------------------------------------------------------
\* Apply of the configuration form, or another time range (a remount asks for every
\* entry: RefetchSamples).  An entry not observed until now is asked for; one that was is
\* not, also when it is another source that observes it now.
ChangeChart(new) ==
    LET now      == {s \in Source : new[s] # Unplotted}
        keys     == {SeriesKey(new[s]) : s \in now}
        asked    == {k \in keys \ Observed : AtRest(samples[k])}
    IN /\ applies < MaxApplies
       /\ applies' = applies + 1
       /\ plotted' = new
       /\ samples' = [k \in Series |-> IF k \in asked THEN Ask(samples[k]) ELSE samples[k]]
       /\ \E by \in [asked -> now] :
            /\ \A k \in asked : SeriesKey(new[by[k]]) = k
            /\ requests' = [k \in Series |-> IF k \in asked THEN [of |-> new[by[k]], by |-> by[k]]
                                            ELSE requests[k]]
       /\ current' = asked

\* refetchInterval, for one of the sources that observe the entry.
RefetchSamples(s) ==
    /\ s \in Plotted
    /\ AtRest(samples[KeyOfSource(s)])
    /\ samples' = [samples EXCEPT ![KeyOfSource(s)] = Ask(@)]
    /\ requests' = [requests EXCEPT ![KeyOfSource(s)] = [of |-> plotted[s], by |-> s]]
    /\ current' = current \cup {KeyOfSource(s)}
    /\ UNCHANGED <<plotted, applies>>

\* A reply that is refused counts as one with no samples.
AnswerSamples(k) ==
    /\ samples[k].fetch = "asked"
    /\ \E of \in {requests[k].of, Unplotted} :
        samples' = [samples EXCEPT ![k] = Answer(@, [of |-> of, by |-> requests[k].by])]
    /\ UNCHANGED <<plotted, requests, applies, current>>

DeliverSamples(k) ==
    /\ samples[k].fetch = "answered"
    /\ samples' = [samples EXCEPT ![k] = Deliver(@)]
    /\ requests' = [requests EXCEPT ![k] = Unplotted]
    /\ UNCHANGED <<plotted, applies, current>>

\* The request or its answer is lost, at every repetition.
FailSamples(k) ==
    /\ samples[k].fetch = "asked"
    /\ samples' = [samples EXCEPT ![k] = Fail(@)]
    /\ requests' = [requests EXCEPT ![k] = Unplotted]
    /\ UNCHANGED <<plotted, applies, current>>

ChartNext ==
    \/ \E new \in [Source -> Series \cup {Unplotted}] : ChangeChart(new)
    \/ \E s \in Source : RefetchSamples(s)
    \/ \E k \in Series : AnswerSamples(k) \/ DeliverSamples(k) \/ FailSamples(k)

ChartSpec == ChartInit /\ [][ChartNext]_chartVars

-----------------------------------------------------------------------------
\* mergedMap: what is drawn under the id of a source.
Drawn(s) == {samples[k].data.of : k \in
                {k \in Observed : samples[k].data # NoData /\ samples[k].data.by = s}}
            \ {Unplotted}

-----------------------------------------------------------------------------
(* Properties. *)

ChartTypeOK ==
    /\ plotted \in [Source -> Series \cup {Unplotted}]
    /\ samples \in [Series -> Entry(Samples)]
    /\ requests \in [Series -> [of : Series, by : Source] \cup {Unplotted}]
    /\ applies \in 0 .. MaxApplies
    /\ current \subseteq Series

\* Once all that is drawn was asked for after the last change and arrived, and no two
\* sources measure the same, each source's line is drawn from its own samples, or there
\* are none of them: the entries of the same metric of two machines never mix.
RefetchedChartIsRight ==
    /\ \A s \in Plotted : /\ KeyOfSource(s) \in current
                         /\ samples[KeyOfSource(s)].fetch = "idle"
    /\ \A s, t \in Plotted : s # t => plotted[s] # plotted[t]
    => \A s \in Plotted :
        \/ Drawn(s) = {plotted[s]}
        \/ Drawn(s) = {} /\ samples[KeyOfSource(s)].data.of = Unplotted

\* Keyed by the source's id, the lines of one metric of two machines do not collide
\* (the comment at LineChartWidget's mergedMap).  Refuted: a source that is given
\* another machine keeps its id, and the samples it fetched before are drawn as its
\* line as long as another source of the chart observes them.
PointsUnderTheirSource ==
    \A s \in Plotted : Drawn(s) \subseteq {plotted[s]}
=============================================================================
