--------------------------- MODULE MCChartWidget ---------------------------
(* An instance of ChartWidget for TLC: two sources, two machines, one metric. *)
EXTENDS ChartWidget
=============================================================================
