-------------------------- MODULE MCAlertLifecycle --------------------------
(* Instances of AlertLifecycle for TLC: one metric that may be missing. *)
EXTENDS AlertLifecycle, TLC

Rising(t, severity, active) ==
    [metric |-> "temp", condition |-> ">", threshold |-> t, severity |-> severity,
     active |-> active]
Equal(t, severity, active) ==
    [Rising(t, severity, active) EXCEPT !.condition = "=="]

\* A rule that is switched on and off, and one that is also edited.
Switched == {Rising(0, "info", a) : a \in BOOLEAN}
Edited   == Switched \cup {Equal(0, "critical", a) : a \in BOOLEAN}

\* A low and a high reading, and one without the metric.
Reads == {[m \in {"temp"} |-> v] : v \in {0, 1}} \cup {[m \in {} |-> 0]}

Symmetry == Permutations(Poller)

=============================================================================
