----------------------------- MODULE QueryCache -----------------------------
(***************************************************************************)
(* One entry of the browser's query cache, as the hooks of                 *)
(* frontend/src/lib/hooks.ts use it.  The cache itself is react-query's;   *)
(* this is what the pages can tell of it:                                  *)
(*                                                                         *)
(*  - a fetch is asked, then answered from the tables as they are at that  *)
(*    moment, then delivered: other requests may be served in between,     *)
(*    also between two statements of the handler that answers;             *)
(*  - a fetch may fail: fetchJSON throws at any status but 2xx, apiFetch   *)
(*    when the request or the reply is lost.  After three repetitions the  *)
(*    entry rests with an error and the data it had;                       *)
(*  - a fetch of an entry that is being fetched joins the one in flight;   *)
(*  - an invalidation drops the answer in flight and asks again, but only  *)
(*    for an entry that a mounted component uses and that has data.  Who   *)
(*    waits for it goes on when that fetch is over, delivered or failed;   *)
(*  - an answer that says what the entry holds leaves it as it is, so that *)
(*    an effect that depends on the data does not run again.               *)
(*                                                                         *)
(* Every mount asks again: no hook sets a stale time.  The repetitions,    *)
(* and replies lost on the way, are a longer stay in "asked": what the     *)
(* server read for them nobody sees.                                       *)
(***************************************************************************)
CONSTANT NoData   \* "undefined": nothing was delivered yet

Entry(Data) == [data : Data \cup {NoData}, answer : Data \cup {NoData},
                fetch : {"idle", "asked", "answered", "failed"}]

Empty == [data |-> NoData, answer |-> NoData, fetch |-> "idle"]

\* Nothing is on its way: the last fetch arrived, or there was none, or it failed.
AtRest(q) == q.fetch \in {"idle", "failed"}

Ask(q) == IF AtRest(q) THEN [q EXCEPT !.fetch = "asked"] ELSE q

\* The first of the two statements of a handler, while the fetch stays asked.
ReadFirst(q, part) == [q EXCEPT !.answer = part]

Answer(q, value) == [data |-> q.data, answer |-> value, fetch |-> "answered"]

Deliver(q) == [data |-> q.answer, answer |-> NoData, fetch |-> "idle"]

Fail(q) == [data |-> q.data, answer |-> NoData, fetch |-> "failed"]

\* What is asked for now, be it by an invalidation, gets the answer of an earlier fetch.
Joins(q) == q.data = NoData /\ ~AtRest(q)

Invalidate(q, mounted) ==
    IF ~mounted \/ Joins(q) THEN q
    ELSE [data |-> q.data, answer |-> NoData, fetch |-> "asked"]
=============================================================================
