---------------------------- MODULE CacheProofs ----------------------------
(***************************************************************************)
(* What the operations of the query cache do to an entry: the lemmas the   *)
(* proofs about the pages rest on.                                         *)
(***************************************************************************)
EXTENDS Integers, QueryCache, TLAPS

LEMMA EntryParts ==
    ASSUME NEW Data, NEW q \in Entry(Data)
    PROVE  /\ q.data \in Data \cup {NoData} /\ q.answer \in Data \cup {NoData}
           /\ q.fetch \in {"idle", "asked", "answered", "failed"}
BY DEF Entry

LEMMA EmptyParts ==
    ASSUME NEW Data
    PROVE  Empty \in Entry(Data) /\ Empty.data = NoData /\ Empty.fetch = "idle"
BY DEF Empty, Entry

LEMMA FirstAsked ==
    ASSUME NEW Data
    PROVE  /\ [Empty EXCEPT !.fetch = "asked"] \in Entry(Data)
           /\ [Empty EXCEPT !.fetch = "asked"].data = NoData
           /\ [Empty EXCEPT !.fetch = "asked"].fetch = "asked"
BY DEF Empty, Entry

LEMMA AskedEntry ==
    ASSUME NEW Data, NEW q \in Entry(Data)
    PROVE  /\ Ask(q) \in Entry(Data) /\ Ask(q).data = q.data /\ Ask(q).answer = q.answer
           /\ Ask(q).fetch = IF AtRest(q) THEN "asked" ELSE q.fetch
BY DEF Ask, Entry

LEMMA AnsweredEntry ==
    ASSUME NEW Data, NEW q \in Entry(Data), NEW value \in Data
    PROVE  /\ Answer(q, value) \in Entry(Data) /\ Answer(q, value).data = q.data
           /\ Answer(q, value).answer = value /\ Answer(q, value).fetch = "answered"
BY DEF Answer, Entry

LEMMA DeliveredEntry ==
    ASSUME NEW Data, NEW q \in Entry(Data)
    PROVE  /\ Deliver(q) \in Entry(Data) /\ Deliver(q).data = q.answer
           /\ Deliver(q).fetch = "idle"
BY DEF Deliver, Entry

LEMMA FailedEntry ==
    ASSUME NEW Data, NEW q \in Entry(Data)
    PROVE  /\ Fail(q) \in Entry(Data) /\ Fail(q).data = q.data
           /\ Fail(q).fetch = "failed"
BY DEF Fail, Entry

LEMMA InvalidatedEntry ==
    ASSUME NEW Data, NEW q \in Entry(Data), NEW mounted \in BOOLEAN
    PROVE  /\ Invalidate(q, mounted) \in Entry(Data)
           /\ Invalidate(q, mounted).data = q.data
           /\ mounted /\ (q.data # NoData \/ AtRest(q)) => Invalidate(q, mounted).fetch = "asked"
           /\ Invalidate(q, mounted) = q \/ Invalidate(q, mounted).fetch = "asked"
<1>1. CASE ~mounted \/ Joins(q)
  BY <1>1 DEF Invalidate, Joins
<1>2. CASE ~(~mounted \/ Joins(q))
  <2>1. Invalidate(q, mounted) = [data |-> q.data, answer |-> NoData, fetch |-> "asked"]
    BY <1>2 DEF Invalidate
  <2> QED
    BY <2>1 DEF Entry
<1> QED
  BY <1>1, <1>2

-----------------------------------------------------------------------------
(* Copies of rows that count their writes. *)

\* The version a copy was read at.
Version(data) == IF data = NoData THEN -1 ELSE data.rev

\* What was read for the fetch in flight, of one statement or of both, is not older
\* than the data, nor are they newer than the row.
EntryInOrder(q, n) ==
    /\ Version(q.data) <= n
    /\ q.answer # NoData => Version(q.data) <= q.answer.rev /\ q.answer.rev <= n
    /\ q.fetch = "answered" => q.answer # NoData
    /\ AtRest(q) => q.answer = NoData

Versioned(Data) == NoData \notin Data /\ \A d \in Data : d.rev \in Nat

LEMMA Versions ==
    ASSUME NEW Data, Versioned(Data), NEW d \in Data \cup {NoData}
    PROVE  Version(d) \in Int /\ Version(d) >= -1 /\ (d # NoData => Version(d) = d.rev)
BY DEF Versioned, Version

LEMMA EmptyEntry ==
    ASSUME NEW Data
    PROVE  Empty \in Entry(Data) /\ EntryInOrder(Empty, 0) /\ Version(Empty.data) = -1
BY DEF Empty, Entry, EntryInOrder, Version, AtRest

LEMMA AskEntry ==
    ASSUME NEW Data, NEW q \in Entry(Data), NEW n \in Nat, EntryInOrder(q, n)
    PROVE  Ask(q) \in Entry(Data) /\ EntryInOrder(Ask(q), n) /\ Ask(q).data = q.data
<1>1. CASE AtRest(q)
  <2>1. Ask(q) = [q EXCEPT !.fetch = "asked"]
    BY <1>1 DEF Ask
  <2> QED
    BY <1>1, <2>1 DEF Entry, EntryInOrder, AtRest
<1>2. CASE ~AtRest(q)
  BY <1>2 DEF Ask
<1> QED
  BY <1>1, <1>2

LEMMA ReadFirstEntry ==
    ASSUME NEW Data, Versioned(Data), NEW q \in Entry(Data), NEW n \in Nat, EntryInOrder(q, n),
           q.fetch = "asked", NEW row \in Data, row.rev = n
    PROVE  /\ ReadFirst(q, row) \in Entry(Data) /\ EntryInOrder(ReadFirst(q, row), n)
           /\ ReadFirst(q, row).data = q.data
<1>1. /\ ReadFirst(q, row).data = q.data /\ ReadFirst(q, row).answer = row
      /\ ReadFirst(q, row).fetch = "asked" /\ ReadFirst(q, row) \in Entry(Data)
  BY DEF ReadFirst, Entry
<1> QED
  BY <1>1 DEF EntryInOrder, AtRest

LEMMA AnswerEntry ==
    ASSUME NEW Data, Versioned(Data), NEW q \in Entry(Data), NEW n \in Nat, EntryInOrder(q, n),
           NEW row \in Data, row.rev \in Version(q.data) .. n
    PROVE  /\ Answer(q, row) \in Entry(Data) /\ EntryInOrder(Answer(q, row), n)
           /\ Answer(q, row).data = q.data
<1>1. Answer(q, row) = [data |-> q.data, answer |-> row, fetch |-> "answered"]
  BY DEF Answer
<1>2. row # NoData
  BY DEF Versioned
<1>3. Answer(q, row) \in Entry(Data)
  BY <1>1 DEF Entry
<1>4. Version(q.data) \in Int /\ row.rev \in Int
  BY Versions DEF Entry, Versioned
<1> QED
  BY <1>1, <1>2, <1>3, <1>4 DEF EntryInOrder, AtRest

LEMMA DeliverEntry ==
    ASSUME NEW Data, Versioned(Data), NEW q \in Entry(Data), NEW n \in Nat, EntryInOrder(q, n),
           q.fetch = "answered"
    PROVE  /\ Deliver(q) \in Entry(Data) /\ EntryInOrder(Deliver(q), n)
           /\ Version(Deliver(q).data) \in Version(q.data) .. n
           /\ q.answer \in Data
<1>1. q.answer \in Data /\ q.data \in Data \cup {NoData}
  BY DEF Entry, EntryInOrder
<1>2. Version(q.answer) = q.answer.rev /\ q.answer.rev \in Nat /\ Version(q.data) \in Int
  BY <1>1, Versions DEF Versioned, EntryInOrder
<1>3. Deliver(q) = [data |-> q.answer, answer |-> NoData, fetch |-> "idle"]
  BY DEF Deliver
<1>4. Version(Deliver(q).data) = q.answer.rev /\ Deliver(q) \in Entry(Data)
  BY <1>1, <1>2, <1>3 DEF Entry
<1> QED
  BY <1>1, <1>2, <1>3, <1>4 DEF EntryInOrder, AtRest

LEMMA FailEntry ==
    ASSUME NEW Data, NEW q \in Entry(Data), NEW n \in Nat, EntryInOrder(q, n)
    PROVE  Fail(q) \in Entry(Data) /\ EntryInOrder(Fail(q), n) /\ Fail(q).data = q.data
<1>1. Fail(q) = [data |-> q.data, answer |-> NoData, fetch |-> "failed"]
  BY DEF Fail
<1> QED
  BY <1>1 DEF Entry, EntryInOrder

LEMMA InvalidateEntry ==
    ASSUME NEW Data, NEW q \in Entry(Data), NEW n \in Nat, EntryInOrder(q, n),
           NEW mounted \in BOOLEAN
    PROVE  /\ Invalidate(q, mounted) \in Entry(Data)
           /\ EntryInOrder(Invalidate(q, mounted), n)
           /\ Invalidate(q, mounted).data = q.data
<1>1. CASE Invalidate(q, mounted) = q
  BY <1>1
<1>2. CASE Invalidate(q, mounted) = [data |-> q.data, answer |-> NoData, fetch |-> "asked"]
  BY <1>2 DEF Entry, EntryInOrder, AtRest
<1> QED
  BY <1>1, <1>2 DEF Invalidate

\* A write makes no copy newer than the row.
LEMMA LaterEntry ==
    ASSUME NEW Data, Versioned(Data), NEW q \in Entry(Data), NEW n \in Nat, EntryInOrder(q, n)
    PROVE  EntryInOrder(q, n + 1)
<1>1. Version(q.data) \in Int /\ (q.answer # NoData => q.answer.rev \in Nat)
  BY Versions DEF Entry, Versioned
<1> QED
  BY <1>1 DEF EntryInOrder
=============================================================================
