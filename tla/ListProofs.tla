----------------------------- MODULE ListProofs -----------------------------
(***************************************************************************)
(* The pages that show a list and act on its rows: ApiKeys, WorkerConsole, *)
(* AlertEvents and SiteAdmin.  What the page shows once an action of its   *)
(* own is acknowledged is what the tables hold, for any number of rows,    *)
(* of writes by others and of requests in flight.                          *)
(***************************************************************************)
EXTENDS ApiKeys, WorkerConsole, AlertEvents, SiteAdmin, CacheProofs, FiniteSetTheorems

-----------------------------------------------------------------------------
(***************************************************************************)
(* ApiKeys.  A key is shown when the refetch its creation caused is over:  *)
(* until then the call in flight carries a key that no dialog has shown,   *)
(* that is not in a dialog now, and that the table has, so that an answer  *)
(* given meanwhile or later has it too.                                    *)
(***************************************************************************)

\* The data on the page are a part of the answer in flight, and of the table.
KeysInOrder ==
    /\ keysQuery.data \in KeyTable /\ keysQuery.data.made \subseteq keys.made
    /\ keysQuery.fetch = "answered" =>
          /\ keysQuery.answer \in KeyTable
          /\ keysQuery.data.made \subseteq keysQuery.answer.made
          /\ keysQuery.answer.made \subseteq keys.made

\* The key that is on its way to the dialog.
KeyOnItsWay ==
    /\ createCall.stage \in {"done", "settling"} =>
          /\ createCall.key \in keys.made
          /\ createCall.key \notin keyShown
          /\ createCall.key # keyPage.created
    /\ createCall.stage = "settling" =>
          /\ keysQuery.fetch \in {"asked", "answered"}
          /\ keysQuery.fetch = "answered" => createCall.key \in keysQuery.answer.made

\* The key in the dialog.
KeyInDialog ==
    keyPage.created # NoKey =>
        /\ keyPage.created \in keys.made
        /\ keyPage.created \notin keyShown
        /\ keysQuery.fetch = "idle" => keyPage.created \in keysQuery.data.made
        /\ keysQuery.fetch = "answered" => keyPage.created \in keysQuery.answer.made

KeyInv ==
    /\ KeyTypeOK
    /\ keys.made \subseteq 1 .. keyWrites
    /\ keyShown \subseteq keys.made
    /\ revokeCall.stage # "none" => revokeCall.key # NoKey
    /\ KeysInOrder /\ KeyOnItsWay /\ KeyInDialog

LEMMA KeyPageUpdates ==
    ASSUME NEW p \in KeyPage, NEW c \in BOOLEAN, NEW n \in BOOLEAN,
           NEW k \in ApiKey \cup {NoKey}
    PROVE  /\ [p EXCEPT !.creating = c] \in KeyPage
           /\ [p EXCEPT !.named = n] \in KeyPage
           /\ [p EXCEPT !.created = k] \in KeyPage
           /\ [p EXCEPT !.revoking = k] \in KeyPage
BY DEF KeyPage

LEMMA KeyCallTypes ==
    /\ NoKeyCall \in KeyCall
    /\ \A stage \in {"sent", "done", "settling"}, k \in ApiKey \cup {NoKey} :
          [stage |-> stage, key |-> k] \in KeyCall
    /\ \A call \in KeyCall, stage \in {"done", "settling"} :
          [call EXCEPT !.stage = stage] \in KeyCall
BY DEF NoKeyCall, KeyCall

LEMMA KeyStart == ASSUME KeyInit PROVE KeyInv
<1>1. keys \in KeyTable /\ 0 \in 0 .. MaxKeyWrites
  BY KeyConstants DEF KeyInit, KeyTable
<1>2. keysQuery = [data |-> keys, answer |-> NoData, fetch |-> "idle"]
  BY DEF KeyInit, Empty
<1>3. keysQuery \in Entry(KeyTable)
  BY <1>1, <1>2 DEF Entry
<1>4. keyPage \in KeyPage
  BY DEF KeyInit, KeyPage
<1> QED
  BY <1>1, <1>2, <1>3, <1>4, KeyCallTypes
     DEF KeyInit, KeyInv, KeyTypeOK, KeysInOrder, KeyOnItsWay, KeyInDialog, NoKeyCall

\* The dialogs and the requests: neither the table nor the cache entry change.
LEMMA KeyPageSteps ==
    ASSUME KeyInv,
           \/ OpenCreate \/ TypeName \/ CreateKey \/ CloseCreate
           \/ \E k \in ApiKey : AskRevoke(k)
           \/ CancelRevoke \/ RevokeKey \/ KeyCallFails \/ UNCHANGED keyVars
    PROVE  KeyInv'
<1>1. UNCHANGED <<keys, keyWrites, keysQuery>>
  BY DEF OpenCreate, TypeName, CreateKey, CloseCreate, AskRevoke, CancelRevoke, RevokeKey,
         KeyCallFails, KeyPageOnly, keyVars
<1>2. /\ keyPage \in KeyPage /\ createCall \in KeyCall /\ revokeCall \in KeyCall
      /\ keyShown \subseteq ApiKey
  BY DEF KeyInv, KeyTypeOK
<1>3. /\ keyPage.created \in ApiKey \cup {NoKey} /\ keyPage.revoking \in ApiKey \cup {NoKey}
      /\ NoKey \in ApiKey \cup {NoKey} /\ TRUE \in BOOLEAN /\ FALSE \in BOOLEAN
  BY <1>2 DEF KeyPage
<1>4. CASE CloseCreate
  <2>1. /\ keyPage' = [keyPage EXCEPT !.creating = FALSE, !.created = NoKey, !.named = FALSE]
        /\ keyShown' = keyShown \cup ({keyPage.created} \ {NoKey})
        /\ UNCHANGED <<createCall, revokeCall>>
    BY <1>4 DEF CloseCreate, ClosedCreate, KeyPageOnly
  <2>2. keyPage' \in KeyPage /\ keyPage'.created = NoKey
    BY <1>2, <2>1 DEF KeyPage
  <2>3. keyPage.created # NoKey => keyPage.created \in keys.made
    BY DEF KeyInv, KeyInDialog
  <2>4. createCall.stage \in {"done", "settling"} => createCall.key # NoKey
    BY KeyConstants DEF KeyInv, KeyOnItsWay, KeyTypeOK, KeyTable
  <2>5. KeyOnItsWay'
    BY <1>1, <2>1, <2>2, <2>4 DEF KeyInv, KeyOnItsWay
  <2>6. keyShown' \subseteq keys.made /\ keyShown' \subseteq ApiKey
    BY <1>2, <1>3, <2>1, <2>3 DEF KeyInv
  <2>7. KeysInOrder' /\ KeyInDialog'
    BY <1>1, <2>2 DEF KeyInv, KeysInOrder, KeyInDialog
  <2> QED
    BY <1>1, <2>1, <2>2, <2>5, <2>6, <2>7 DEF KeyInv, KeyTypeOK
<1>5. CASE ~CloseCreate
  <2>1. keyShown' = keyShown
    BY <1>5 DEF OpenCreate, TypeName, CreateKey, AskRevoke, CancelRevoke, RevokeKey,
         KeyCallFails, KeyPageOnly, keyVars
  <2>2. keyPage' \in KeyPage /\ keyPage'.created = keyPage.created
    <3>1. \/ keyPage' = keyPage
          \/ keyPage' = [keyPage EXCEPT !.creating = TRUE]
          \/ keyPage' = [keyPage EXCEPT !.named = TRUE]
          \/ \E k \in ApiKey \cup {NoKey} : keyPage' = [keyPage EXCEPT !.revoking = k]
      BY <1>5 DEF OpenCreate, TypeName, CreateKey, AskRevoke, CancelRevoke, RevokeKey,
           KeyCallFails, KeyPageOnly, keyVars
    <3> QED
      BY <1>2, <3>1 DEF KeyPage
  <2>3. /\ createCall' \in KeyCall /\ revokeCall' \in KeyCall
        /\ createCall' = createCall \/ createCall'.stage \in {"none", "sent"}
        /\ \/ revokeCall' = revokeCall \/ revokeCall'.stage = "none"
           \/ revokeCall'.key # NoKey
    BY <1>2, <1>3, <1>5, KeyCallTypes
       DEF OpenCreate, TypeName, CreateKey, AskRevoke, CancelRevoke, RevokeKey,
           KeyCallFails, KeyPageOnly, keyVars, NoKeyCall
  <2> QED
    BY <1>1, <1>2, <2>1, <2>2, <2>3
       DEF KeyInv, KeyTypeOK, KeysInOrder, KeyOnItsWay, KeyInDialog
<1> QED
  BY <1>4, <1>5

\* Writes to the table: it grows, and the key that is made is a new one.
LEMMA KeyWritten ==
    ASSUME KeyInv, NEW new, WriteKeys(new),
           \/ new = WithKey
           \/ \E k \in ApiKey : new = [keys EXCEPT !.revoked = @ \cup {k}]
    PROVE  /\ keys' \in KeyTable /\ keyWrites' \in 0 .. MaxKeyWrites
           /\ keyWrites' = keyWrites + 1
           /\ keys'.made \subseteq 1 .. keyWrites'
           /\ keys.made \subseteq keys'.made
           /\ NextKey \in ApiKey /\ NextKey \notin keys.made
           /\ new = WithKey => NextKey \in keys'.made
<1>1. keys \in KeyTable /\ keyWrites \in Nat /\ keys.made \subseteq 1 .. keyWrites
  BY KeyConstants DEF KeyInv, KeyTypeOK
<1>2. /\ keyWrites < MaxKeyWrites /\ keyWrites' = keyWrites + 1 /\ keys' = new
      /\ MaxKeyWrites \in Nat /\ ApiKey = 1 .. MaxKeyWrites
  BY KeyConstants DEF WriteKeys
<1>3. NextKey \in ApiKey /\ NextKey \notin keys.made
  BY <1>1, <1>2 DEF NextKey
<1>4. CASE new = WithKey
  <2>1. new = [made |-> keys.made \cup {NextKey}, revoked |-> keys.revoked]
    BY <1>1, <1>4 DEF WithKey, KeyTable
  <2> QED
    BY <1>1, <1>2, <1>3, <2>1 DEF KeyTable, NextKey
<1>5. ASSUME NEW k \in ApiKey, new = [keys EXCEPT !.revoked = @ \cup {k}],
             new # WithKey
      PROVE  /\ keys' \in KeyTable /\ keys'.made = keys.made
  BY <1>1, <1>2, <1>5 DEF KeyTable
<1> QED
  BY <1>1, <1>2, <1>3, <1>4, <1>5

LEMMA KeyWriteSteps ==
    ASSUME KeyInv,
           \/ ApplyCreateKey \/ ApplyRevoke \/ \E new \in KeyTable : OthersWriteKeys(new)
    PROVE  KeyInv'
<1>1. /\ createCall \in KeyCall /\ revokeCall \in KeyCall /\ keys \in KeyTable
      /\ keyPage \in KeyPage
  BY DEF KeyInv, KeyTypeOK
<1>2. PICK new : /\ WriteKeys(new)
                 /\ \/ new = WithKey
                    \/ \E k \in ApiKey : new = [keys EXCEPT !.revoked = @ \cup {k}]
                 /\ ApplyCreateKey => new = WithKey
  <2>1. CASE ApplyCreateKey
    BY <2>1 DEF ApplyCreateKey
  <2>2. CASE ApplyRevoke /\ ~ApplyCreateKey
    <3>1. revokeCall.key \in ApiKey
      BY <1>1, <2>2 DEF KeyInv, ApplyRevoke, KeyCall
    <3> QED
      BY <2>2, <3>1 DEF ApplyRevoke
  <2>3. CASE (\E n \in KeyTable : OthersWriteKeys(n)) /\ ~ApplyCreateKey
    BY <1>1, <2>3 DEF OthersWriteKeys, KeyTable
  <2> QED
    BY <2>1, <2>2, <2>3
<1>3. /\ keys' \in KeyTable /\ keyWrites' \in 0 .. MaxKeyWrites
      /\ keyWrites' = keyWrites + 1
      /\ keys'.made \subseteq 1 .. keyWrites'
      /\ keys.made \subseteq keys'.made
      /\ NextKey \in ApiKey /\ NextKey \notin keys.made
      /\ ApplyCreateKey => NextKey \in keys'.made
  BY <1>2, KeyWritten
<1>4. UNCHANGED <<keysQuery, keyPage, keyShown>>
  BY <1>2 DEF WriteKeys
<1>5. /\ revokeCall' \in KeyCall
      /\ revokeCall'.stage # "none" => revokeCall'.key # NoKey
  <2>1. CASE ApplyRevoke
    BY <1>1, <2>1, KeyCallTypes DEF ApplyRevoke, KeyInv, KeyCall
  <2>2. CASE ~ApplyRevoke
    BY <1>1, <2>2 DEF ApplyCreateKey, OthersWriteKeys, KeyInv
  <2> QED
    BY <2>1, <2>2
<1>6. createCall' \in KeyCall /\ KeyOnItsWay'
  <2>1. CASE ApplyCreateKey
    <3>1. createCall' = [stage |-> "done", key |-> NextKey]
      BY <2>1 DEF ApplyCreateKey
    <3>2. NextKey \notin keyShown /\ NextKey # keyPage.created
      BY <1>3, KeyConstants DEF KeyInv, KeyInDialog
    <3> QED
      BY <1>3, <1>4, <2>1, <3>1, <3>2, KeyCallTypes DEF KeyOnItsWay
  <2>2. CASE ~ApplyCreateKey
    <3>1. createCall' = createCall
      BY <2>2 DEF ApplyRevoke, OthersWriteKeys
    <3> QED
      BY <1>1, <1>3, <1>4, <3>1 DEF KeyInv, KeyOnItsWay
  <2> QED
    BY <2>1, <2>2
<1> QED
  BY <1>3, <1>4, <1>5, <1>6 DEF KeyInv, KeyTypeOK, KeysInOrder, KeyInDialog

\* The fetches and the replies that ask for one.
LEMMA KeyFetchSteps ==
    ASSUME KeyInv, RefetchKeys \/ AnswerKeys \/ KeyCreated \/ RevokeReplied
    PROVE  KeyInv'
<1>1. /\ createCall \in KeyCall /\ revokeCall \in KeyCall /\ keys \in KeyTable
      /\ keysQuery \in Entry(KeyTable) /\ keysQuery.data # NoData
  BY NoKeysAreUndefined DEF KeyInv, KeyTypeOK, KeysInOrder
<1>2. UNCHANGED <<keys, keyWrites, keyPage, keyShown>>
  BY DEF RefetchKeys, AnswerKeys, KeyCreated, RevokeReplied
<1>3. /\ createCall' \in KeyCall /\ revokeCall' \in KeyCall
      /\ revokeCall'.stage # "none" => revokeCall'.key # NoKey
      /\ createCall'.key = createCall.key
  BY <1>1, KeyCallTypes
     DEF RefetchKeys, AnswerKeys, KeyCreated, RevokeReplied, KeyInv, KeyCall
<1>4. /\ keysQuery' \in Entry(KeyTable) /\ keysQuery'.data = keysQuery.data
      /\ \/ keysQuery'.fetch = "asked"
         \/ keysQuery'.fetch = "answered" /\ keysQuery'.answer = keys
  <2>1. CASE RefetchKeys
    BY <1>1, <2>1, AskedEntry DEF RefetchKeys
  <2>2. CASE AnswerKeys
    BY <1>1, <2>2, AnsweredEntry DEF AnswerKeys
  <2>3. CASE KeyCreated \/ RevokeReplied
    <3>1. keysQuery' = Invalidate(keysQuery, TRUE)
      BY <2>3 DEF KeyCreated, RevokeReplied
    <3> QED
      BY <1>1, <3>1, InvalidatedEntry
  <2> QED
    BY <2>1, <2>2, <2>3
<1>5. KeyOnItsWay'
  <2>1. CASE createCall' = createCall
    BY <1>2, <1>4, <2>1 DEF KeyInv, KeyOnItsWay
  <2>2. CASE KeyCreated
    BY <1>1, <1>2, <1>3, <1>4, <2>2 DEF KeyInv, KeyOnItsWay, KeyCreated
  <2> QED
    BY <2>1, <2>2 DEF RefetchKeys, AnswerKeys, RevokeReplied
<1> QED
  BY <1>1, <1>2, <1>3, <1>4, <1>5 DEF KeyInv, KeyTypeOK, KeysInOrder, KeyInDialog

\* A refetch is over, also if it failed: the key that was waiting for it is shown.
LEMMA KeySettledStep ==
    ASSUME KeyInv, DeliverKeys \/ FailKeys
    PROVE  KeyInv'
<1>1. /\ createCall \in KeyCall /\ revokeCall \in KeyCall /\ keys \in KeyTable
      /\ keysQuery \in Entry(KeyTable) /\ keyPage \in KeyPage
  BY DEF KeyInv, KeyTypeOK
<1>2. UNCHANGED <<keys, keyWrites, keyShown>>
  BY DEF DeliverKeys, FailKeys, KeysSettled
<1>3. /\ keysQuery' \in Entry(KeyTable)
      /\ \/ /\ keysQuery.fetch = "answered" /\ keysQuery'.fetch = "idle"
            /\ keysQuery'.data = keysQuery.answer
         \/ keysQuery'.fetch = "failed" /\ keysQuery'.data = keysQuery.data
  BY <1>1, DeliveredEntry, FailedEntry DEF DeliverKeys, FailKeys
<1>4. /\ createCall' = IF createCall.stage = "settling" THEN NoKeyCall ELSE createCall
      /\ revokeCall' = IF revokeCall.stage = "settling" THEN NoKeyCall ELSE revokeCall
  BY DEF DeliverKeys, FailKeys, KeysSettled
<1>5. /\ createCall' \in KeyCall /\ revokeCall' \in KeyCall
      /\ revokeCall'.stage # "none" => revokeCall'.key # NoKey
  BY <1>1, <1>4, KeyCallTypes DEF KeyInv, NoKeyCall
<1> DEFINE created  == IF createCall.stage = "settling" THEN createCall.key ELSE keyPage.created
           revoking == IF revokeCall.stage = "settling" THEN NoKey ELSE keyPage.revoking
           named    == keyPage.named /\ createCall.stage # "settling"
<1>6. /\ created \in ApiKey \cup {NoKey} /\ revoking \in ApiKey \cup {NoKey}
      /\ named \in BOOLEAN
  BY <1>1 DEF KeyPage, KeyCall
<1>7. keyPage' = [keyPage EXCEPT !.created = created, !.named = named, !.revoking = revoking]
  BY DEF DeliverKeys, FailKeys, KeysSettled
<1>8. keyPage' \in KeyPage /\ keyPage'.created = created
  <2> HIDE DEF created, revoking, named
  <2>1. [keyPage EXCEPT !.created = created] \in KeyPage
    BY <1>1, <1>6, KeyPageUpdates, Zenon
  <2>2. [keyPage EXCEPT !.created = created, !.named = named] \in KeyPage
    BY <1>6, <2>1, KeyPageUpdates, Zenon
  <2>3. keyPage' \in KeyPage
    BY <1>6, <1>7, <2>2, KeyPageUpdates, Zenon
  <2> QED
    BY <1>1, <1>7, <2>3 DEF KeyPage
<1>9. KeysInOrder'
  BY <1>2, <1>3 DEF KeyInv, KeysInOrder
<1>10. KeyOnItsWay' /\ KeyInDialog'
  <2>1. CASE createCall.stage = "settling"
    <3>1. /\ createCall.key \in keys.made /\ createCall.key \notin keyShown
          /\ keysQuery.fetch = "answered" => createCall.key \in keysQuery.answer.made
          /\ keyPage'.created = createCall.key /\ createCall'.stage = "none"
      BY <1>4, <1>8, <2>1 DEF KeyInv, KeyOnItsWay, NoKeyCall
    <3> QED
      BY <1>2, <1>3, <3>1 DEF KeyOnItsWay, KeyInDialog
  <2>2. CASE createCall.stage # "settling"
    <3>1. createCall' = createCall /\ keyPage'.created = keyPage.created
      BY <1>4, <1>8, <2>2
    <3> QED
      BY <1>2, <1>3, <2>2, <3>1
         DEF KeyInv, KeyOnItsWay, KeyInDialog
  <2> QED
    BY <2>1, <2>2
<1> QED
  BY <1>2, <1>3, <1>5, <1>8, <1>9, <1>10 DEF KeyInv, KeyTypeOK

LEMMA KeySteps == KeyInv /\ [KeyNext]_keyVars => KeyInv'
BY KeyPageSteps, KeyWriteSteps, KeyFetchSteps, KeySettledStep DEF KeyNext

\* A key that a dialog was closed on is never shown again, whatever replies come late
\* and whichever fetches fail, and the list behind the dialog that shows a key has it
\* once the last fetch arrived.
THEOREM KeysAreShownOnce == KeySpec => []KeyIsShownOnce
<1>1. KeyInit => KeyInv
  BY KeyStart
<1>2. KeyInv => KeyIsShownOnce
  BY DEF KeyInv, KeyInDialog, KeyIsShownOnce
<1> QED
  BY <1>1, <1>2, KeySteps, PTL DEF KeySpec

-----------------------------------------------------------------------------
(***************************************************************************)
(* WorkerConsole.  From the reply to the last write until the next one,    *)
(* the detail of its worker, when its row is expanded, is being asked for, *)
(* has an answer with the command in flight, shows it, or could not get    *)
(* it: a row that is expanded meanwhile asks, unless an old fetch is still *)
(* in flight.                                                              *)
(***************************************************************************)
Orders == SUBSET (Order \X (1 .. MaxFleetWrites))

DetailListed(h) ==
    \/ details[h].fetch = "asked"
    \/ details[h].fetch = "answered" /\ details[h].answer = fleet[h].orders
    \/ details[h].fetch = "idle" /\ details[h].data = fleet[h].orders
    \/ details[h].fetch = "failed"

Confirmed == [of : FleetWorker, order : Order]

FleetInv ==
    /\ FleetTypeOK
    /\ details \in [FleetWorker -> Entry(Orders)]
    /\ confirm # NoConfirm => confirm \in Confirmed
    /\ \/ orderCall = NoOrderCall
       \/ orderCall \in [stage : {"sent"}, order : Confirmed]
       \/ orderCall \in [stage : {"done"}, of : FleetWorker, at : Int]
    /\ expanded # NoFleetWorker /\ ordered = expanded => DetailListed(expanded)

LEMMA FleetStart == ASSUME FleetInit PROVE FleetInv
<1>1. fleet \in [FleetWorker -> FleetRow] /\ fleetWrites \in 0 .. MaxFleetWrites
  BY FleetConstants DEF FleetInit, FleetRow
<1>2. /\ fleetList \in Entry([FleetWorker -> BOOLEAN])
      /\ details \in [FleetWorker -> Entry(Orders)]
  BY EmptyParts, FirstAsked DEF FleetInit
<1>3. \A h \in FleetWorker : details[h].fetch = "idle"
  BY EmptyParts DEF FleetInit
<1> QED
  BY <1>1, <1>2, <1>3 DEF FleetInit, FleetInv, FleetTypeOK, NoConfirm, NoOrderCall

\* A step that leaves the tables and the details alone, or asks for details.
LEMMA DetailsTypes ==
    ASSUME details' \in [FleetWorker -> Entry(Orders)]
    PROVE  \A h \in FleetWorker : details'[h].fetch \in {"idle", "asked", "answered", "failed"}
BY EntryParts

LEMMA ConfirmSteps ==
    ASSUME FleetInv,
           \/ \E h \in FleetWorker, order \in Order : AskOrder(h, order)
           \/ CloseConfirm \/ ConfirmOrder \/ OrderFails \/ UNCHANGED fleetVars
    PROVE  FleetInv'
<1>1. UNCHANGED <<fleet, fleetWrites, fleetList, details, expanded, ordered>>
  BY DEF AskOrder, CloseConfirm, ConfirmOrder, OrderFails, fleetVars
<1>2. /\ confirm'.of \in FleetWorker \cup {NoFleetWorker}
      /\ confirm' # NoConfirm => confirm' \in Confirmed
  BY DEF AskOrder, CloseConfirm, ConfirmOrder, OrderFails, fleetVars, FleetInv, FleetTypeOK,
         NoConfirm, Confirmed
<1>3. /\ orderCall'.stage \in {"none", "sent", "done"}
      /\ \/ orderCall' = NoOrderCall
         \/ orderCall' \in [stage : {"sent"}, order : Confirmed]
         \/ orderCall' \in [stage : {"done"}, of : FleetWorker, at : Int]
  BY DEF AskOrder, CloseConfirm, ConfirmOrder, OrderFails, fleetVars, FleetInv, FleetTypeOK,
         NoOrderCall
<1> QED
  BY <1>1, <1>2, <1>3 DEF FleetInv, FleetTypeOK, DetailListed

\* After a write the page may not have the reply to the last write.
LEMMA FleetWriteSteps ==
    ASSUME FleetInv,
           \/ ApplyOrder
           \/ \E h \in FleetWorker : TurnWorker(h) \/ \E order \in Order : OthersOrder(h, order)
    PROVE  FleetInv'
<1>1. \E h \in FleetWorker, row \in FleetRow : WriteFleet(h, row)
  <2>1. ASSUME NEW h \in FleetWorker, NEW order \in Order, fleetWrites < MaxFleetWrites
        PROVE  WithOrder(h, order) \in FleetRow
    <3>1. fleetWrites + 1 \in 1 .. MaxFleetWrites /\ fleet[h] \in FleetRow
      BY <2>1, FleetConstants DEF FleetInv, FleetTypeOK
    <3> QED
      BY <3>1 DEF WithOrder, FleetRow
  <2>2. CASE ApplyOrder
    <3>1. orderCall.order \in Confirmed
      BY <2>2 DEF ApplyOrder, FleetInv, NoOrderCall
    <3>2. orderCall.order.of \in FleetWorker /\ orderCall.order.order \in Order
      BY <3>1 DEF Confirmed
    <3>3. fleetWrites < MaxFleetWrites
      BY <2>2 DEF ApplyOrder, WriteFleet
    <3>4. WriteFleet(orderCall.order.of, WithOrder(orderCall.order.of, orderCall.order.order))
      BY <2>2 DEF ApplyOrder
    <3> QED
      BY <2>1, <3>2, <3>3, <3>4
  <2>3. ASSUME NEW h \in FleetWorker, TurnWorker(h)
        PROVE  \E row \in FleetRow : WriteFleet(h, row)
    <3>1. fleet[h] \in FleetRow
      BY DEF FleetInv, FleetTypeOK
    <3>2. [fleet[h] EXCEPT !.up = ~@] \in FleetRow
      BY <3>1 DEF FleetRow
    <3> QED
      BY <2>3, <3>2 DEF TurnWorker
  <2>4. ASSUME NEW h \in FleetWorker, NEW order \in Order, OthersOrder(h, order)
        PROVE  \E row \in FleetRow : WriteFleet(h, row)
    <3>1. fleetWrites < MaxFleetWrites /\ WriteFleet(h, WithOrder(h, order))
      BY <2>4 DEF OthersOrder, WriteFleet
    <3> QED
      BY <2>1, <3>1
  <2> QED
    BY <2>2, <2>3, <2>4
<1>2. PICK h \in FleetWorker, row \in FleetRow : WriteFleet(h, row)
  BY <1>1
<1>3. /\ fleet' \in [FleetWorker -> FleetRow] /\ fleetWrites' \in 0 .. MaxFleetWrites
      /\ ordered' = NoFleetWorker /\ UNCHANGED <<fleetList, details, expanded, confirm>>
      /\ fleetWrites \in Int
  BY <1>2, FleetConstants DEF WriteFleet, FleetInv, FleetTypeOK
<1>4. /\ orderCall'.stage \in {"none", "sent", "done"}
      /\ \/ orderCall' = NoOrderCall
         \/ orderCall' \in [stage : {"sent"}, order : Confirmed]
         \/ orderCall' \in [stage : {"done"}, of : FleetWorker, at : Int]
  <2>1. CASE ApplyOrder
    <3>1. orderCall.order \in Confirmed
      BY <2>1 DEF ApplyOrder, FleetInv, NoOrderCall
    <3>2. orderCall' = [stage |-> "done", of |-> orderCall.order.of, at |-> fleetWrites + 1]
      BY <2>1 DEF ApplyOrder
    <3> QED
      BY <1>3, <3>1, <3>2 DEF Confirmed
  <2>2. CASE ~ApplyOrder
    <3>1. orderCall' = orderCall
      BY <2>2 DEF TurnWorker, OthersOrder
    <3> QED
      BY <3>1 DEF FleetInv, FleetTypeOK
  <2> QED
    BY <2>1, <2>2
<1> QED
  BY <1>3, <1>4 DEF FleetInv, FleetTypeOK

\* The list.
LEMMA FleetListSteps ==
    ASSUME FleetInv,
           \/ fleetList' = Ask(fleetList)
           \/ AnswerWorkers \/ DeliverWorkers \/ FailWorkers,
           PageAlone, UNCHANGED details
    PROVE  FleetInv'
<1>1. fleetList \in Entry([FleetWorker -> BOOLEAN])
  BY DEF FleetInv, FleetTypeOK
<1>2. [h \in FleetWorker |-> fleet[h].up] \in [FleetWorker -> BOOLEAN]
  BY DEF FleetInv, FleetTypeOK, FleetRow
<1>3. fleetList' \in Entry([FleetWorker -> BOOLEAN])
  BY <1>1, <1>2, AskedEntry, AnsweredEntry, DeliveredEntry, FailedEntry
     DEF AnswerWorkers, DeliverWorkers, FailWorkers
<1> QED
  BY <1>3 DEF FleetInv, FleetTypeOK, PageAlone, DetailListed

\* The details.
LEMMA DetailSteps ==
    ASSUME FleetInv, NEW h \in FleetWorker,
           \/ AtRest(details[h]) /\ details' = [details EXCEPT ![h] = Ask(@)]
           \/ AnswerDetails(h) \/ DeliverDetails(h) \/ FailDetails(h),
           PageAlone, UNCHANGED fleetList
    PROVE  FleetInv'
<1>1. details \in [FleetWorker -> Entry(Orders)] /\ details[h] \in Entry(Orders)
      /\ fleet[h].orders \in Orders
  BY DEF FleetInv, FleetTypeOK, FleetRow, Orders
<1>2. PICK q \in Entry(Orders) :
        /\ details' = [details EXCEPT ![h] = q]
        /\ \/ q.fetch = "asked"
           \/ q.fetch = "answered" /\ q.answer = fleet[h].orders
           \/ q.fetch = "idle" /\ details[h].fetch = "answered" /\ q.data = details[h].answer
           \/ q.fetch = "failed"
  <2>1. CASE AtRest(details[h]) /\ details' = [details EXCEPT ![h] = Ask(@)]
    BY <1>1, <2>1, AskedEntry
  <2>2. CASE AnswerDetails(h)
    BY <1>1, <2>2, AnsweredEntry DEF AnswerDetails
  <2>3. CASE DeliverDetails(h)
    BY <1>1, <2>3, DeliveredEntry DEF DeliverDetails
  <2>4. CASE FailDetails(h)
    BY <1>1, <2>4, FailedEntry DEF FailDetails
  <2> QED
    BY <2>1, <2>2, <2>3, <2>4
<1>3. details' \in [FleetWorker -> Entry(Orders)] /\ details'[h] = q
      /\ \A g \in FleetWorker \ {h} : details'[g] = details[g]
  BY <1>1, <1>2
<1>4. UNCHANGED <<fleet, fleetWrites, expanded, confirm, orderCall, ordered>>
  BY DEF PageAlone
<1>5. expanded' # NoFleetWorker /\ ordered' = expanded' => DetailListed(expanded)'
  <2> SUFFICES ASSUME expanded # NoFleetWorker, ordered = expanded PROVE DetailListed(expanded)'
    BY <1>4
  <2>1. expanded \in FleetWorker /\ DetailListed(expanded)
    BY DEF FleetInv, FleetTypeOK
  <2>2. CASE expanded = h
    BY <1>2, <1>3, <1>4, <2>1, <2>2 DEF DetailListed
  <2>3. CASE expanded # h
    BY <1>3, <1>4, <2>1, <2>3 DEF DetailListed
  <2> QED
    BY <2>2, <2>3
<1> QED
  BY <1>3, <1>4, <1>5, DetailsTypes DEF FleetInv, FleetTypeOK

\* A row is expanded: its detail is asked for, or an old fetch of it is joined.
LEMMA ExpandStep ==
    ASSUME FleetInv, NEW h \in FleetWorker, Expand(h)
    PROVE  FleetInv'
<1>1. details \in [FleetWorker -> Entry(Orders)] /\ details[h] \in Entry(Orders)
  BY DEF FleetInv
<1>2. UNCHANGED <<fleet, fleetWrites, fleetList, confirm, orderCall>>
  BY DEF Expand
<1>3. CASE expanded = h
  <2>1. expanded' = NoFleetWorker /\ details' = details
        /\ ordered' \in {ordered, NoFleetWorker}
    BY <1>3 DEF Expand
  <2> QED
    BY <1>2, <2>1 DEF FleetInv, FleetTypeOK
<1>4. CASE expanded # h
  <2>1. /\ expanded' = h /\ details' = [details EXCEPT ![h] = Ask(@)]
        /\ ordered' = IF AtRest(details[h]) THEN ordered ELSE NoFleetWorker
    BY <1>4 DEF Expand
  <2>2. details' \in [FleetWorker -> Entry(Orders)]
        /\ (AtRest(details[h]) => details'[h].fetch = "asked")
    BY <1>1, <2>1, AskedEntry
  <2>3. h # NoFleetWorker
    BY FleetConstants
  <2> QED
    BY <1>2, <2>1, <2>2, <2>3, DetailsTypes DEF FleetInv, FleetTypeOK, DetailListed
<1> QED
  BY <1>3, <1>4

\* The reply: the detail of the row that is expanded is asked for again.
LEMMA OrderRepliedStep ==
    ASSUME FleetInv, OrderReplied
    PROVE  FleetInv'
<1>1. /\ details \in [FleetWorker -> Entry(Orders)]
      /\ fleetList \in Entry([FleetWorker -> BOOLEAN])
      /\ orderCall.of \in FleetWorker
  BY DEF FleetInv, FleetTypeOK, OrderReplied, NoOrderCall
<1>2. /\ UNCHANGED <<fleet, fleetWrites, expanded>> /\ orderCall' = NoOrderCall
      /\ confirm' = NoConfirm
      /\ details' = [h \in FleetWorker |-> Invalidate(details[h], h = expanded)]
      /\ fleetList' = Invalidate(fleetList, TRUE)
      /\ \/ ordered' = NoFleetWorker
         \/ ordered' = orderCall.of /\ ~Joins(details[orderCall.of])
  BY DEF OrderReplied, DetailsAsked
<1>3. fleetList' \in Entry([FleetWorker -> BOOLEAN])
  BY <1>1, <1>2, InvalidatedEntry
<1>4. \A h \in FleetWorker : /\ Invalidate(details[h], h = expanded) \in Entry(Orders)
                             /\ h = expanded /\ ~Joins(details[h])
                                  => Invalidate(details[h], h = expanded).fetch = "asked"
  BY <1>1, InvalidatedEntry DEF Joins
<1>5. details' \in [FleetWorker -> Entry(Orders)]
  BY <1>2, <1>4
<1>6. expanded' # NoFleetWorker /\ ordered' = expanded' => DetailListed(expanded)'
  BY <1>1, <1>2, <1>4 DEF DetailListed
<1> QED
  BY <1>1, <1>2, <1>3, <1>5, <1>6, DetailsTypes
     DEF FleetInv, FleetTypeOK, NoConfirm, NoOrderCall

LEMMA FleetPageSteps == FleetInv /\ [FleetPageNext]_fleetVars => FleetInv'
<1> SUFFICES ASSUME FleetInv, [FleetPageNext]_fleetVars PROVE FleetInv'
  OBVIOUS
<1>1. CASE RefetchWorkers
  <2>1. expanded # NoFleetWorker => expanded \in FleetWorker
    BY DEF FleetInv, FleetTypeOK
  <2> QED
    BY <1>1, <2>1, FleetListSteps, DetailSteps DEF RefetchWorkers
<1>2. CASE AnswerWorkers \/ DeliverWorkers \/ FailWorkers
  BY <1>2, FleetListSteps DEF AnswerWorkers, DeliverWorkers, FailWorkers
<1>3. CASE \E h \in FleetWorker : AnswerDetails(h) \/ DeliverDetails(h) \/ FailDetails(h)
  BY <1>3, DetailSteps DEF AnswerDetails, DeliverDetails, FailDetails
<1> QED
  BY <1>1, <1>2, <1>3, ConfirmSteps, FleetWriteSteps, ExpandStep, OrderRepliedStep
     DEF FleetPageNext

\* Whichever rows are expanded while a command is on its way: once the page has the
\* reply, nothing is in flight and the last fetch arrived, the detail shown lists the
\* command.
THEOREM OrdersAreListed == FleetPageSpec => []OrderIsListed
<1>1. FleetInit => FleetInv
  BY FleetStart
<1>2. FleetInv => OrderIsListed
  BY DEF FleetInv, OrderIsListed, DetailListed
<1> QED
  BY <1>1, <1>2, FleetPageSteps, PTL DEF FleetPageSpec

-----------------------------------------------------------------------------
(***************************************************************************)
(* AlertEvents.  What an entry holds, and what is on its way to it, is of  *)
(* its own filter, whatever the page shows by then.  From the reply to the *)
(* last write until the next one, the entry the page looks at is being     *)
(* asked for, agrees with the table in the rows it has, or could not be    *)
(* fetched.                                                                *)
(***************************************************************************)
OfFilter(v, listing) ==
    listing # NoData =>
        \A e \in Event : listing.rows[e] # Absent => Lets(v.filter, e, listing.rows[e])

OfTable(listing) ==
    listing # NoData => \A e \in Event : listing.rows[e] # Absent => listing.rows[e] = events[e]

EntriesOfFilter ==
    \A v \in View : /\ OfFilter(v, answers[v].data)
                    /\ answers[v].fetch = "answered" => OfFilter(v, answers[v].answer)

LookedAtAgrees ==
    \/ answers[view].fetch = "asked"
    \/ answers[view].fetch = "answered" /\ OfTable(answers[view].answer)
    \/ answers[view].fetch = "idle" /\ OfTable(answers[view].data)
    \/ answers[view].fetch = "failed"

AckTypes ==
    /\ \/ ackOne = NoAck \/ ackOne = [stage |-> "done"]
       \/ ackOne \in [stage : {"sent"}, event : Event, user : Reporter]
    /\ \/ ackInfo = NoAck \/ ackInfo = [stage |-> "done"]
       \/ ackInfo \in [stage : {"sent"}, user : Reporter]

EventInv ==
    /\ EventTypeOK
    /\ AckTypes
    /\ EntriesOfFilter
    /\ ackShown = "shown" => LookedAtAgrees

LEMMA AckStages == AckTypes => \A ack \in {ackOne, ackInfo} : ack.stage \in {"none", "sent", "done"}
BY DEF AckTypes, NoAck

LEMMA LastPageInt == LastPage \in Int
<1>1. Cardinality(Event) \in Nat /\ PageSize \in Nat \ {0}
  BY EventConstants, FS_CardinalityType
<1> QED
  BY <1>1 DEF LastPage

LEMMA ViewParts ==
    ASSUME NEW v \in View, NEW f \in Filter, NEW p \in 0 .. LastPage
    PROVE  /\ [v EXCEPT !.filter = f, !.page = 0] \in View
           /\ [v EXCEPT !.filter = f] \in View
           /\ [v EXCEPT !.page = p] \in View
<1>1. 0 \in 0 .. LastPage
  BY LastPageInt
<1> QED
  BY <1>1 DEF View

LEMMA EventStart == ASSUME EventInit PROVE EventInv
<1>1. view \in View /\ events \in [Event -> State] /\ eventWrites \in 0 .. MaxEventWrites
  BY EventConstants DEF EventInit, State
<1>2. \A v \in View : answers[v] \in Entry(Listing) /\ answers[v].data = NoData
                      /\ answers[v].fetch # "answered"
  BY EmptyParts, FirstAsked DEF EventInit
<1>3. answers \in [View -> Entry(Listing)]
  BY <1>2 DEF EventInit
<1> QED
  BY <1>1, <1>2, <1>3
     DEF EventInit, EventInv, EventTypeOK, AckTypes, EntriesOfFilter, OfFilter, NoAck

\* Requests and writes: no entry changes, and the table only together with ackShown.
LEMMA AckCallSteps ==
    ASSUME EventInv,
           \/ \E user \in Reporter : \/ AcknowledgeAllInfo(user)
                                     \/ \E e \in Event : Acknowledge(e, user)
           \/ RefuseAck \/ AckFails \/ UNCHANGED eventVars
    PROVE  EventInv'
<1>1. UNCHANGED <<events, eventWrites, view, answers, ackShown>>
  BY DEF AcknowledgeAllInfo, Acknowledge, RefuseAck, AckFails, CallsOnly, eventVars
<1>2. AckTypes'
  BY DEF AcknowledgeAllInfo, Acknowledge, RefuseAck, AckFails, eventVars, EventInv, AckTypes
<1>3. AckTypes' => (\A ack \in {ackOne, ackInfo} : ack.stage \in {"none", "sent", "done"})'
  BY DEF AckTypes, NoAck
<1> QED
  BY <1>1, <1>2, <1>3
     DEF EventInv, EventTypeOK, EntriesOfFilter, OfFilter, OfTable, LookedAtAgrees

LEMMA EventWriteSteps ==
    ASSUME EventInv,
           \/ ApplyAck \/ ApplyAckInfo
           \/ \E e \in Event, state \in State : OthersWrite(e, state)
    PROVE  EventInv'
<1>1. PICK new, by : WriteEvents(new, by) /\ new \in [Event -> State] /\ by \in {"call", "others"}
  <2>1. CASE ApplyAck
    <3>1. ackOne.event \in Event /\ ackOne.user \in State
      BY <2>1 DEF ApplyAck, EventInv, AckTypes, NoAck, State
    <3>2. WriteEvents([events EXCEPT ![ackOne.event] =
                        IF @ \in {Resolved, Absent} THEN @ ELSE ackOne.user], "call")
      BY <2>1 DEF ApplyAck
    <3> QED
      BY <3>1, <3>2 DEF EventInv, EventTypeOK
  <2>2. CASE ApplyAckInfo
    <3>1. ackInfo.user \in State
      BY <2>2 DEF ApplyAckInfo, EventInv, AckTypes, NoAck, State
    <3>2. Swept(ackInfo.user) \in [Event -> State]
      BY <3>1 DEF Swept, EventInv, EventTypeOK
    <3> QED
      BY <2>2, <3>2 DEF ApplyAckInfo
  <2>3. ASSUME NEW e \in Event, NEW state \in State, OthersWrite(e, state)
        PROVE  \E new, by : /\ WriteEvents(new, by) /\ new \in [Event -> State]
                            /\ by \in {"call", "others"}
    BY <2>3 DEF OthersWrite, EventInv, EventTypeOK
  <2> QED
    BY <2>1, <2>2, <2>3
<1>2. /\ events' \in [Event -> State] /\ eventWrites' \in 0 .. MaxEventWrites
      /\ ackShown' \in {"call", "others"} /\ UNCHANGED <<view, answers>>
  BY <1>1, EventConstants DEF WriteEvents, EventInv, EventTypeOK
<1>3. AckTypes'
  BY DEF ApplyAck, ApplyAckInfo, OthersWrite, EventInv, AckTypes
<1>4. AckTypes' => (\A ack \in {ackOne, ackInfo} : ack.stage \in {"none", "sent", "done"})'
  BY DEF AckTypes, NoAck
<1> QED
  BY <1>2, <1>3, <1>4 DEF EventInv, EventTypeOK, EntriesOfFilter, OfFilter

\* The page looks at another combination: what is not looked at any more is kept or
\* collected, and what is looked at is asked for or is an old fetch.
LEMMA LookStep ==
    ASSUME EventInv, NEW v \in View, Look(v)
    PROVE  EventInv'
<1>1. answers \in [View -> Entry(Listing)] /\ view \in View
  BY DEF EventInv, EventTypeOK
<1>2. /\ view' = v /\ UNCHANGED <<events, eventWrites, ackOne, ackInfo>>
      /\ ackShown' = IF AtRest(answers[v]) THEN ackShown ELSE "others"
      /\ answers' = [Kept(v) EXCEPT ![v] = Ask(@)]
  BY DEF Look, KeyOf
<1>3. Kept(v) \in [View -> Entry(Listing)] /\ Kept(v)[v] = answers[v]
      /\ \A k \in View : Kept(v)[k] \in {answers[k], Empty}
  BY <1>1, EmptyParts DEF Kept, KeyOf
<1>4. /\ answers' \in [View -> Entry(Listing)]
      /\ answers'[v].data = answers[v].data /\ answers'[v].answer = answers[v].answer
      /\ answers'[v].fetch = IF AtRest(answers[v]) THEN "asked" ELSE answers[v].fetch
      /\ \A k \in View \ {v} : answers'[k] \in {answers[k], Empty}
  BY <1>1, <1>2, <1>3, AskedEntry
<1>5. EntriesOfFilter'
  <2> SUFFICES ASSUME NEW k \in View
               PROVE  /\ OfFilter(k, answers'[k].data)
                      /\ answers'[k].fetch = "answered" => OfFilter(k, answers'[k].answer)
    BY DEF EntriesOfFilter, OfFilter
  <2>1. CASE k = v
    BY <1>4, <2>1 DEF EventInv, EntriesOfFilter
  <2>2. CASE k # v
    BY <1>4, <2>2, EmptyParts DEF EventInv, EntriesOfFilter, OfFilter
  <2> QED
    BY <2>1, <2>2
<1>6. ackShown' = "shown" => LookedAtAgrees'
  BY <1>2, <1>4 DEF LookedAtAgrees
<1>7. AckTypes' /\ (\A ack \in {ackOne, ackInfo} : ack.stage \in {"none", "sent", "done"})'
  BY <1>2, AckStages DEF EventInv, AckTypes
<1> QED
  BY <1>2, <1>4, <1>5, <1>6, <1>7 DEF EventInv, EventTypeOK

\* One entry changes: it is asked for, answered, delivered, or could not be fetched.
LEMMA EntryStep ==
    ASSUME EventInv, NEW v \in View, NEW q \in Entry(Listing),
           answers' = [answers EXCEPT ![v] = q],
           \/ q.data = answers[v].data /\ (q.fetch = "asked" \/ q = answers[v])
           \/ /\ q.data = answers[v].data /\ q.fetch = "answered"
              /\ OfFilter(v, q.answer) /\ OfTable(q.answer)
           \/ q.data = answers[v].answer /\ q.fetch = "idle" /\ answers[v].fetch = "answered"
           \/ q.data = answers[v].data /\ q.fetch = "failed",
           UNCHANGED <<events, eventWrites, view>>,
           AckTypes',
           \/ ackShown' = ackShown
           \/ ackShown' = "shown" /\ v = view /\ q.fetch = "asked"
    PROVE  EventInv'
<1>1. /\ answers \in [View -> Entry(Listing)] /\ view \in View
      /\ answers' \in [View -> Entry(Listing)] /\ answers'[v] = q
      /\ \A k \in View \ {v} : answers'[k] = answers[k]
  BY DEF EventInv, EventTypeOK
<1>2. EntriesOfFilter'
  <2> SUFFICES ASSUME NEW k \in View
               PROVE  /\ OfFilter(k, answers'[k].data)
                      /\ answers'[k].fetch = "answered" => OfFilter(k, answers'[k].answer)
    BY DEF EntriesOfFilter, OfFilter
  <2>1. CASE k = v
    BY <1>1, <2>1 DEF EventInv, EntriesOfFilter
  <2>2. CASE k # v
    BY <1>1, <2>2 DEF EventInv, EntriesOfFilter
  <2> QED
    BY <2>1, <2>2
<1>3. ackShown' = "shown" => LookedAtAgrees'
  <2>1. CASE view = v
    BY <1>1, <2>1 DEF EventInv, LookedAtAgrees, OfTable
  <2>2. CASE view # v
    BY <1>1, <2>2 DEF EventInv, LookedAtAgrees, OfTable
  <2> QED
    BY <2>1, <2>2
<1>4. AckTypes' => (\A ack \in {ackOne, ackInfo} : ack.stage \in {"none", "sent", "done"})'
  BY DEF AckTypes, NoAck
<1> QED
  BY <1>1, <1>2, <1>3, <1>4 DEF EventInv, EventTypeOK

\* What the server answers is of the filter it was asked for, and of the table.
LEMMA ListedEvents ==
    ASSUME EventInv, NEW v \in View,
           NEW listing,
           listing = [rows  |-> [e \in Event |-> IF e \in OnPage(v) THEN events[e] ELSE Absent],
                      total |-> Cardinality(Matching(v))]
    PROVE  listing \in Listing /\ OfFilter(v, listing) /\ OfTable(listing)
<1>1. IsFiniteSet(Event) /\ Matching(v) \subseteq Event
  BY EventConstants DEF Matching
<1>2. Cardinality(Matching(v)) \in 0 .. Cardinality(Event)
  BY <1>1, FS_Subset, FS_CardinalityType
<1>3. listing \in Listing
  BY <1>2 DEF Listing, State, EventInv, EventTypeOK
<1>4. \A e \in Event : listing.rows[e] # Absent =>
          listing.rows[e] = events[e] /\ Lets(v.filter, e, events[e])
  BY DEF OnPage, Matching
<1> QED
  BY <1>3, <1>4 DEF OfFilter, OfTable

LEMMA EventSteps == EventInv /\ [EventNext]_eventVars => EventInv'
<1> SUFFICES ASSUME EventInv, [EventNext]_eventVars PROVE EventInv'
  OBVIOUS
<1>1. answers \in [View -> Entry(Listing)] /\ view \in View /\ AckTypes
  BY DEF EventInv, EventTypeOK
<1>2. ASSUME NEW f \in Filter, ChooseFilter(f) \/ ClearFilter(f)
      PROVE  EventInv'
  <2>1. 0 \in 0 .. LastPage
    BY <1>1, LastPageInt DEF View
  <2> QED
    BY <1>1, <1>2, <2>1, ViewParts, LookStep DEF ChooseFilter, ClearFilter
<1>3. ASSUME NEW to \in 0 .. LastPage, Turn(to)
      PROVE  EventInv'
  <2>1. [view EXCEPT !.page = to] \in View
    BY <1>1 DEF View
  <2> QED
    BY <1>3, <2>1, LookStep DEF Turn
<1>4. CASE RefetchEvents
  <2>1. answers' = [answers EXCEPT ![view] = Ask(answers[view])]
    BY <1>4 DEF RefetchEvents, KeyOf
  <2>2. /\ Ask(answers[view]) \in Entry(Listing) /\ Ask(answers[view]).data = answers[view].data
        /\ Ask(answers[view]).fetch = "asked"
    BY <1>1, <1>4, AskedEntry DEF RefetchEvents, Current, KeyOf
  <2>3. UNCHANGED <<events, eventWrites, view, ackShown>> /\ AckTypes'
    BY <1>1, <1>4 DEF RefetchEvents, AckTypes
  <2> QED
    BY <1>1, <2>1, <2>2, <2>3, EntryStep
<1>5. ASSUME NEW v \in View, AnswerEvents(v)
      PROVE  EventInv'
  <2> DEFINE listing == [rows  |-> [e \in Event |-> IF e \in OnPage(v) THEN events[e] ELSE Absent],
                         total |-> Cardinality(Matching(v))]
  <2>1. listing \in Listing /\ OfFilter(v, listing) /\ OfTable(listing)
    BY ListedEvents
  <2>2. answers' = [answers EXCEPT ![v] = Answer(answers[v], listing)]
    BY <1>5 DEF AnswerEvents
  <2> HIDE DEF listing
  <2>3. /\ Answer(answers[v], listing) \in Entry(Listing)
        /\ Answer(answers[v], listing).data = answers[v].data
        /\ Answer(answers[v], listing).fetch = "answered"
        /\ Answer(answers[v], listing).answer = listing
    BY <1>1, <2>1, AnsweredEntry
  <2>4. UNCHANGED <<events, eventWrites, view, ackShown>> /\ AckTypes'
    BY <1>1, <1>5 DEF AnswerEvents, AckTypes
  <2>5. OfFilter(v, Answer(answers[v], listing).answer) /\ OfTable(Answer(answers[v], listing).answer)
    BY <2>1, <2>3, Zenon
  <2> QED
    BY <2>2, <2>3, <2>4, <2>5, EntryStep
<1>6. ASSUME NEW v \in View, DeliverEvents(v)
      PROVE  EventInv'
  <2>1. /\ answers' = [answers EXCEPT ![v] = Deliver(answers[v])]
        /\ answers[v].fetch = "answered"
    BY <1>6 DEF DeliverEvents
  <2>2. /\ Deliver(answers[v]) \in Entry(Listing) /\ Deliver(answers[v]).data = answers[v].answer
        /\ Deliver(answers[v]).fetch = "idle"
    BY <1>1, DeliveredEntry
  <2>3. UNCHANGED <<events, eventWrites, view, ackShown>> /\ AckTypes'
    BY <1>1, <1>6 DEF DeliverEvents, AckTypes
  <2> QED
    BY <2>1, <2>2, <2>3, EntryStep
<1>7. ASSUME NEW v \in View, FailEvents(v)
      PROVE  EventInv'
  <2>1. answers' = [answers EXCEPT ![v] = Fail(answers[v])]
    BY <1>7 DEF FailEvents
  <2>2. /\ Fail(answers[v]) \in Entry(Listing) /\ Fail(answers[v]).data = answers[v].data
        /\ Fail(answers[v]).fetch = "failed"
    BY <1>1, FailedEntry
  <2>3. UNCHANGED <<events, eventWrites, view, ackShown>> /\ AckTypes'
    BY <1>1, <1>7 DEF FailEvents, AckTypes
  <2> QED
    BY <2>1, <2>2, <2>3, EntryStep
<1>8. CASE AckReplied
  <2>1. answers' = [answers EXCEPT ![view] = Invalidate(answers[view], TRUE)]
    BY <1>8 DEF AckReplied, KeyOf
  <2>2. /\ Invalidate(answers[view], TRUE) \in Entry(Listing)
        /\ Invalidate(answers[view], TRUE).data = answers[view].data
        /\ \/ Invalidate(answers[view], TRUE) = answers[view]
           \/ Invalidate(answers[view], TRUE).fetch = "asked"
        /\ ~Joins(answers[view]) => Invalidate(answers[view], TRUE).fetch = "asked"
    BY <1>1, InvalidatedEntry DEF Joins
  <2>3. UNCHANGED <<events, eventWrites, view>> /\ AckTypes'
    BY <1>1, <1>8 DEF AckReplied, AckTypes
  <2>4. \/ ackShown' = ackShown
        \/ ackShown' = "shown" /\ Invalidate(answers[view], TRUE).fetch = "asked"
    BY <1>8, <2>2 DEF AckReplied, Current, KeyOf
  <2> QED
    BY <1>1, <2>1, <2>2, <2>3, <2>4, EntryStep
<1> QED
  BY <1>2, <1>3, <1>4, <1>5, <1>6, <1>7, <1>8, AckCallSteps, EventWriteSteps DEF EventNext

\* However fast filters and page change, in whatever order the answers arrive, the rows
\* shown are of the filter shown above them.
THEOREM RowsAreOfTheView == EventSpec => []RowsMatchView
<1>1. EventInit => EventInv
  BY EventStart
<1>2. EventInv => RowsMatchView
  <2> SUFFICES ASSUME EventInv PROVE RowsMatchView
    OBVIOUS
  <2>1. view \in View /\ OfFilter(view, answers[view].data)
    BY DEF EventInv, EventTypeOK, EntriesOfFilter
  <2> QED
    BY <2>1 DEF RowsMatchView, RowsShown, Current, KeyOf, OfFilter
<1> QED
  BY <1>1, <1>2, EventSteps, PTL DEF EventSpec

\* The reply to an acknowledgement, once its refetch has arrived, leaves rows on the page
\* that are as the table has them, for any number of filters, pages and requests.
THEOREM AcksAreShown == EventSpec => []AckIsShown
<1>1. EventInit => EventInv
  BY EventStart
<1>2. EventInv => AckIsShown
  <2> SUFFICES ASSUME EventInv, ackShown = "shown", answers[view].fetch = "idle"
               PROVE  \A e \in RowsShown : Current.data.rows[e] = events[e]
    BY DEF AckIsShown, Current, KeyOf
  <2>1. OfTable(answers[view].data)
    BY DEF EventInv, LookedAtAgrees
  <2> QED
    BY <2>1 DEF RowsShown, Current, KeyOf, OfTable
<1> QED
  BY <1>1, <1>2, EventSteps, PTL DEF EventSpec

-----------------------------------------------------------------------------
(***************************************************************************)
(* SiteAdmin.  A site that was deleted is in no list that is shown or on   *)
(* its way, so that nothing selects it again; what a dialog or a request   *)
(* is about was delivered, so that the reply's invalidation always asks    *)
(* anew; and a request whose write was the last one, and during which no   *)
(* other site was selected, is about the site that is selected.            *)
(***************************************************************************)
PartsOf(p) == {q \in tree.parts : PlantOf[q] = p}
About(task) == task.of # NoPlant

NothingDeletedListed ==
    /\ done.deleted \subseteq tree.used \ tree.plants
    /\ listQuery.data # NoData => listQuery.data.plants \subseteq tree.used \ done.deleted
    /\ listQuery.fetch = "answered" =>
          listQuery.answer \in Sites /\ listQuery.answer.plants \subseteq tree.used \ done.deleted

TaskIsKnown(task) ==
    About(task) => /\ task.of \in tree.used
                   /\ listQuery.data # NoData
                   /\ detailQuery[task.of].data # NoData

SitesAreKnown ==
    /\ selected \in tree.used \cup {NoPlant}
    /\ listQuery.data = NoData => selected = NoPlant
    /\ TaskIsKnown(modal) /\ TaskIsKnown(treeCall.task)

DeletionOnItsWay ==
    treeCall.task.kind = "delete site" =>
        /\ treeCall.stage \in {"done", "settling"} => treeCall.task.of \notin tree.plants
        /\ treeCall.stage = "settling" =>
              \/ listQuery.fetch = "asked"
              \/ listQuery.fetch = "answered" /\ treeCall.task.of \notin listQuery.answer.plants

ListAgrees ==
    \/ listQuery.fetch = "asked"
    \/ listQuery.fetch = "answered" /\ listQuery.answer.parts = tree.parts
    \/ listQuery.fetch = "idle" /\ listQuery.data.parts = tree.parts
    \/ listQuery.fetch = "failed"

DetailAgrees(p) ==
    \/ detailQuery[p].fetch = "asked"
    \/ detailQuery[p].fetch = "answered" /\ detailQuery[p].answer = PartsOf(p)
    \/ detailQuery[p].fetch = "idle" /\ detailQuery[p].data = PartsOf(p)
    \/ detailQuery[p].fetch = "failed"

DeletionShows ==
    /\ treeCall.stage # "none" => done.last.kind = "none"
    /\ done.last.kind = "delete part" =>
          ListAgrees /\ (selected \in tree.plants => DetailAgrees(selected))

NewPartOnItsWay ==
    done.own /\ treeCall.stage \in {"done", "settling"} =>
        /\ selected = treeCall.task.of
        /\ treeCall.task.kind = "new part" =>
              /\ selected \in tree.plants
              /\ treeCall.made \subseteq PartsOf(selected)
              /\ treeCall.stage = "settling" =>
                    \/ detailQuery[selected].fetch = "asked"
                    \/ /\ detailQuery[selected].fetch = "answered"
                       /\ treeCall.made \subseteq detailQuery[selected].answer

DetailsAreSets ==
    \A p \in Plant : detailQuery[p].fetch = "answered" => detailQuery[p].answer \in Detail

TreeInv ==
    /\ TreeTypeOK /\ DetailsAreSets
    /\ NothingDeletedListed /\ SitesAreKnown
    /\ DeletionOnItsWay /\ DeletionShows /\ NewPartOnItsWay
    /\ DeletedSiteNotReselected

TreeCallType == [stage : {"none", "sent", "done", "settling"}, task : Task, made : SUBSET Part]
DoneType     == [last : Task, own : BOOLEAN, deleted : SUBSET Plant]

\* What requests are about.
LEMMA TaskParts ==
    /\ NoTask \in Task /\ NewSite \in Task /\ NoTask.kind = "none" /\ NoTask.of = NoPlant
    /\ \A task \in Task :
        /\ task.of \in Plant \cup {NoPlant}
        /\ task.kind \in {"none", "new site"} <=> task.of = NoPlant
        /\ task.kind = "none" => task = NoTask
        /\ task.kind \in {"none", "new site", "edit site", "delete site", "new part",
                          "edit part", "delete part"}
        /\ task.kind = "delete part" => task.part \in Part
<1>1. \A p \in Part : PlantOf[p] \in Plant
  BY TreeConstants
<1>2. ASSUME NEW p \in Part, NEW task \in PartTask(p)
      PROVE  /\ task.of \in Plant /\ task.kind \in {"edit part", "delete part"}
             /\ task.part \in Part
  BY <1>1, <1>2 DEF PartTask
<1>3. ASSUME NEW task \in [kind : {"edit site", "delete site", "new part"}, of : Plant,
                           part : {NoPart}]
      PROVE  task.of \in Plant /\ task.kind \in {"edit site", "delete site", "new part"}
  OBVIOUS
<1>4. \A task \in Task : \/ task = NoTask \/ task = NewSite
                         \/ \E p \in Part : task \in PartTask(p)
                         \/ task \in [kind : {"edit site", "delete site", "new part"},
                                      of : Plant, part : {NoPart}]
  <2>1. ASSUME NEW task \in UNION {PartTask(p) : p \in Part}
        PROVE  \E p \in Part : task \in PartTask(p)
    OBVIOUS
  <2>2. \A task \in Task : task = NoTask \/ task \in Request
    BY DEF Task
  <2>3. \A task \in Request :
            \/ task = NewSite
            \/ task \in UNION {PartTask(p) : p \in Part}
            \/ task \in [kind : {"edit site", "delete site", "new part"},
                         of : Plant, part : {NoPart}]
    BY DEF Request
  <2> QED
    BY <2>1, <2>2, <2>3
<1>5. NoTask \in Task /\ NewSite \in Task /\ NoPlant \notin Plant
  BY TreeConstants DEF Task, Request
<1>6. NoTask.kind = "none" /\ NoTask.of = NoPlant
      /\ NewSite.kind = "new site" /\ NewSite.of = NoPlant
  BY DEF NoTask, NewSite
<1> QED
  BY <1>2, <1>3, <1>4, <1>5, <1>6

LEMMA TreeCallParts ==
    ASSUME TreeInv
    PROVE  /\ treeCall \in TreeCallType /\ done \in DoneType
           /\ treeCall.task \in Task /\ modal \in Task /\ done.last \in Task
           /\ tree \in Tree /\ listQuery \in Entry(Sites)
           /\ detailQuery \in [Plant -> Entry(Detail)]
BY DEF TreeInv, TreeTypeOK, TreeCallType, DoneType

LEMMA DoneUpdates ==
    ASSUME NEW d \in DoneType, NEW last \in Task, NEW own \in BOOLEAN
    PROVE  /\ [d EXCEPT !.last = last, !.own = own] \in DoneType
           /\ [d EXCEPT !.last = last, !.own = own].last = last
           /\ [d EXCEPT !.last = last, !.own = own].own = own
           /\ [d EXCEPT !.last = last, !.own = own].deleted = d.deleted
BY DEF DoneType

LEMMA TreeStart == ASSUME TreeInit PROVE TreeInv
<1>1. tree \in Tree /\ tree.plants \subseteq tree.used /\ treeWrites \in 0 .. MaxTreeWrites
  BY TreeConstants, FirstTreesAreTrees DEF TreeInit, Tree
<1>2. listQuery \in Entry(Sites) /\ listQuery.data = NoData /\ listQuery.fetch = "asked"
  BY FirstAsked DEF TreeInit
<1>3. \A p \in Plant : detailQuery[p] \in Entry(Detail) /\ detailQuery[p].fetch = "idle"
  BY EmptyParts DEF TreeInit
<1>4. detailQuery \in [Plant -> Entry(Detail)]
  BY <1>3 DEF TreeInit
<1>5. /\ modal = NoTask /\ treeCall = NoTreeCall /\ selected = NoPlant
      /\ done = [last |-> NoTask, own |-> FALSE, deleted |-> {}]
  BY DEF TreeInit
<1>6. treeCall \in TreeCallType /\ done \in DoneType
  BY <1>5, TaskParts DEF NoTreeCall, TreeCallType, DoneType
<1>7. TreeTypeOK
  BY <1>1, <1>2, <1>4, <1>5, <1>6, TaskParts DEF TreeTypeOK, TreeCallType, DoneType
<1>8. SitesAreKnown
  BY <1>2, <1>5, TaskParts DEF SitesAreKnown, TaskIsKnown, About, NoTreeCall
<1>9. DeletionShows /\ DeletionOnItsWay /\ NewPartOnItsWay
  BY <1>5, TaskParts DEF DeletionShows, DeletionOnItsWay, NewPartOnItsWay, NoTreeCall
<1> QED
  BY <1>1, <1>2, <1>3, <1>5, <1>7, <1>8, <1>9
     DEF TreeInv, DetailsAreSets, NothingDeletedListed, DeletedSiteNotReselected

\* A site is selected: its detail is asked for, or an old fetch of it is joined.
LEMMA ShowStep ==
    ASSUME TreeInv, NEW p \in Plant, p \in ListedPlants, Show(p), PageOnly, UNCHANGED modal
    PROVE  TreeInv'
<1>1. /\ detailQuery \in [Plant -> Entry(Detail)] /\ done \in DoneType
      /\ UNCHANGED <<tree, treeWrites, listQuery, treeCall, modal>>
  BY TreeCallParts DEF PageOnly
<1>2. selected' = p /\ p \in tree.used \ done.deleted /\ listQuery.data # NoData
  BY DEF Show, ListedPlants, TreeInv, NothingDeletedListed
<1>3. /\ detailQuery' \in [Plant -> Entry(Detail)]
      /\ \A q \in Plant : /\ detailQuery'[q].data = detailQuery[q].data
                          /\ detailQuery'[q].answer = detailQuery[q].answer
                          /\ detailQuery'[q].fetch \in {detailQuery[q].fetch, "asked"}
  BY <1>1, AskedEntry DEF Show
<1>4. /\ done' \in DoneType /\ done'.last = NoTask /\ done'.own = FALSE
      /\ done'.deleted = done.deleted
  BY <1>1, DoneUpdates, TaskParts DEF Show
<1>5. TreeTypeOK'
  BY <1>1, <1>2, <1>3, <1>4 DEF TreeInv, TreeTypeOK, DoneType
<1>6. DetailsAreSets' /\ NothingDeletedListed' /\ DeletionOnItsWay' /\ DeletedSiteNotReselected'
  BY <1>1, <1>2, <1>3, <1>4
     DEF TreeInv, DetailsAreSets, NothingDeletedListed, DeletionOnItsWay, DeletedSiteNotReselected
<1>7. SitesAreKnown'
  <2>1. \A task \in {modal, treeCall.task} : task.of \in Plant \cup {NoPlant}
    BY TreeCallParts, TaskParts
  <2> QED
    BY <1>1, <1>2, <1>3, <2>1 DEF TreeInv, SitesAreKnown, TaskIsKnown, About
<1>8. DeletionShows' /\ NewPartOnItsWay'
  BY <1>4, TaskParts DEF DeletionShows, NewPartOnItsWay
<1> QED
  BY <1>5, <1>6, <1>7, <1>8 DEF TreeInv

\* The dialogs and the requests: neither tables nor cache entries change.
LEMMA DialogSteps ==
    ASSUME TreeInv,
           \/ \E task \in Request : OpenModal(task)
           \/ CloseModal \/ Confirm \/ TaskFails \/ UNCHANGED treeVars
    PROVE  TreeInv'
<1>1. UNCHANGED <<tree, treeWrites, listQuery, detailQuery, selected>>
  BY DEF OpenModal, CloseModal, Confirm, TaskFails, PageOnly, TablesAlone, treeVars
<1>2. modal' \in Task /\ TaskIsKnown(modal)'
  <2>1. ASSUME NEW task \in Request, OpenModal(task)
        PROVE  modal' \in Task /\ TaskIsKnown(modal)'
    <3>1. modal' = task /\ task \in Task
      BY <2>1 DEF OpenModal, Task
    <3>2. \/ task.of = NoPlant
          \/ task.of = selected /\ detailQuery[selected].data # NoData /\ selected # NoPlant
      <4>1. Offered(task)
        BY <2>1 DEF OpenModal
      <4>2. NewSite.of = NoPlant
        BY DEF NewSite
      <4> QED
        BY <4>1, <4>2 DEF Offered
    <3>3. selected # NoPlant => selected \in tree.used /\ listQuery.data # NoData
      BY DEF TreeInv, SitesAreKnown
    <3> QED
      BY <1>1, <3>1, <3>2, <3>3 DEF TaskIsKnown, About
  <2>2. CASE modal' = modal
    BY <1>1, <2>2, TreeCallParts DEF TaskIsKnown, TreeInv, SitesAreKnown
  <2>3. CASE modal' = NoTask
    BY <2>3, TaskParts DEF TaskIsKnown, About
  <2> QED
    BY <2>1, <2>2, <2>3 DEF CloseModal, Confirm, TaskFails, treeVars
<1>3. \/ UNCHANGED <<treeCall, done>>
      \/ treeCall' = NoTreeCall /\ done' = [done EXCEPT !.own = FALSE]
      \/ /\ treeCall' = [stage |-> "sent", task |-> modal, made |-> {}]
         /\ done' = [done EXCEPT !.last = NoTask, !.own = FALSE]
  BY DEF OpenModal, CloseModal, Confirm, TaskFails, PageOnly, TablesAlone, treeVars
<1>4. CASE UNCHANGED <<treeCall, done>>
  BY <1>1, <1>2, <1>4
     DEF TreeInv, TreeTypeOK, DetailsAreSets, NothingDeletedListed, SitesAreKnown, TaskIsKnown,
         DeletionOnItsWay, DeletionShows, NewPartOnItsWay, DeletedSiteNotReselected,
         ListAgrees, DetailAgrees, PartsOf
<1>5. CASE treeCall' = NoTreeCall /\ done' = [done EXCEPT !.own = FALSE]
  <2>1. treeCall'.stage = "none" /\ treeCall'.task = NoTask /\ treeCall' \in TreeCallType
    BY <1>5, TaskParts DEF NoTreeCall, TreeCallType
  <2>5. done' \in DoneType /\ done'.last = done.last /\ done'.deleted = done.deleted
    BY <1>5, TreeCallParts DEF DoneType
  <2>2. TaskIsKnown(treeCall.task)'
    BY <2>1, TaskParts DEF TaskIsKnown, About
  <2>3. TreeTypeOK'
    BY <1>1, <1>2, <2>1, <2>5 DEF TreeInv, TreeTypeOK, TreeCallType, DoneType
  <2>4. DeletionShows' /\ DeletionOnItsWay' /\ NewPartOnItsWay'
    BY <1>1, <2>1, <2>5
       DEF TreeInv, DeletionShows, DeletionOnItsWay, NewPartOnItsWay, ListAgrees, DetailAgrees,
           PartsOf
  <2> QED
    BY <1>1, <1>2, <2>2, <2>3, <2>4, <2>5
       DEF TreeInv, DetailsAreSets, NothingDeletedListed, SitesAreKnown, DeletedSiteNotReselected
<1>6. CASE /\ treeCall' = [stage |-> "sent", task |-> modal, made |-> {}]
           /\ done' = [done EXCEPT !.last = NoTask, !.own = FALSE]
  <2>1. treeCall'.stage = "sent" /\ treeCall'.task = modal /\ treeCall' \in TreeCallType
    BY <1>6, TreeCallParts DEF TreeCallType
  <2>2. /\ done' \in DoneType /\ done'.last = NoTask /\ done'.own = FALSE
        /\ done'.deleted = done.deleted
    <3>1. done \in DoneType /\ NoTask \in Task /\ FALSE \in BOOLEAN
      BY TreeCallParts, TaskParts
    <3> QED
      BY <1>6, <3>1, DoneUpdates
  <2>3. TaskIsKnown(treeCall.task)'
    BY <1>1, <2>1 DEF TaskIsKnown, TreeInv, SitesAreKnown
  <2>4. TreeTypeOK'
    BY <1>1, <1>2, <2>1, <2>2 DEF TreeInv, TreeTypeOK, TreeCallType, DoneType
  <2>5. DeletionShows' /\ DeletionOnItsWay' /\ NewPartOnItsWay'
    BY <2>1, <2>2, TaskParts DEF DeletionShows, DeletionOnItsWay, NewPartOnItsWay
  <2> QED
    BY <1>1, <1>2, <2>2, <2>3, <2>4, <2>5
       DEF TreeInv, DetailsAreSets, NothingDeletedListed, SitesAreKnown, DeletedSiteNotReselected
<1> QED
  BY <1>3, <1>4, <1>5, <1>6

\* What requests lead to.
LEMMA CarriedTree ==
    ASSUME NEW task \in Task, NEW new \in Carried(task), tree \in Tree
    PROVE  /\ new \in Tree /\ tree.used \subseteq new.used
           /\ new.plants \subseteq tree.plants \cup (Plant \ tree.used)
           /\ task.kind = "delete site" => task.of \notin new.plants
           /\ task.kind = "new part" =>
                 /\ task.of \in new.plants
                 /\ \A q \in new.parts \ tree.parts : PlantOf[q] = task.of
<1>1. /\ tree = [plants |-> tree.plants, parts |-> tree.parts, used |-> tree.used]
      /\ tree.plants \subseteq Plant /\ tree.parts \subseteq Part
      /\ tree.used \subseteq Plant \cup Part
      /\ tree.plants \cup tree.parts \subseteq tree.used
      /\ \A p \in tree.parts : PlantOf[p] \in tree.plants
  BY DEF Tree
<1>2. CASE task.kind = "new site"
  <2>1. PICK p \in Plant \ tree.used : new = WithPlant(p)
    BY <1>2 DEF Carried
  <2>2. new = [plants |-> tree.plants \cup {p}, parts |-> tree.parts, used |-> tree.used \cup {p}]
    BY <1>1, <2>1 DEF WithPlant
  <2>3. /\ new.plants = tree.plants \cup {p} /\ new.parts = tree.parts
        /\ new.used = tree.used \cup {p}
    BY <2>2
  <2>4. new \in Tree
    BY <1>1, <2>1, <2>2, <2>3 DEF Tree
  <2> QED
    BY <1>2, <2>1, <2>3, <2>4
<1>3. CASE task.kind = "new part"
  <2>1. PICK p \in Part \ tree.used :
          new = WithPart(p) /\ PlantOf[p] = task.of /\ task.of \in tree.plants
    BY <1>3 DEF Carried
  <2>2. new = [plants |-> tree.plants, parts |-> tree.parts \cup {p}, used |-> tree.used \cup {p}]
    BY <1>1, <2>1 DEF WithPart
  <2>3. /\ new.plants = tree.plants /\ new.parts = tree.parts \cup {p}
        /\ new.used = tree.used \cup {p}
    BY <2>2
  <2>4. new \in Tree
    BY <1>1, <2>1, <2>2, <2>3 DEF Tree
  <2> QED
    BY <1>3, <2>1, <2>3, <2>4
<1>4. CASE task.kind = "delete site"
  <2>1. new = WithoutPlant(task.of)
    BY <1>4 DEF Carried
  <2>2. new = [plants |-> tree.plants \ {task.of},
               parts  |-> {q \in tree.parts : PlantOf[q] # task.of}, used |-> tree.used]
    BY <1>1, <2>1 DEF WithoutPlant
  <2> QED
    BY <1>1, <1>4, <2>2 DEF Tree
<1>5. CASE task.kind = "delete part"
  <2>1. new = WithoutPart(task.part)
    BY <1>5 DEF Carried
  <2>2. new = [plants |-> tree.plants, parts |-> tree.parts \ Within[task.part],
               used |-> tree.used]
    BY <1>1, <2>1 DEF WithoutPart
  <2> QED
    BY <1>1, <1>5, <2>2 DEF Tree
<1>6. CASE task.kind \notin {"new site", "new part", "delete site", "delete part"}
  BY <1>1, <1>6 DEF Carried
<1> QED
  BY <1>2, <1>3, <1>4, <1>5, <1>6

\* A write, by the request in flight or by another administrator.
LEMMA TreeWriteSteps ==
    ASSUME TreeInv, ApplyTask \/ \E task \in Request : OthersTask(task)
    PROVE  TreeInv'
<1> DEFINE Own(task, new) ==
        /\ treeCall.stage = "sent" /\ task = treeCall.task
        /\ WriteTree(new, MakesOrDeletesPart(task) /\ task.of = selected)
        /\ treeCall' = [treeCall EXCEPT !.stage = "done", !.made = new.parts \ tree.parts]
           Others(new) == WriteTree(new, FALSE) /\ treeCall' = treeCall
<1>0. \E task \in Task : \E new \in Carried(task) : Own(task, new) \/ Others(new)
  <2>1. CASE ApplyTask
    <3>1. treeCall.task \in Task
      BY TreeCallParts
    <3> QED
      BY <2>1, <3>1 DEF ApplyTask
  <2>2. ASSUME NEW task \in Request, OthersTask(task)
        PROVE  \E new \in Carried(task) : task \in Task /\ Others(new)
    BY <2>2 DEF OthersTask, Task
  <2> QED
    BY <2>1, <2>2
<1>1. PICK task \in Task : \E new \in Carried(task) : Own(task, new) \/ Others(new)
  BY <1>0
<1>11. PICK new \in Carried(task) : Own(task, new) \/ Others(new)
  BY <1>1
<1>2. /\ tree' = new /\ treeWrites' \in 0 .. MaxTreeWrites
      /\ UNCHANGED <<listQuery, detailQuery, selected, modal>>
  BY <1>11, TreeConstants DEF WriteTree, TreeInv, TreeTypeOK
<1>3. /\ done' \in DoneType /\ done'.last = NoTask /\ done'.deleted = done.deleted
      /\ done'.own = TRUE => Own(task, new) /\ MakesOrDeletesPart(task) /\ task.of = selected
  <2>1. done \in DoneType /\ NoTask \in Task /\ TRUE \in BOOLEAN /\ FALSE \in BOOLEAN
    BY TreeCallParts, TaskParts
  <2>2. \/ done' = [done EXCEPT !.last = NoTask, !.own = FALSE]
        \/ /\ done' = [done EXCEPT !.last = NoTask, !.own = TRUE]
           /\ Own(task, new) /\ MakesOrDeletesPart(task) /\ task.of = selected
    <3>1. CASE Own(task, new) /\ MakesOrDeletesPart(task) /\ task.of = selected
      <4>1. (MakesOrDeletesPart(task) /\ task.of = selected) = TRUE
        BY <3>1
      <4> QED
        BY <3>1, <4>1 DEF WriteTree
    <3>2. CASE Own(task, new) /\ ~(MakesOrDeletesPart(task) /\ task.of = selected)
      <4>1. (MakesOrDeletesPart(task) /\ task.of = selected) = FALSE
        BY <3>2
      <4> QED
        BY <3>2, <4>1 DEF WriteTree
    <3>3. CASE Others(new)
      BY <3>3 DEF WriteTree
    <3> QED
      BY <1>11, <3>1, <3>2, <3>3
  <2> HIDE DEF Own, Others
  <2>3. CASE done' = [done EXCEPT !.last = NoTask, !.own = FALSE]
    <3>1. done' \in DoneType /\ done'.last = NoTask /\ done'.deleted = done.deleted
          /\ done'.own = FALSE
      BY <2>1, <2>3, DoneUpdates
    <3> QED
      BY <3>1
  <2>4. CASE /\ done' = [done EXCEPT !.last = NoTask, !.own = TRUE]
             /\ Own(task, new) /\ MakesOrDeletesPart(task) /\ task.of = selected
    <3>1. done' \in DoneType /\ done'.last = NoTask /\ done'.deleted = done.deleted
      BY <2>1, <2>4, DoneUpdates
    <3> QED
      BY <2>4, <3>1
  <2> QED
    BY <2>2, <2>3, <2>4
<1>4. /\ tree' \in Tree /\ tree.used \subseteq tree'.used
      /\ tree'.plants \subseteq tree.plants \cup (Plant \ tree.used)
      /\ task.kind = "delete site" => task.of \notin tree'.plants
      /\ task.kind = "new part" =>
            /\ task.of \in tree'.plants
            /\ \A q \in tree'.parts \ tree.parts : PlantOf[q] = task.of
  BY <1>11, <1>2, CarriedTree, TreeCallParts
<1>5. /\ treeCall' \in TreeCallType /\ treeCall'.task = treeCall.task
      /\ \/ treeCall' = treeCall
         \/ task = treeCall.task /\ treeCall'.stage = "done"
      /\ Own(task, new) => treeCall'.stage = "done" /\ treeCall'.made = tree'.parts \ tree.parts
  <2>1. treeCall \in TreeCallType
    BY TreeCallParts
  <2>2. new.parts \subseteq Part
    BY <1>2, <1>4 DEF Tree
  <2> QED
    BY <1>11, <1>2, <2>1, <2>2 DEF TreeCallType
<1>6. TreeTypeOK'
  BY <1>2, <1>3, <1>4, <1>5 DEF TreeInv, TreeTypeOK, TreeCallType, DoneType
<1>7. /\ DetailsAreSets' /\ NothingDeletedListed' /\ SitesAreKnown'
      /\ DeletedSiteNotReselected'
  BY <1>2, <1>3, <1>4, <1>5
     DEF TreeInv, DetailsAreSets, NothingDeletedListed, SitesAreKnown, TaskIsKnown, About,
         DeletedSiteNotReselected
<1>8. DeletionOnItsWay'
  <2>1. ASSUME treeCall.task.kind = "delete site" PROVE treeCall.task.of \in tree.used
    BY <2>1, TreeCallParts, TaskParts DEF TreeInv, SitesAreKnown, TaskIsKnown, About
  <2> QED
    BY <1>2, <1>4, <1>5, <2>1 DEF TreeInv, DeletionOnItsWay
<1>9. DeletionShows'
  BY <1>3, TaskParts DEF DeletionShows
<1>10. NewPartOnItsWay'
  <2> SUFFICES ASSUME done'.own = TRUE
               PROVE  /\ selected = treeCall.task.of
                      /\ treeCall.task.kind = "new part" =>
                            /\ selected \in tree'.plants
                            /\ treeCall'.made \subseteq PartsOf(selected)'
                      /\ treeCall'.stage = "done"
    BY <1>2, <1>3, <1>5 DEF NewPartOnItsWay, DoneType
  <2>1. /\ task = treeCall.task /\ task.of = selected
        /\ treeCall'.stage = "done" /\ treeCall'.made = tree'.parts \ tree.parts
    BY <1>3, <1>5
  <2> QED
    BY <1>2, <1>4, <2>1 DEF PartsOf
<1> QED
  BY <1>6, <1>7, <1>8, <1>9, <1>10 DEF TreeInv

\* What a fetch of an entry may do to it, when the tables say value: it is asked,
\* answered, delivered, or it fails.
Moved(q, r, value) ==
    \/ r = q
    \/ r.data = q.data /\ r.fetch = "asked"
    \/ r.data = q.data /\ r.fetch = "answered" /\ r.answer = value
    \/ q.fetch = "answered" /\ r.data = q.answer /\ r.fetch = "idle"
    \/ r.data = q.data /\ r.fetch = "failed"

ListMoves ==
    /\ listQuery' \in Entry(Sites)
    /\ Moved(listQuery, listQuery', [plants |-> tree.plants, parts |-> tree.parts])

DetailsMove ==
    /\ detailQuery' \in [Plant -> Entry(Detail)]
    /\ \A p \in Plant : Moved(detailQuery[p], detailQuery'[p], PartsOf(p))

LEMMA ListMoved ==
    ASSUME TreeInv, UNCHANGED tree, ListMoves
    PROVE  /\ listQuery.data # NoData => listQuery'.data # NoData
           /\ listQuery'.data # NoData => listQuery'.data.plants \subseteq tree.used \ done.deleted
           /\ listQuery'.fetch = "answered" =>
                 /\ listQuery'.answer \in Sites
                 /\ listQuery'.answer.plants \subseteq tree.used \ done.deleted
           /\ ListAgrees => ListAgrees'
<1> DEFINE value == [plants |-> tree.plants, parts |-> tree.parts]
<1>1. /\ value \in Sites /\ value.plants = tree.plants /\ value.parts = tree.parts
      /\ tree.plants \subseteq tree.used \ done.deleted
  BY TreeCallParts DEF Tree, Sites, TreeInv, NothingDeletedListed
<1>2. /\ listQuery.data # NoData => listQuery.data.plants \subseteq tree.used \ done.deleted
      /\ listQuery.fetch = "answered" =>
            /\ listQuery.answer \in Sites /\ listQuery.answer # NoData
            /\ listQuery.answer.plants \subseteq tree.used \ done.deleted
  BY NoSitesAreUndefined DEF TreeInv, NothingDeletedListed
<1>3. Moved(listQuery, listQuery', value)
  BY DEF ListMoves
<1> HIDE DEF value
<1>4. /\ listQuery.data # NoData => listQuery'.data # NoData
      /\ listQuery'.data # NoData => listQuery'.data.plants \subseteq tree.used \ done.deleted
      /\ listQuery'.fetch = "answered" =>
            /\ listQuery'.answer \in Sites
            /\ listQuery'.answer.plants \subseteq tree.used \ done.deleted
  BY <1>1, <1>2, <1>3 DEF Moved
<1>5. ListAgrees => ListAgrees'
  BY <1>1, <1>3 DEF Moved, ListAgrees
<1> QED
  BY <1>4, <1>5

LEMMA DetailsMoved ==
    ASSUME TreeInv, UNCHANGED tree, DetailsMove
    PROVE  /\ DetailsAreSets'
           /\ \A p \in Plant : detailQuery[p].data # NoData => detailQuery'[p].data # NoData
           /\ \A p \in tree.plants : DetailAgrees(p) => DetailAgrees(p)'
<1>1. \A p \in Plant : PartsOf(p) \in Detail
  BY TreeCallParts DEF Tree, PartsOf, Detail
<1>2. \A p \in Plant : detailQuery[p].fetch = "answered" =>
          detailQuery[p].answer \in Detail /\ detailQuery[p].answer # NoData
  BY NoSitesAreUndefined DEF TreeInv, DetailsAreSets
<1>3. tree.plants \subseteq Plant
  BY TreeCallParts DEF Tree
<1>4. DetailsAreSets'
  BY <1>1, <1>2 DEF DetailsMove, Moved, DetailsAreSets
<1>5. \A p \in Plant : detailQuery[p].data # NoData => detailQuery'[p].data # NoData
  BY <1>2 DEF DetailsMove, Moved
<1>6. ASSUME NEW p \in tree.plants, DetailAgrees(p)
      PROVE  DetailAgrees(p)'
  <2>1. p \in Plant /\ PartsOf(p)' = PartsOf(p)
    BY <1>3 DEF PartsOf
  <2>2. Moved(detailQuery[p], detailQuery'[p], PartsOf(p))
    BY <2>1 DEF DetailsMove
  <2> QED
    BY <1>6, <2>1, <2>2 DEF Moved, DetailAgrees
<1> QED
  BY <1>4, <1>5, <1>6

\* A fetch that no request waits for.
LEMMA FetchAlone ==
    ASSUME TreeInv, TablesAlone, ListMoves, DetailsMove,
           UNCHANGED <<treeCall, modal, selected, done>>,
           treeCall.stage = "settling" /\ treeCall.task.kind = "delete site" =>
                listQuery'.fetch \in {"asked", "answered"},
           done.own /\ treeCall.stage = "settling" /\ treeCall.task.kind = "new part" =>
                detailQuery'[selected].fetch \in {"asked", "answered"}
    PROVE  TreeInv'
<1>1. UNCHANGED tree
  BY DEF TablesAlone
<1>2. TreeTypeOK'
  BY DEF TablesAlone, ListMoves, DetailsMove, TreeInv, TreeTypeOK
<1>3. DetailsAreSets' /\ NothingDeletedListed' /\ DeletedSiteNotReselected'
  BY <1>1, ListMoved, DetailsMoved
     DEF TreeInv, NothingDeletedListed, DeletedSiteNotReselected
<1>4. SitesAreKnown'
  <2>1. \A task \in {modal, treeCall.task} : task.of \in Plant \cup {NoPlant}
    BY TreeCallParts, TaskParts
  <2> QED
    BY <1>1, <2>1, ListMoved, DetailsMoved DEF TreeInv, SitesAreKnown, TaskIsKnown, About
<1>5. DeletionShows'
  BY <1>1, ListMoved, DetailsMoved DEF TreeInv, DeletionShows
<1>6. DeletionOnItsWay'
  <2> SUFFICES ASSUME treeCall.task.kind = "delete site", treeCall.stage \in {"done", "settling"}
               PROVE  /\ treeCall.task.of \notin tree.plants
                      /\ treeCall.stage = "settling" =>
                            \/ listQuery'.fetch = "asked"
                            \/ /\ listQuery'.fetch = "answered"
                               /\ treeCall.task.of \notin listQuery'.answer.plants
    BY <1>1 DEF DeletionOnItsWay
  <2>1. /\ treeCall.task.of \notin tree.plants
        /\ treeCall.stage = "settling" =>
              \/ listQuery.fetch = "asked"
              \/ listQuery.fetch = "answered" /\ treeCall.task.of \notin listQuery.answer.plants
    BY DEF TreeInv, DeletionOnItsWay
  <2>2. [plants |-> tree.plants, parts |-> tree.parts].plants = tree.plants
    OBVIOUS
  <2>3. \/ listQuery' = listQuery \/ listQuery'.fetch \in {"asked", "idle", "failed"}
        \/ listQuery'.fetch = "answered" /\ listQuery'.answer.plants = tree.plants
    BY <2>2 DEF ListMoves, Moved
  <2> QED
    BY <2>1, <2>3
<1>7. NewPartOnItsWay'
  <2> SUFFICES ASSUME done.own, treeCall.stage \in {"done", "settling"}
               PROVE  /\ selected = treeCall.task.of
                      /\ treeCall.task.kind = "new part" =>
                            /\ selected \in tree.plants
                            /\ treeCall.made \subseteq PartsOf(selected)
                            /\ treeCall.stage = "settling" =>
                                  \/ detailQuery'[selected].fetch = "asked"
                                  \/ /\ detailQuery'[selected].fetch = "answered"
                                     /\ treeCall.made \subseteq detailQuery'[selected].answer
    BY <1>1 DEF NewPartOnItsWay, PartsOf
  <2>1. /\ selected = treeCall.task.of
        /\ treeCall.task.kind = "new part" =>
              /\ selected \in tree.plants
              /\ treeCall.made \subseteq PartsOf(selected)
    BY DEF TreeInv, NewPartOnItsWay
  <2>2. ASSUME treeCall.task.kind = "new part", treeCall.stage = "settling"
        PROVE  \/ detailQuery'[selected].fetch = "asked"
               \/ /\ detailQuery'[selected].fetch = "answered"
                  /\ treeCall.made \subseteq detailQuery'[selected].answer
    <3>1. selected \in Plant /\ selected \in tree.plants
      BY <2>1, <2>2, TreeCallParts DEF Tree
    <3>2. Moved(detailQuery[selected], detailQuery'[selected], PartsOf(selected))
      BY <3>1 DEF DetailsMove
    <3>3. \/ detailQuery[selected].fetch = "asked"
          \/ /\ detailQuery[selected].fetch = "answered"
             /\ treeCall.made \subseteq detailQuery[selected].answer
      BY <2>2 DEF TreeInv, NewPartOnItsWay
    <3>4. detailQuery'[selected].fetch \in {"asked", "answered"}
      BY <2>2, <3>1
    <3> QED
      BY <2>1, <2>2, <3>2, <3>3, <3>4 DEF Moved
  <2> QED
    BY <2>1, <2>2
<1> QED
  BY <1>2, <1>3, <1>4, <1>5, <1>6, <1>7 DEF TreeInv

\* The page goes on after a request: what it may have deleted is in no list, and what
\* it did is shown, or asked for.
LEMMA GoesOnDone ==
    ASSUME TreeInv, GoesOn(treeCall.task)
    PROVE  /\ treeCall' = NoTreeCall /\ modal' \in {modal, NoTask}
           /\ selected' = IF treeCall.task.kind = "delete site" THEN NoPlant ELSE selected
           /\ done' \in DoneType /\ done'.own = FALSE
           /\ done'.last = (IF done.own /\ treeCall.task.kind = "delete part"
                            THEN treeCall.task ELSE NoTask)
           /\ done'.deleted = IF treeCall.task.kind = "delete site" /\ listQuery'.fetch # "failed"
                              THEN done.deleted \cup {treeCall.task.of} ELSE done.deleted
<1> DEFINE last    == IF done.own /\ treeCall.task.kind = "delete part"
                      THEN treeCall.task ELSE NoTask
           deleted == IF treeCall.task.kind = "delete site" /\ listQuery'.fetch # "failed"
                      THEN done.deleted \cup {treeCall.task.of} ELSE done.deleted
<1>1. done \in DoneType /\ last \in Task
  BY TreeCallParts, TaskParts
<1>2. deleted \in SUBSET Plant
  <2>1. treeCall.task.kind = "delete site" => treeCall.task.of \in Plant
    BY TreeCallParts, TaskParts
  <2> QED
    BY <1>1, <2>1 DEF DoneType
<1>3. done' = [done EXCEPT !.last = last, !.own = FALSE, !.deleted = deleted]
  BY DEF GoesOn
<1>4. done' \in DoneType /\ done'.own = FALSE /\ done'.last = last /\ done'.deleted = deleted
  <2> HIDE DEF last, deleted
  <2> QED
    BY <1>1, <1>2, <1>3 DEF DoneType
<1> QED
  BY <1>4 DEF GoesOn

LEMMA PageGoesOn ==
    ASSUME TreeInv, TablesAlone, ListMoves, DetailsMove, GoesOn(treeCall.task),
           treeCall.stage \in {"done", "settling"},
           treeCall.task.kind = "delete site" /\ listQuery'.fetch # "failed" =>
                /\ listQuery'.data # NoData => treeCall.task.of \notin listQuery'.data.plants
                /\ listQuery'.fetch # "answered",
           done.own /\ treeCall.task.kind = "delete part" =>
                listQuery'.fetch = "asked" /\ detailQuery'[selected].fetch = "asked"
    PROVE  TreeInv'
<1>1. UNCHANGED tree
  BY DEF TablesAlone
<1>2. /\ treeCall' = NoTreeCall /\ modal' \in {modal, NoTask}
      /\ selected' = IF treeCall.task.kind = "delete site" THEN NoPlant ELSE selected
      /\ done' \in DoneType /\ done'.own = FALSE
      /\ done'.last = (IF done.own /\ treeCall.task.kind = "delete part"
                       THEN treeCall.task ELSE NoTask)
      /\ done'.deleted = IF treeCall.task.kind = "delete site" /\ listQuery'.fetch # "failed"
                         THEN done.deleted \cup {treeCall.task.of} ELSE done.deleted
  BY GoesOnDone
<1>3. /\ treeCall'.stage = "none" /\ treeCall'.task = NoTask /\ treeCall' \in TreeCallType
      /\ NoTask \in Task /\ NoTask.kind = "none" /\ NoTask.of = NoPlant
  BY <1>2, TaskParts DEF NoTreeCall, TreeCallType
<1>4. modal' \in Task /\ selected' \in Plant \cup {NoPlant}
  BY <1>2, <1>3, TreeCallParts DEF TreeInv, TreeTypeOK
<1>5. TreeTypeOK'
  BY <1>2, <1>3, <1>4 DEF TablesAlone, ListMoves, DetailsMove, TreeInv, TreeTypeOK, TreeCallType,
                          DoneType
<1>6. treeCall.task.kind = "delete site" =>
          treeCall.task.of \in tree.used \ tree.plants /\ treeCall.task.of # NoPlant
  BY TreeCallParts, TaskParts
     DEF TreeInv, DeletionOnItsWay, SitesAreKnown, TaskIsKnown, About
<1>7. DetailsAreSets' /\ NothingDeletedListed'
  BY <1>1, <1>2, <1>6, ListMoved, DetailsMoved DEF TreeInv, NothingDeletedListed
<1>8. DeletedSiteNotReselected'
  <2>1. NoPlant \notin done'.deleted
    BY <1>2, TreeConstants DEF DoneType
  <2> QED
    BY <1>2, <2>1 DEF TreeInv, DeletedSiteNotReselected
<1>9. SitesAreKnown'
  <2>1. modal.of \in Plant \cup {NoPlant} /\ TaskIsKnown(modal)
    BY TreeCallParts, TaskParts DEF TreeInv, SitesAreKnown
  <2>2. TaskIsKnown(modal)'
    BY <1>1, <1>2, <1>3, <2>1, ListMoved, DetailsMoved DEF TaskIsKnown, About
  <2>3. TaskIsKnown(treeCall.task)'
    BY <1>3 DEF TaskIsKnown, About
  <2>4. selected' \in tree.used \cup {NoPlant} /\ (listQuery'.data = NoData => selected' = NoPlant)
    BY <1>1, <1>2, ListMoved DEF TreeInv, SitesAreKnown
  <2> QED
    BY <1>1, <2>2, <2>3, <2>4 DEF SitesAreKnown
<1>10. DeletionOnItsWay' /\ NewPartOnItsWay'
  BY <1>3 DEF DeletionOnItsWay, NewPartOnItsWay
<1>11. DeletionShows'
  <2> SUFFICES ASSUME done'.last.kind = "delete part"
               PROVE  ListAgrees' /\ (selected' \in tree.plants => DetailAgrees(selected)')
    BY <1>1, <1>3 DEF DeletionShows
  <2>1. done.own /\ treeCall.task.kind = "delete part"
    BY <1>2, <1>3
  <2>2. selected' = selected
    BY <1>2, <2>1
  <2>3. tree.plants \subseteq Plant
    BY TreeCallParts DEF Tree
  <2> QED
    BY <2>1, <2>2, <2>3 DEF ListAgrees, DetailAgrees
<1> QED
  BY <1>5, <1>7, <1>8, <1>9, <1>10, <1>11 DEF TreeInv

\* The page waits for the refetch its reply caused.
LEMMA PageSettles ==
    ASSUME TreeInv, TablesAlone, ListMoves, DetailsMove,
           treeCall.stage = "done", treeCall' = [treeCall EXCEPT !.stage = "settling"],
           UNCHANGED <<modal, selected, done>>,
           treeCall.task.kind = "delete site" => listQuery'.fetch = "asked",
           done.own /\ treeCall.task.kind = "new part" => detailQuery'[selected].fetch = "asked"
    PROVE  TreeInv'
<1>1. /\ UNCHANGED tree /\ treeCall' \in TreeCallType
      /\ treeCall'.stage = "settling" /\ treeCall'.task = treeCall.task
      /\ treeCall'.made = treeCall.made
  BY TreeCallParts DEF TablesAlone, TreeCallType
<1>2. TreeTypeOK'
  BY <1>1 DEF TablesAlone, ListMoves, DetailsMove, TreeInv, TreeTypeOK, TreeCallType
<1>3. DetailsAreSets' /\ NothingDeletedListed' /\ DeletedSiteNotReselected'
  BY <1>1, ListMoved, DetailsMoved
     DEF TreeInv, NothingDeletedListed, DeletedSiteNotReselected
<1>4. SitesAreKnown'
  <2>1. \A task \in {modal, treeCall.task} : task.of \in Plant \cup {NoPlant}
    BY TreeCallParts, TaskParts
  <2> QED
    BY <1>1, <2>1, ListMoved, DetailsMoved DEF TreeInv, SitesAreKnown, TaskIsKnown, About
<1>5. DeletionShows'
  BY <1>1 DEF TreeInv, DeletionShows
<1>6. DeletionOnItsWay'
  BY <1>1 DEF TreeInv, DeletionOnItsWay
<1>7. NewPartOnItsWay'
  BY <1>1 DEF TreeInv, NewPartOnItsWay, PartsOf
<1> QED
  BY <1>2, <1>3, <1>4, <1>5, <1>6, <1>7 DEF TreeInv

LEMMA ListStands == TreeInv /\ UNCHANGED listQuery => ListMoves
BY TreeCallParts DEF ListMoves, Moved

LEMMA DetailsStand == TreeInv /\ UNCHANGED detailQuery => DetailsMove
BY TreeCallParts DEF DetailsMove, Moved

\* A list or a detail that a request waits for is on its way.
LEMMA Awaited ==
    ASSUME TreeInv, treeCall.stage = "settling"
    PROVE  /\ treeCall.task.kind = "delete site" => listQuery.fetch \in {"asked", "answered"}
           /\ done.own /\ treeCall.task.kind = "new part" =>
                 detailQuery[selected].fetch \in {"asked", "answered"}
BY DEF TreeInv, DeletionOnItsWay, NewPartOnItsWay

LEMMA SiteListSteps ==
    ASSUME TreeInv, RefetchList \/ AnswerList \/ DeliverList \/ FailList
    PROVE  TreeInv'
<1>1. listQuery \in Entry(Sites) /\ [plants |-> tree.plants, parts |-> tree.parts] \in Sites
  BY TreeCallParts DEF Tree, Sites
<1>2. TablesAlone /\ UNCHANGED detailQuery
  BY DEF RefetchList, AnswerList, DeliverList, FailList
<1>3. DetailsMove
  BY <1>2, DetailsStand
<1>4. CASE RefetchList \/ AnswerList
  <2>1. /\ listQuery' \in Entry(Sites) /\ ListMoves
        /\ listQuery'.fetch \in {"asked", "answered"}
    <3>1. CASE RefetchList
      <4>1. listQuery' = Ask(listQuery)
        BY <3>1 DEF RefetchList
      <4>2. /\ listQuery' \in Entry(Sites) /\ listQuery'.data = listQuery.data
            /\ listQuery'.fetch = "asked" \/ listQuery' = listQuery
            /\ listQuery'.fetch \in {"asked", "answered"}
        BY <1>1, <4>1, AskedEntry, EntryParts DEF Ask, AtRest
      <4> QED
        BY <4>2 DEF ListMoves, Moved
    <3>2. CASE AnswerList
      BY <1>1, <3>2, AnsweredEntry DEF AnswerList, ListMoves, Moved
    <3> QED
      BY <1>4, <3>1, <3>2
  <2>2. UNCHANGED <<treeCall, modal, selected, done>>
    BY <1>4 DEF RefetchList, AnswerList
  <2> QED
    BY <1>2, <1>3, <2>1, <2>2, Awaited, FetchAlone
<1>5. CASE DeliverList \/ FailList
  <2>1. /\ listQuery' \in Entry(Sites)
        /\ \/ /\ listQuery.fetch = "answered"
              /\ listQuery'.data = listQuery.answer /\ listQuery'.fetch = "idle"
           \/ listQuery'.data = listQuery.data /\ listQuery'.fetch = "failed"
    BY <1>1, <1>5, DeliveredEntry, FailedEntry DEF DeliverList, FailList
  <2>2. ListMoves
    BY <2>1 DEF ListMoves, Moved
  <2>3. GoesOnIf(AwaitsList(treeCall.task))
    BY <1>5 DEF DeliverList, FailList
  <2>4. CASE treeCall.stage = "settling" /\ AwaitsList(treeCall.task)
    <3>1. GoesOn(treeCall.task)
      BY <2>3, <2>4 DEF GoesOnIf
    <3>2. treeCall.task.kind = "delete site" /\ listQuery'.fetch # "failed" =>
              treeCall.task.of \notin listQuery'.data.plants
      BY <2>1, <2>4 DEF TreeInv, DeletionOnItsWay
    <3>3. treeCall.task.kind # "delete part"
      BY <2>4 DEF AwaitsList
    <3> QED
      BY <1>2, <1>3, <2>1, <2>2, <2>4, <3>1, <3>2, <3>3, PageGoesOn
  <2>5. CASE ~(treeCall.stage = "settling" /\ AwaitsList(treeCall.task))
    <3>1. UNCHANGED <<treeCall, modal, selected, done>>
      BY <2>3, <2>5 DEF GoesOnIf
    <3>2. ~(treeCall.stage = "settling" /\ treeCall.task.kind = "delete site")
      BY <2>5 DEF AwaitsList
    <3> QED
      BY <1>2, <1>3, <2>2, <3>1, <3>2, Awaited, FetchAlone
  <2> QED
    BY <2>4, <2>5
<1> QED
  BY <1>4, <1>5

\* One detail changes.
LEMMA OneDetailMoves ==
    ASSUME TreeInv, NEW p \in Plant, NEW q \in Entry(Detail),
           detailQuery' = [detailQuery EXCEPT ![p] = q],
           Moved(detailQuery[p], q, PartsOf(p))
    PROVE  /\ DetailsMove /\ detailQuery'[p] = q
           /\ \A r \in Plant \ {p} : detailQuery'[r] = detailQuery[r]
BY TreeCallParts DEF DetailsMove, Moved

LEMMA SiteDetailSteps ==
    ASSUME TreeInv,
           RefetchDetail
           \/ \E p \in Plant : AnswerDetail(p) \/ DeliverDetail(p) \/ FailDetail(p)
    PROVE  TreeInv'
<1>1. /\ detailQuery \in [Plant -> Entry(Detail)]
      /\ \A p \in Plant : detailQuery[p] \in Entry(Detail) /\ PartsOf(p) \in Detail
      /\ selected \in Plant \cup {NoPlant} /\ NoPlant \notin Plant
  BY TreeCallParts, TreeConstants DEF Tree, PartsOf, Detail, TreeInv, TreeTypeOK
<1>2. TablesAlone /\ UNCHANGED listQuery
  BY DEF RefetchDetail, AnswerDetail, DeliverDetail, FailDetail
<1>3. ListMoves
  BY <1>2, ListStands
\* A step that no request waits for: the detail is on its way, or no request does.
<1>4. ASSUME NEW p \in Plant, NEW q \in Entry(Detail),
             detailQuery' = [detailQuery EXCEPT ![p] = q],
             Moved(detailQuery[p], q, PartsOf(p)),
             IF q.fetch \in {"idle", "failed"} THEN GoesOnAt(p)
             ELSE UNCHANGED <<treeCall, modal, selected, done>>
      PROVE  TreeInv'
  <2>1. /\ DetailsMove /\ detailQuery'[p] = q
        /\ \A r \in Plant \ {p} : detailQuery'[r] = detailQuery[r]
    BY <1>4, OneDetailMoves
  <2>2. CASE /\ p = selected /\ q.fetch \in {"idle", "failed"}
             /\ treeCall.stage = "settling" /\ AwaitsDetail(treeCall.task)
    <3>1. GoesOn(treeCall.task) /\ treeCall.task.kind \in {"new part", "edit part"}
      BY <1>4, <2>2 DEF GoesOnAt, GoesOnIf, AwaitsDetail
    <3> QED
      BY <1>2, <1>3, <2>1, <2>2, <3>1, PageGoesOn
  <2>3. CASE ~(/\ p = selected /\ q.fetch \in {"idle", "failed"}
               /\ treeCall.stage = "settling" /\ AwaitsDetail(treeCall.task))
    <3>1. UNCHANGED <<treeCall, modal, selected, done>>
      BY <1>4, <2>3 DEF GoesOnAt, GoesOnIf
    <3>2. done.own /\ treeCall.stage = "settling" /\ treeCall.task.kind = "new part" =>
              detailQuery'[selected].fetch \in {"asked", "answered"}
      <4> SUFFICES ASSUME done.own, treeCall.stage = "settling", treeCall.task.kind = "new part"
                   PROVE  detailQuery'[selected].fetch \in {"asked", "answered"}
        OBVIOUS
      <4>1. selected \in Plant
        BY <1>1, TreeCallParts DEF TreeInv, NewPartOnItsWay, Tree
      <4>2. CASE selected = p
        BY <2>1, <2>3, <4>2, EntryParts DEF AwaitsDetail
      <4>3. CASE selected # p
        BY <2>1, <4>1, <4>3, Awaited
      <4> QED
        BY <4>2, <4>3
    <3> QED
      BY <1>2, <1>3, <2>1, <3>1, <3>2, Awaited, FetchAlone
  <2> QED
    BY <2>2, <2>3
<1>5. CASE RefetchDetail
  <2>1. /\ selected \in Plant /\ detailQuery' = [detailQuery EXCEPT ![selected] =
                                                    Ask(detailQuery[selected])]
        /\ UNCHANGED <<treeCall, modal, selected, done>>
    BY <1>1, <1>5 DEF RefetchDetail
  <2>2. /\ Ask(detailQuery[selected]) \in Entry(Detail)
        /\ Moved(detailQuery[selected], Ask(detailQuery[selected]), PartsOf(selected))
        /\ Ask(detailQuery[selected]).fetch \notin {"idle", "failed"}
    BY <1>1, <2>1, AskedEntry DEF Moved, Ask, AtRest
  <2> QED
    BY <1>4, <2>1, <2>2
<1>6. ASSUME NEW p \in Plant, AnswerDetail(p)
      PROVE  TreeInv'
  <2> DEFINE q == Answer(detailQuery[p], PartsOf(p))
  <2>1. /\ detailQuery' = [detailQuery EXCEPT ![p] = q]
        /\ UNCHANGED <<treeCall, modal, selected, done>>
    BY <1>6 DEF AnswerDetail, PartsOf
  <2>2. q \in Entry(Detail) /\ q.fetch = "answered" /\ Moved(detailQuery[p], q, PartsOf(p))
    BY <1>1, AnsweredEntry DEF Moved
  <2> HIDE DEF q
  <2> QED
    BY <1>4, <2>1, <2>2
<1>7. ASSUME NEW p \in Plant, DeliverDetail(p)
      PROVE  TreeInv'
  <2> DEFINE q == Deliver(detailQuery[p])
  <2>1. /\ detailQuery' = [detailQuery EXCEPT ![p] = q] /\ detailQuery[p].fetch = "answered"
        /\ GoesOnAt(p)
    BY <1>7 DEF DeliverDetail
  <2>2. q \in Entry(Detail) /\ q.fetch = "idle" /\ Moved(detailQuery[p], q, PartsOf(p))
    BY <1>1, <2>1, DeliveredEntry DEF Moved
  <2> HIDE DEF q
  <2> QED
    BY <1>4, <2>1, <2>2
<1>8. ASSUME NEW p \in Plant, FailDetail(p)
      PROVE  TreeInv'
  <2> DEFINE q == Fail(detailQuery[p])
  <2>1. detailQuery' = [detailQuery EXCEPT ![p] = q] /\ GoesOnAt(p)
    BY <1>8 DEF FailDetail
  <2>2. q \in Entry(Detail) /\ q.fetch = "failed" /\ Moved(detailQuery[p], q, PartsOf(p))
    BY <1>1, FailedEntry DEF Moved
  <2> HIDE DEF q
  <2> QED
    BY <1>4, <2>1, <2>2
<1> QED
  BY <1>5, <1>6, <1>7, <1>8

\* The reply: what the hook invalidates was delivered before, and is asked for anew.
LEMMA TaskRepliedStep ==
    ASSUME TreeInv, TaskReplied
    PROVE  TreeInv'
<1>1. /\ listQuery \in Entry(Sites) /\ detailQuery \in [Plant -> Entry(Detail)]
      /\ treeCall.task \in Task /\ selected \in Plant \cup {NoPlant} /\ NoPlant \notin Plant
  BY TreeCallParts, TreeConstants DEF TreeInv, TreeTypeOK
<1>2. /\ TablesAlone /\ treeCall.stage = "done"
      /\ listQuery' = IF InvalidatesList(treeCall.task) THEN Invalidate(listQuery, TRUE)
                      ELSE listQuery
      /\ detailQuery' = IF InvalidatesDetail(treeCall.task) /\ selected # NoPlant
                        THEN [detailQuery EXCEPT ![selected] =
                                Invalidate(detailQuery[selected], TRUE)]
                        ELSE detailQuery
      /\ IF AwaitsList(treeCall.task) \/ (AwaitsDetail(treeCall.task) /\ selected # NoPlant)
         THEN treeCall' = [treeCall EXCEPT !.stage = "settling"]
              /\ UNCHANGED <<modal, selected, done>>
         ELSE GoesOn(treeCall.task)
  BY DEF TaskReplied
<1>3. /\ ListMoves /\ listQuery' \in Entry(Sites)
      /\ InvalidatesList(treeCall.task) /\ listQuery.data # NoData => listQuery'.fetch = "asked"
  <2>1. CASE InvalidatesList(treeCall.task)
    BY <1>1, <1>2, <2>1, InvalidatedEntry DEF ListMoves, Moved
  <2>2. CASE ~InvalidatesList(treeCall.task)
    BY <1>1, <1>2, <2>2 DEF ListMoves, Moved
  <2> QED
    BY <2>1, <2>2
<1>4. /\ DetailsMove
      /\ InvalidatesDetail(treeCall.task) /\ selected \in Plant
            /\ detailQuery[selected].data # NoData => detailQuery'[selected].fetch = "asked"
  <2>1. CASE InvalidatesDetail(treeCall.task) /\ selected # NoPlant
    <3> DEFINE q == Invalidate(detailQuery[selected], TRUE)
    <3>1. selected \in Plant /\ detailQuery[selected] \in Entry(Detail)
      BY <1>1, <2>1
    <3>2. detailQuery' = [detailQuery EXCEPT ![selected] = q]
      BY <1>2, <2>1
    <3>3. /\ q \in Entry(Detail) /\ Moved(detailQuery[selected], q, PartsOf(selected))
          /\ detailQuery[selected].data # NoData => q.fetch = "asked"
      BY <3>1, InvalidatedEntry DEF Moved
    <3> HIDE DEF q
    <3>4. DetailsMove /\ detailQuery'[selected] = q
      BY <3>1, <3>2, <3>3, OneDetailMoves
    <3> QED
      BY <3>3, <3>4
  <2>2. CASE ~(InvalidatesDetail(treeCall.task) /\ selected # NoPlant)
    <3>1. DetailsMove
      BY <1>2, <2>2, DetailsStand
    <3> QED
      BY <1>1, <2>2, <3>1
  <2> QED
    BY <2>1, <2>2
<1>5. /\ treeCall.task.kind \in {"delete site", "new part", "delete part"} =>
            /\ listQuery.data # NoData /\ detailQuery[treeCall.task.of].data # NoData
            /\ treeCall.task.of \in Plant /\ About(treeCall.task)
  BY <1>1, TaskParts DEF TreeInv, SitesAreKnown, TaskIsKnown, About
<1>6. done.own => selected = treeCall.task.of
  BY <1>2 DEF TreeInv, NewPartOnItsWay
<1>7. CASE AwaitsList(treeCall.task) \/ (AwaitsDetail(treeCall.task) /\ selected # NoPlant)
  <2>1. treeCall.task.kind = "delete site" => listQuery'.fetch = "asked"
    BY <1>3, <1>5 DEF InvalidatesList
  <2>2. done.own /\ treeCall.task.kind = "new part" => detailQuery'[selected].fetch = "asked"
    BY <1>4, <1>5, <1>6 DEF InvalidatesDetail
  <2> QED
    BY <1>2, <1>3, <1>4, <1>7, <2>1, <2>2, PageSettles
<1>8. CASE ~(AwaitsList(treeCall.task) \/ (AwaitsDetail(treeCall.task) /\ selected # NoPlant))
  <2>1. GoesOn(treeCall.task) /\ treeCall.task.kind # "delete site"
    BY <1>2, <1>8 DEF AwaitsList
  <2>2. done.own /\ treeCall.task.kind = "delete part" =>
            listQuery'.fetch = "asked" /\ detailQuery'[selected].fetch = "asked"
    BY <1>3, <1>4, <1>5, <1>6 DEF InvalidatesList, InvalidatesDetail
  <2> QED
    BY <1>2, <1>3, <1>4, <2>1, <2>2, PageGoesOn
<1> QED
  BY <1>7, <1>8

LEMMA TreeSteps == TreeInv /\ [TreeNext]_treeVars => TreeInv'
<1> SUFFICES ASSUME TreeInv, [TreeNext]_treeVars PROVE TreeInv'
  OBVIOUS
<1>1. ASSUME NEW p \in Plant, SelectPlant(p) \/ SelectFirst(p)
      PROVE  TreeInv'
  BY <1>1, ShowStep DEF SelectPlant, SelectFirst
<1> QED
  BY <1>1, DialogSteps, TreeWriteSteps, SiteListSteps, SiteDetailSteps, TaskRepliedStep DEF TreeNext

\* A site whose deletion the page waited for is not selected again, unless the refetch
\* of the list that it waited for failed, for any number of sites and of administrators.
THEOREM DeletedSitesStayUnselected == TreeSpec => []DeletedSiteNotReselected
<1>1. TreeInit => TreeInv
  BY TreeStart
<1>2. TreeInv => DeletedSiteNotReselected
  BY DEF TreeInv
<1> QED
  BY <1>1, <1>2, TreeSteps, PTL DEF TreeSpec

\* After a line or a machine was deleted, when nothing is on its way and the last fetches
\* did not fail, the list and the detail say of lines and machines what the tables say.
THEOREM DeletionsAreShownInBoth == TreeSpec => []DeletionShownInBoth
<1>1. TreeInit => TreeInv
  BY TreeStart
<1>2. TreeInv => DeletionShownInBoth
  BY DEF TreeInv, DeletionShows, DeletionShownInBoth, ListAgrees, DetailAgrees, PartsOf
<1> QED
  BY <1>1, <1>2, TreeSteps, PTL DEF TreeSpec

\* When a dialog that created a line or a machine closes by itself, the detail behind it
\* shows the new one, unless the refetch it waited for failed.
THEOREM NewPartsAreShown == TreeSpec => NewPartIsShown
<1> DEFINE Shown == /\ treeCall.task.kind = "new part" /\ treeCall' = NoTreeCall
                    /\ modal # NoTask /\ modal' = NoTask
                    /\ done.own /\ selected = treeCall.task.of
                    /\ detailQuery'[selected].fetch # "failed"
                    => treeCall.made \subseteq detailQuery'[selected].data
<1>1. TreeInit => TreeInv
  BY TreeStart
<1>2. TreeInv /\ [TreeNext]_treeVars => [Shown]_treeVars
  <2> SUFFICES ASSUME TreeInv, TreeNext,
                      treeCall.task.kind = "new part", treeCall' = NoTreeCall,
                      modal # NoTask, modal' = NoTask,
                      done.own, selected = treeCall.task.of,
                      detailQuery'[selected].fetch # "failed"
               PROVE  treeCall.made \subseteq detailQuery'[selected].data
    OBVIOUS
  <2>1. /\ selected \in Plant /\ NoPlant \notin Plant /\ NoTask.kind = "none"
        /\ NoTreeCall.stage = "none" /\ NoTreeCall.task.kind = "none"
    BY TreeCallParts, TaskParts, TreeConstants DEF NoTreeCall
  <2>2. treeCall' # treeCall /\ treeCall'.stage = "none"
    BY <2>1
  \* Only the end of a fetch of the detail that is shown closes the dialog.
  <2>3. ASSUME NEW p \in Plant, DeliverDetail(p)
        PROVE  treeCall.made \subseteq detailQuery'[selected].data
    <3>1. /\ p = selected /\ treeCall.stage = "settling" /\ detailQuery[p].fetch = "answered"
          /\ detailQuery' = [detailQuery EXCEPT ![p] = Deliver(detailQuery[p])]
      BY <2>2, <2>3 DEF DeliverDetail, GoesOnAt, GoesOnIf
    <3>2. treeCall.made \subseteq detailQuery[p].answer
      BY <3>1 DEF TreeInv, NewPartOnItsWay
    <3>3. detailQuery'[p].data = detailQuery[p].answer
      BY <3>1, TreeCallParts, DeliveredEntry
    <3> QED
      BY <3>1, <3>2, <3>3
  <2>4. ASSUME NEW p \in Plant, FailDetail(p)
        PROVE  FALSE
    <3>1. p = selected /\ detailQuery' = [detailQuery EXCEPT ![p] = Fail(detailQuery[p])]
      BY <2>2, <2>4 DEF FailDetail, GoesOnAt
    <3> QED
      BY <3>1, TreeCallParts, FailedEntry
  <2>5. ~DeliverList /\ ~FailList
    BY <2>2 DEF DeliverList, FailList, GoesOnIf, AwaitsList
  <2>6. ~TaskReplied
    <3>1. treeCall' # [treeCall EXCEPT !.stage = "settling"]
      BY <2>2, TreeCallParts DEF TreeCallType
    <3> QED
      BY <2>1, <3>1 DEF TaskReplied, AwaitsDetail
  <2>7. ~TaskFails
    BY DEF TaskFails
  <2>8. ~ApplyTask
    BY <2>2, TreeCallParts DEF ApplyTask, TreeCallType
  <2>9. ~Confirm
    BY <2>2 DEF Confirm
  <2>10. ~(\/ \E p \in Plant : SelectPlant(p) \/ SelectFirst(p) \/ AnswerDetail(p)
           \/ \E task \in Request : OpenModal(task) \/ OthersTask(task)
           \/ CloseModal \/ RefetchList \/ RefetchDetail \/ AnswerList)
    BY <2>2 DEF SelectPlant, SelectFirst, OpenModal, OthersTask, CloseModal, RefetchList,
                RefetchDetail, AnswerList, AnswerDetail, PageOnly
  <2> QED
    BY <2>3, <2>4, <2>5, <2>6, <2>7, <2>8, <2>9, <2>10 DEF TreeNext
<1> QED
  BY <1>1, <1>2, TreeSteps, PTL DEF TreeSpec, NewPartIsShown
=============================================================================
