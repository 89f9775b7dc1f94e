--------------------------- MODULE ConsoleProofs ---------------------------
(***************************************************************************)
(* The pages with a form whose rows others write too: RegisterEditor,      *)
(* AlertRulesEditor, ChartWidget and WidgetForm.  Then Console: it runs    *)
(* every page as the page's own specification says, so that what is proved *)
(* of a page holds in it.                                                  *)
(***************************************************************************)
EXTENDS Console, EditorProofs, ListProofs, SessionProofs, SequenceTheorems

-----------------------------------------------------------------------------
(***************************************************************************)
(* RegisterEditor.  Rows that were not touched since a save was clicked    *)
(* are those that were sent, or those the table was filled from since.  An *)
(* open table is filled from the data of its entry; and from the reply to  *)
(* the last write on, the entry is asked for or has what the row has, or   *)
(* its last fetch failed.                                                  *)
(***************************************************************************)
\* What the save comes to in the table machines, once it is applied.
SavedRegisters ==
    IF registerCall.stage = "sent" THEN CompletedRows(registerCall.body) ELSE machine.registers

UntouchedRows ==
    /\ registerCall.stage = "sent" => stored.by = "others"
    /\ (stored.by # "others" \/ registerCall.stage = "sent") /\ ~stored.touched =>
          \/ table.rows = table.filledFrom
          \/ registerCall.stage # "sent" /\ machine = NoMachine
          \/ CompletedRows(table.rows) = SavedRegisters

FilledFromData ==
    /\ table.open => table.filledFrom = registerQuery.data
    /\ ~table.open => stored.by = "others" /\ registerCall.stage = "none"
    /\ registerQuery.fetch = "answered" => registerQuery.answer \in Registers

RegistersOnTheirWay ==
    stored.by = "shown" /\ machine # NoMachine =>
        \/ registerQuery.fetch = "asked"
        \/ registerQuery.fetch = "answered" /\ registerQuery.answer = machine.registers
        \/ registerQuery.fetch = "idle" /\ registerQuery.data = machine.registers
        \/ registerQuery.fetch = "failed"

RegisterInv ==
    RegisterTypeOK /\ UntouchedRows /\ FilledFromData /\ RegistersOnTheirWay

\* What the server makes of rows: it completes each row once.
LEMMA CompletedOnce ==
    ASSUME NEW rows \in Rows
    PROVE  /\ CompletedRows(rows) \in Rows
           /\ CompletedRows(CompletedRows(rows)) = CompletedRows(rows)
           /\ Valid(rows) => CompletedRows(rows) \in Registers
<1>1. PICK n \in 0 .. MaxRows : rows \in [1 .. n -> Row]
  BY DEF Rows
<1>2. \A row \in Row : /\ Completed(row) \in Row
                       /\ Completed(Completed(row)) = Completed(row)
                       /\ Completed(row).name = row.name
  BY RegisterConstants DEF Row, Completed
<1>3. CompletedRows(rows) \in [1 .. n -> Row]
  BY <1>1, <1>2 DEF CompletedRows
<1>4. CompletedRows(rows) \in Rows
  BY <1>3 DEF Rows
<1>5. CompletedRows(CompletedRows(rows)) = CompletedRows(rows)
  BY <1>1, <1>2, <1>3 DEF CompletedRows
<1>6. Valid(rows) => Valid(CompletedRows(rows))
  BY <1>1, <1>2 DEF CompletedRows, Valid
<1> QED
  BY <1>4, <1>5, <1>6 DEF Registers

LEMMA NoRows == <<>> \in Rows /\ <<>> \in Registers
<1>1. <<>> \in [1 .. 0 -> Row] /\ 0 \in 0 .. MaxRows
  BY RegisterConstants
<1>2. <<>> \in Rows
  BY <1>1 DEF Rows
<1> QED
  BY <1>1, <1>2 DEF Registers, Valid, CompletedRows

LEMMA RegisterParts ==
    ASSUME RegisterTypeOK
    PROVE  /\ machine # NoMachine => machine.registers \in Registers
           /\ table.open \in BOOLEAN /\ table.rows \in Rows
           /\ table.filledFrom \in Registers \cup {NoData}
           /\ registerQuery.data \in Registers \cup {NoData}
           /\ registerQuery.answer \in Registers \cup {NoData}
           /\ registerQuery.fetch \in {"idle", "asked", "answered", "failed"}
           /\ stored.by \in {"others", "save", "shown"} /\ stored.touched \in BOOLEAN
           /\ registerCall.stage \in {"none", "sent", "done", "settling"}
           /\ registerCall.stage = "sent" => registerCall.body \in Rows
           /\ NoData \notin Registers /\ Registers \subseteq Rows
<1>1. NoData \notin Registers /\ Registers \subseteq Rows
  BY RegisterData DEF Registers
<1> QED
  BY <1>1 DEF RegisterTypeOK, MachineRow, Entry

\* Neither the table nor the entry nor the request change: the dialogs.
LEMMA RegisterDialogSteps ==
    ASSUME RegisterInv,
           \/ \E regs \in Registers : CopyFrom(regs)
           \/ CopyFails \/ OpenImporter \/ CancelImport \/ UNCHANGED registerVars
           \/ \E file \in File : ChooseFile(file) \/ FileRead(file)
    PROVE  RegisterInv'
<1>1. UNCHANGED <<machine, machineWrites, registerQuery, table, registerCall, stored>>
  BY DEF CopyFrom, CopyFails, OpenImporter, CancelImport, ChooseFile, FileRead, ImporterOnly,
         registerVars
<1>2. \/ copyFrom' = NoCopyFrom
      \/ copyFrom' \in [stage : {"asked"}, registers : Registers]
  <2>1. \/ copyFrom' = copyFrom \/ copyFrom' = NoCopyFrom
        \/ \E regs \in Registers : copyFrom' = [stage |-> "asked", registers |-> regs]
    BY DEF CopyFrom, CopyFails, OpenImporter, CancelImport, ChooseFile, FileRead,
           ImporterOnly, registerVars
  <2> QED
    BY <2>1 DEF RegisterInv, RegisterTypeOK
<1> DEFINE Importers == [open : BOOLEAN, parsed : Rows, reading : SUBSET File]
<1>3. importer \in Importers
  BY DEF RegisterInv, RegisterTypeOK
<1>4. importer' \in Importers
  <2>1. ASSUME NEW file \in File, ChooseFile(file)
        PROVE  importer' \in Importers
    BY <1>3, <2>1, NoRows DEF ChooseFile
  <2>2. ASSUME NEW file \in File, FileRead(file)
        PROVE  importer' \in Importers
    <3>1. file \in Rows /\ CompletedRows(file) \in Rows
      BY CompletedOnce, RegisterData
    <3> QED
      BY <1>3, <2>2, <3>1 DEF FileRead
  <2>4. CASE OpenImporter \/ CancelImport
    BY <1>3, <2>4, NoRows DEF OpenImporter, CancelImport, ClosedImporter
  <2>5. CASE importer' = importer
    BY <1>3, <2>5
  <2> QED
    BY <2>1, <2>2, <2>4, <2>5 DEF CopyFrom, CopyFails, registerVars
<1>5. UntouchedRows' /\ FilledFromData' /\ RegistersOnTheirWay'
  BY <1>1 DEF RegisterInv, UntouchedRows, FilledFromData, RegistersOnTheirWay, SavedRegisters
<1>6. RegisterTypeOK'
  BY <1>1, <1>2, <1>4 DEF RegisterInv, RegisterTypeOK
<1> QED
  BY <1>5, <1>6 DEF RegisterInv

\* The rows are touched.
LEMMA RowSteps ==
    ASSUME RegisterInv,
           \/ AddRow \/ CopyArrives \/ \E mode \in {"replace", "append"} : Import(mode)
           \/ \E i \in 1 .. MaxRows : DeleteRow(i) \/ \E row \in Row : UpdateRow(i, row)
    PROVE  RegisterInv'
<1>1. \/ \E rows \in Rows : PutRows(rows)
      \/ UNCHANGED <<machine, machineWrites, registerQuery, table, registerCall, stored>>
  BY Zenon DEF AddRow, CopyArrives, Import, DeleteRow, UpdateRow, PutRows
<1>2. \/ copyFrom' = NoCopyFrom
      \/ copyFrom' \in [stage : {"asked"}, registers : Registers]
  BY DEF AddRow, CopyArrives, Import, DeleteRow, UpdateRow, RegisterInv, RegisterTypeOK
<1>3. importer' \in [open : BOOLEAN, parsed : Rows, reading : SUBSET File]
  BY DEF AddRow, CopyArrives, Import, DeleteRow, UpdateRow, RegisterInv, RegisterTypeOK
<1>4. CASE UNCHANGED <<machine, machineWrites, registerQuery, table, registerCall, stored>>
  BY <1>2, <1>3, <1>4 DEF RegisterInv, RegisterTypeOK, UntouchedRows, FilledFromData,
                          RegistersOnTheirWay, SavedRegisters
<1>5. ASSUME NEW rows \in Rows, PutRows(rows)
      PROVE  RegisterInv'
  <2>1. /\ UNCHANGED <<machine, machineWrites, registerQuery, registerCall>>
        /\ table' = [table EXCEPT !.rows = rows]
        /\ stored' = [stored EXCEPT !.touched = TRUE]
    BY <1>5 DEF PutRows
  <2>2. /\ table' \in [open : BOOLEAN, rows : Rows, filledFrom : Registers \cup {NoData}]
        /\ table'.open = table.open /\ table'.filledFrom = table.filledFrom
    BY <2>1 DEF RegisterInv, RegisterTypeOK
  <2>3. /\ stored' \in [by : {"others", "save", "shown"}, touched : BOOLEAN]
        /\ stored'.touched /\ stored'.by = stored.by
    BY <2>1 DEF RegisterInv, RegisterTypeOK
  <2>4. RegisterTypeOK'
    BY <1>2, <1>3, <2>1, <2>2, <2>3 DEF RegisterInv, RegisterTypeOK
  <2> QED
    BY <2>1, <2>2, <2>3, <2>4 DEF RegisterInv, UntouchedRows, FilledFromData,
                                  RegistersOnTheirWay, SavedRegisters
<1> QED
  BY <1>1, <1>4, <1>5

LEMMA OpenTableStep ==
    ASSUME RegisterInv, OpenTable
    PROVE  RegisterInv'
<1>1. /\ UNCHANGED <<machine, machineWrites, importer, copyFrom, registerCall, stored>>
      /\ registerQuery' = Ask(registerQuery) /\ ~table.open
      /\ table' = IF registerQuery.data = NoData THEN [ClosedTable EXCEPT !.open = TRUE]
                  ELSE Fill(registerQuery.data)
  BY DEF OpenTable
<1>2. registerQuery \in Entry(Registers)
  BY DEF RegisterInv, RegisterTypeOK
<1>3. /\ registerQuery' \in Entry(Registers) /\ registerQuery'.data = registerQuery.data
      /\ registerQuery'.answer = registerQuery.answer
      /\ registerQuery'.fetch = IF AtRest(registerQuery) THEN "asked" ELSE registerQuery.fetch
  BY <1>1, <1>2, AskedEntry
<1>4. /\ table' \in [open : BOOLEAN, rows : Rows, filledFrom : Registers \cup {NoData}]
      /\ table'.filledFrom = registerQuery.data /\ table'.open
  BY <1>1, RegisterParts, NoRows DEF RegisterInv, ClosedTable, Fill
<1>5. stored.by = "others" /\ registerCall.stage = "none"
  BY <1>1 DEF RegisterInv, FilledFromData
<1>6. RegisterTypeOK'
  BY <1>1, <1>3, <1>4 DEF RegisterInv, RegisterTypeOK
<1>7. FilledFromData'
  BY <1>1, <1>3, <1>4, <1>5, RegisterParts DEF RegisterInv, FilledFromData
<1> QED
  BY <1>1, <1>5, <1>6, <1>7 DEF RegisterInv, UntouchedRows, RegistersOnTheirWay

LEMMA CloseTableStep ==
    ASSUME RegisterInv, CloseTable
    PROVE  RegisterInv'
<1>1. /\ UNCHANGED <<machine, machineWrites, registerQuery>> /\ table' = ClosedTable
      /\ importer' = ClosedImporter /\ copyFrom' = NoCopyFrom
      /\ registerCall' = NoSaveRegisters /\ stored' = [by |-> "others", touched |-> FALSE]
  BY DEF CloseTable
<1>2. RegisterTypeOK'
  BY <1>1, NoRows DEF RegisterInv, RegisterTypeOK, ClosedTable, ClosedImporter, NoSaveRegisters
<1> QED
  BY <1>1, <1>2 DEF RegisterInv, UntouchedRows, FilledFromData, RegistersOnTheirWay,
                    ClosedTable, NoSaveRegisters

\* A save is clicked: the rows are those it sends.
LEMMA SaveRegistersStep ==
    ASSUME RegisterInv, SaveRegisters
    PROVE  RegisterInv'
<1>1. /\ UNCHANGED <<machine, machineWrites, registerQuery, table, importer, copyFrom>>
      /\ registerCall' = [stage |-> "sent", body |-> table.rows]
      /\ stored' = [by |-> "others", touched |-> FALSE] /\ Shows
  BY DEF SaveRegisters
<1>2. RegisterTypeOK'
  BY <1>1, RegisterParts DEF RegisterInv, RegisterTypeOK
<1>3. table.open
  BY <1>1 DEF Shows
<1> QED
  BY <1>1, <1>2, <1>3 DEF RegisterInv, UntouchedRows, FilledFromData,
                                RegistersOnTheirWay, SavedRegisters

\* The row is written: by the save, which every untouched row then agrees with, or
\* by the others.
LEMMA RegisterWriteSteps ==
    ASSUME RegisterInv,
           \/ ApplyRegisters \/ OthersDeleteMachine
           \/ \E regs \in Registers : OthersSetRegisters(regs)
           \/ \E connection \in Connection : OthersConnect(connection)
    PROVE  RegisterInv'
<1>1. PICK row \in MachineRow \cup {NoMachine} :
        \/ /\ WriteMachine(row, "save") /\ registerCall' = [stage |-> "done"]
           /\ registerCall.stage = "sent" /\ machine # NoMachine
           /\ row.registers = CompletedRows(registerCall.body)
        \/ WriteMachine(row, "others") /\ UNCHANGED registerCall /\ machine # NoMachine
  <2>1. CASE ApplyRegisters
    <3> DEFINE row == [machine EXCEPT !.registers = CompletedRows(registerCall.body)]
    <3>1. CompletedRows(registerCall.body) \in Registers
      BY <2>1, RegisterParts, CompletedOnce DEF ApplyRegisters, RegisterInv
    <3>2. machine \in MachineRow
      BY <2>1 DEF ApplyRegisters, RegisterInv, RegisterTypeOK
    <3>3. row \in MachineRow /\ row.registers = CompletedRows(registerCall.body)
      BY <3>1, <3>2 DEF MachineRow
    <3>4. /\ WriteMachine(row, "save") /\ registerCall' = [stage |-> "done"]
          /\ registerCall.stage = "sent" /\ machine # NoMachine
      BY <2>1 DEF ApplyRegisters
    <3> QED
      BY <3>3, <3>4
  <2>2. ASSUME NEW regs \in Registers, OthersSetRegisters(regs)
        PROVE  \E row \in MachineRow :
                  WriteMachine(row, "others") /\ UNCHANGED registerCall /\ machine # NoMachine
    <3>1. [machine EXCEPT !.registers = regs] \in MachineRow
      BY <2>2 DEF OthersSetRegisters, RegisterInv, RegisterTypeOK, MachineRow
    <3> QED
      BY <2>2, <3>1 DEF OthersSetRegisters
  <2>3. ASSUME NEW connection \in Connection, OthersConnect(connection)
        PROVE  \E row \in MachineRow :
                  WriteMachine(row, "others") /\ UNCHANGED registerCall /\ machine # NoMachine
    <3>1. [registers |-> <<>>, connection |-> connection] \in MachineRow
      BY NoRows DEF MachineRow
    <3> QED
      BY <2>3, <3>1 DEF OthersConnect
  <2>4. CASE OthersDeleteMachine
    BY <2>4 DEF OthersDeleteMachine
  <2> QED
    BY <2>1, <2>2, <2>3, <2>4
<1>2. /\ machine' = row /\ UNCHANGED <<registerQuery, table, importer, copyFrom>>
      /\ machineWrites' \in 0 .. MaxMachineWrites
      /\ stored' = [stored EXCEPT !.by = "save"] \/ stored' = [stored EXCEPT !.by = "others"]
  BY <1>1, RegisterConstants DEF WriteMachine, RegisterInv, RegisterTypeOK
<1>3. /\ stored' \in [by : {"others", "save", "shown"}, touched : BOOLEAN]
      /\ stored'.touched = stored.touched
  BY <1>2 DEF RegisterInv, RegisterTypeOK
<1>4. RegisterTypeOK'
  BY <1>1, <1>2, <1>3 DEF RegisterInv, RegisterTypeOK
<1>5. CASE /\ WriteMachine(row, "save") /\ registerCall' = [stage |-> "done"]
           /\ registerCall.stage = "sent" /\ machine # NoMachine
           /\ row.registers = CompletedRows(registerCall.body)
  <2>1. stored' = [stored EXCEPT !.by = "save"]
    BY <1>5 DEF WriteMachine
  <2>2. stored'.by = "save"
    BY <2>1 DEF RegisterInv, RegisterTypeOK
  <2>3. UntouchedRows'
    BY <1>2, <1>3, <1>5, <2>2 DEF RegisterInv, UntouchedRows, SavedRegisters
  <2> QED
    BY <1>2, <1>4, <1>5, <2>2, <2>3 DEF RegisterInv, FilledFromData, RegistersOnTheirWay
<1>6. CASE WriteMachine(row, "others") /\ UNCHANGED registerCall /\ machine # NoMachine
  <2>1. stored' = [stored EXCEPT !.by = "others"]
    BY <1>6 DEF WriteMachine
  <2>2. stored'.by = "others"
    BY <2>1 DEF RegisterInv, RegisterTypeOK
  <2>3. UntouchedRows'
    BY <1>2, <1>3, <1>6, <2>2 DEF RegisterInv, UntouchedRows, SavedRegisters
  <2> QED
    BY <1>2, <1>4, <1>6, <2>2, <2>3 DEF RegisterInv, FilledFromData, RegistersOnTheirWay
<1> QED
  BY <1>1, <1>5, <1>6

\* The request changes, the table and the row stay.
LEMMA RegisterReplySteps ==
    ASSUME RegisterInv, ApplyToNothing \/ RegistersReplied \/ RegistersFail
    PROVE  RegisterInv'
<1>1. UNCHANGED <<machine, machineWrites, table, importer, copyFrom>>
  BY DEF ApplyToNothing, RegistersReplied, RegistersFail
<1>2. /\ registerCall.stage \in {"sent", "done"}
      /\ registerCall' \in [stage : {"none", "done", "settling"}]
      /\ registerCall'.stage = "done" => machine = NoMachine
  BY DEF ApplyToNothing, RegistersReplied, RegistersFail, NoSaveRegisters
<1>3. registerQuery \in Entry(Registers) /\ table.open
  BY <1>2 DEF RegisterInv, RegisterTypeOK, FilledFromData
<1>4. CASE RegistersReplied
  <2>1. /\ registerQuery' = Invalidate(registerQuery, table.open) /\ stored' = StoredShown
        /\ registerCall.stage = "done" /\ registerCall'.stage = "settling"
    BY <1>4 DEF RegistersReplied
  <2>2. /\ registerQuery' \in Entry(Registers) /\ registerQuery'.data = registerQuery.data
        /\ registerQuery' = registerQuery \/ registerQuery'.fetch = "asked"
        /\ ~Joins(registerQuery) => registerQuery'.fetch = "asked"
    BY <1>3, <2>1, InvalidatedEntry DEF Joins
  <2>3. /\ stored' \in [by : {"others", "save", "shown"}, touched : BOOLEAN]
        /\ stored'.touched = stored.touched /\ (stored'.by = "others" <=> stored.by = "others")
        /\ stored' = stored \/ (stored'.by = "shown" /\ ~Joins(registerQuery))
    <3>1. CASE stored.by = "save" /\ ~Joins(registerQuery)
      <4>1. stored' = [stored EXCEPT !.by = "shown"]
        BY <2>1, <3>1 DEF StoredShown
      <4> QED
        BY <3>1, <4>1 DEF RegisterInv, RegisterTypeOK
    <3>2. CASE ~(stored.by = "save" /\ ~Joins(registerQuery))
      <4>1. stored' = stored
        BY <2>1, <3>2 DEF StoredShown, RegisterInv, RegisterTypeOK
      <4> QED
        BY <4>1 DEF RegisterInv, RegisterTypeOK
    <3> QED
      BY <3>1, <3>2
  <2>4. FilledFromData'
    BY <1>1, <1>3, <2>1, <2>2 DEF RegisterInv, FilledFromData
  <2>5. RegisterTypeOK'
    BY <1>1, <1>2, <2>2, <2>3 DEF RegisterInv, RegisterTypeOK
  <2>6. UntouchedRows'
    BY <1>1, <2>1, <2>3 DEF RegisterInv, UntouchedRows, SavedRegisters
  <2>7. RegistersOnTheirWay'
    BY <1>1, <2>2, <2>3 DEF RegisterInv, RegistersOnTheirWay
  <2> QED
    BY <2>4, <2>5, <2>6, <2>7 DEF RegisterInv
<1>5. CASE UNCHANGED <<registerQuery, stored>>
  <2>1. RegisterTypeOK'
    BY <1>1, <1>2, <1>5 DEF RegisterInv, RegisterTypeOK
  <2>2. registerCall'.stage # "sent"
    BY <1>2
  <2>3. registerCall.stage = "sent" => stored.by = "others"
    BY DEF RegisterInv, UntouchedRows
  <2>4. UntouchedRows'
    BY <1>1, <1>2, <1>5, <2>2, <2>3 DEF RegisterInv, UntouchedRows, SavedRegisters
  <2> QED
    BY <1>1, <1>2, <1>3, <1>5, <2>1, <2>4 DEF RegisterInv, FilledFromData, RegistersOnTheirWay
<1> QED
  BY <1>4, <1>5 DEF ApplyToNothing, RegistersFail

\* A fetch of the open table is asked for, or answered, or fails.
LEMMA RegisterFetchSteps ==
    ASSUME RegisterInv, RefetchRegisters \/ AnswerRegisters \/ FailRegisters
    PROVE  RegisterInv'
<1>1. /\ UNCHANGED <<machine, machineWrites, table, importer, copyFrom, stored>>
      /\ registerQuery \in Entry(Registers)
  BY DEF RefetchRegisters, AnswerRegisters, FailRegisters, RegisterInv, RegisterTypeOK
<1>2. \/ registerCall' = registerCall
      \/ registerCall.stage = "settling" /\ registerCall' = NoSaveRegisters
  BY DEF RefetchRegisters, AnswerRegisters, FailRegisters, SavedWhenSettled
<1>3. /\ registerQuery' \in Entry(Registers) /\ registerQuery'.data = registerQuery.data
      /\ \/ registerQuery'.fetch \in {"asked", "failed"}
         \/ /\ registerQuery'.fetch = "answered" /\ machine # NoMachine
            /\ registerQuery'.answer = machine.registers
  <2>1. CASE RefetchRegisters
    BY <1>1, <2>1, AskedEntry DEF RefetchRegisters
  <2>2. CASE FailRegisters
    BY <1>1, <2>2, FailedEntry DEF FailRegisters
  <2>3. CASE AnswerRegisters
    <3>1. machine.registers \in Registers
      BY <2>3, RegisterParts DEF RegisterInv, AnswerRegisters
    <3> QED
      BY <1>1, <2>3, <3>1, AnsweredEntry DEF AnswerRegisters
  <2> QED
    BY <2>1, <2>2, <2>3
<1>4. \/ registerCall'.stage = registerCall.stage
      \/ registerCall.stage = "settling" /\ registerCall'.stage = "none"
  BY <1>2 DEF NoSaveRegisters
<1>5. RegisterTypeOK'
  BY <1>1, <1>2, <1>3 DEF RegisterInv, RegisterTypeOK, NoSaveRegisters
<1>6. UntouchedRows'
  BY <1>1, <1>2, <1>4 DEF RegisterInv, UntouchedRows, SavedRegisters
<1>7. FilledFromData' /\ RegistersOnTheirWay'
  BY <1>1, <1>3, <1>4, RegisterParts DEF RegisterInv, FilledFromData, RegistersOnTheirWay
<1> QED
  BY <1>5, <1>6, <1>7 DEF RegisterInv

\* The answer reaches the page: rows that are set anew are those of the data.
LEMMA RegistersDelivered ==
    ASSUME RegisterInv, DeliverRegisters
    PROVE  RegisterInv'
<1>1. /\ UNCHANGED <<machine, machineWrites, importer, copyFrom>>
      /\ registerQuery' = Deliver(registerQuery) /\ registerQuery.fetch = "answered"
      /\ table' = Refilled(registerQuery.answer)
      /\ stored' = [stored EXCEPT !.touched = @ /\ table'.rows = table.rows]
  BY DEF DeliverRegisters
<1>2. registerQuery \in Entry(Registers) /\ registerQuery.answer \in Registers
  BY <1>1 DEF RegisterInv, RegisterTypeOK, FilledFromData
<1>3. /\ registerQuery' \in Entry(Registers) /\ registerQuery'.data = registerQuery.answer
      /\ registerQuery'.fetch = "idle" /\ registerQuery'.data # NoData
  BY <1>1, <1>2, DeliveredEntry, RegisterData
<1>4. \/ registerCall' = registerCall
      \/ registerCall.stage = "settling" /\ registerCall' = NoSaveRegisters
  BY DEF DeliverRegisters, SavedWhenSettled
<1>5. \/ registerCall'.stage = registerCall.stage
      \/ registerCall.stage = "settling" /\ registerCall'.stage = "none"
  BY <1>4 DEF NoSaveRegisters
<1>6. /\ table' \in [open : BOOLEAN, rows : Rows, filledFrom : Registers \cup {NoData}]
      /\ table'.open = table.open /\ (table.open => table'.filledFrom = registerQuery.answer)
      /\ table' = table \/ table'.rows = table'.filledFrom
  BY <1>1, <1>2, RegisterParts DEF RegisterInv, RegisterTypeOK, Refilled, Fill
<1>7. /\ stored' \in [by : {"others", "save", "shown"}, touched : BOOLEAN]
      /\ stored'.by = stored.by
  BY <1>1 DEF RegisterInv, RegisterTypeOK
<1>8. table' = table => stored'.touched = stored.touched
  BY <1>1, RegisterParts DEF RegisterInv, RegisterTypeOK
<1>9. RegisterTypeOK'
  BY <1>1, <1>3, <1>4, <1>6, <1>7 DEF RegisterInv, RegisterTypeOK, NoSaveRegisters
<1>10. UntouchedRows'
  BY <1>1, <1>4, <1>5, <1>6, <1>7, <1>8 DEF RegisterInv, UntouchedRows, SavedRegisters
<1>11. FilledFromData'
  BY <1>3, <1>5, <1>6, <1>7 DEF RegisterInv, FilledFromData
<1>12. RegistersOnTheirWay'
  BY <1>1, <1>2, <1>3, <1>7 DEF RegisterInv, RegistersOnTheirWay
<1> QED
  BY <1>9, <1>10, <1>11, <1>12 DEF RegisterInv

LEMMA RegisterStart == ASSUME RegisterInit PROVE RegisterInv
<1>1. machine \in MachineRow /\ machineWrites \in 0 .. MaxMachineWrites
  BY NoRows, RegisterConstants DEF RegisterInit, MachineRow
<1>2. registerQuery \in Entry(Registers) /\ registerQuery.fetch = "idle"
      /\ registerQuery.data = NoData
  BY EmptyParts DEF RegisterInit
<1>3. RegisterTypeOK
  BY <1>1, <1>2, NoRows DEF RegisterInit, RegisterTypeOK, ClosedTable, ClosedImporter, NoCopyFrom,
                            NoSaveRegisters
<1> QED
  BY <1>2, <1>3 DEF RegisterInit, RegisterInv, UntouchedRows, FilledFromData, RegistersOnTheirWay,
                    ClosedTable, NoSaveRegisters

LEMMA RegisterSteps == RegisterInv /\ [RegisterNext]_registerVars => RegisterInv'
BY RegisterDialogSteps, RowSteps, OpenTableStep, CloseTableStep, SaveRegistersStep,
   RegisterWriteSteps, RegisterReplySteps, RegisterFetchSteps, RegistersDelivered, Zenon
   DEF RegisterNext

LEMMA SavedShown == RegisterInv => SavedRowsAreStored
<1> SUFFICES ASSUME RegisterInv, stored.by = "shown", ~stored.touched,
                    registerQuery.fetch = "idle", machine # NoMachine
             PROVE  CompletedRows(table.rows) = machine.registers
  BY DEF SavedRowsAreStored
<1>1. registerQuery.data = machine.registers /\ machine.registers \in Registers
  BY RegisterParts DEF RegisterInv, RegistersOnTheirWay
<1>2. registerCall.stage # "sent" /\ table.open /\ table.filledFrom = registerQuery.data
  BY DEF RegisterInv, UntouchedRows, FilledFromData
<1>3. CASE table.rows = table.filledFrom
  BY <1>1, <1>2, <1>3 DEF Registers
<1>4. CASE CompletedRows(table.rows) = SavedRegisters
  BY <1>2, <1>4 DEF SavedRegisters
<1> QED
  BY <1>2, <1>3, <1>4 DEF RegisterInv, UntouchedRows

\* From the reply to a save on, rows that were not touched since it was clicked are
\* what the table machines holds, once nothing is on its way and the last fetch did not
\* fail: whatever was fetched, folded, imported or written by others in between.
THEOREM SavedRowsAreKept == RegisterSpec => []SavedRowsAreStored
<1>1. RegisterInit => RegisterInv
  BY RegisterStart
<1> QED
  BY <1>1, RegisterSteps, SavedShown, PTL DEF RegisterSpec

\* The table of rows, its request, its entry and the machine keep their types, for any
\* registers and any number of rows and of writes.
THEOREM RegisterTypes == RegisterSpec => []RegisterTypeOK
<1>1. RegisterInit => RegisterInv
  BY RegisterStart
<1>2. RegisterInv => RegisterTypeOK
  BY DEF RegisterInv
<1> QED
  BY <1>1, <1>2, RegisterSteps, PTL DEF RegisterSpec

-----------------------------------------------------------------------------
(***************************************************************************)
(* AlertRulesEditor.  Each copy of a rule, listed, on its way, open in the *)
(* dialog or in a request, has the machine that the rule has if it is      *)
(* still there, and a metric of that machine: an id, once given out, is    *)
(* never again that of a rule of another machine.                          *)
(***************************************************************************)
Watches(row) == row.metric \in MetricsOf[row.device]

OfItsRule(r, row, rows, ids) == r \in ids /\ (rows[r] # Blank => rows[r].device = row.device)

CopyRight(list, rows, ids) ==
    \A r \in Rule : list[r] # Blank => Watches(list[r]) /\ OfItsRule(r, list[r], rows, ids)

DialogRight(d, rows, ids) ==
    /\ d.metric # Blank => d.device \in Device /\ Watches(d)
    /\ d.rule # NewRule => d.device \in Device /\ OfItsRule(d.rule, d, rows, ids)

CallRight(call, rows, ids) ==
    /\ DialogRight(call.row, rows, ids)
    /\ call.stage = "sent" /\ call.kind = "save" =>
          call.row.device # Blank /\ call.row.metric # Blank

RuleCopiesRight ==
    /\ Existing \subseteq ruleIds
    /\ rulesQuery.data # NoData => CopyRight(rulesQuery.data, rules, ruleIds)
    /\ rulesQuery.fetch = "answered" =>
          rulesQuery.answer \in List /\ CopyRight(rulesQuery.answer, rules, ruleIds)
    /\ DialogRight(dialog, rules, ruleIds)
    /\ \A c \in RuleRequest : CallRight(ruleCalls[c], rules, ruleIds)

\* While a request whose write was the last one waits for the list, the list is on
\* its way, and has what was written.
RulesOnTheirWay ==
    \A c \in RuleRequest :
        ruleCalls[c].stage = "settling" /\ lastRuleWrite = c /\ rulesQuery.data # NoData =>
            \/ rulesQuery.fetch = "asked"
            \/ rulesQuery.fetch = "answered" /\ rulesQuery.answer = rules

RuleInv == RuleTypeOK /\ RuleWatchesItsMachine /\ RuleCopiesRight /\ RulesOnTheirWay

RuleTable == [Rule -> RuleRow \cup {Blank}]

\* Rows of which those that were given an id before keep their machine.
KeepsMachines(rows, ids, next, nextIds) ==
    /\ ids \subseteq nextIds
    /\ \A r \in Rule : r \in ids /\ next[r] # Blank =>
          rows[r] # Blank /\ next[r].device = rows[r].device

LEMMA RightLater ==
    ASSUME NEW rows, NEW ids, NEW next, NEW nextIds, KeepsMachines(rows, ids, next, nextIds)
    PROVE  /\ \A list : CopyRight(list, rows, ids) => CopyRight(list, next, nextIds)
           /\ \A d \in Dialog : DialogRight(d, rows, ids) => DialogRight(d, next, nextIds)
           /\ \A call \in RuleCall : CallRight(call, rows, ids) => CallRight(call, next, nextIds)
<1>1. ASSUME NEW list, CopyRight(list, rows, ids)
      PROVE  CopyRight(list, next, nextIds)
  BY <1>1 DEF KeepsMachines, CopyRight, OfItsRule
<1>2. ASSUME NEW d \in Dialog, DialogRight(d, rows, ids)
      PROVE  DialogRight(d, next, nextIds)
  BY <1>2 DEF KeepsMachines, DialogRight, OfItsRule, Dialog
<1>3. ASSUME NEW call \in RuleCall, CallRight(call, rows, ids)
      PROVE  CallRight(call, next, nextIds)
  <2>1. call.row \in Dialog
    BY DEF RuleCall
  <2> QED
    BY <1>2, <1>3, <2>1 DEF CallRight
<1> QED
  BY <1>1, <1>2, <1>3

LEMMA DialogTypes ==
    /\ NewDialog \in Dialog /\ ClosedDialog \in Dialog
    /\ NewDialog.rule = NewRule /\ NewDialog.metric = Blank
    /\ ClosedDialog.rule = NewRule /\ ClosedDialog.metric = Blank
BY DEF NewDialog, ClosedDialog, Dialog

LEMMA NewDialogRight ==
    ASSUME NEW rows, NEW ids
    PROVE  DialogRight(NewDialog, rows, ids) /\ DialogRight(ClosedDialog, rows, ids)
BY DialogTypes DEF DialogRight

LEMMA NoCallRight ==
    ASSUME NEW rows, NEW ids
    PROVE  CallRight(NoRuleCall, rows, ids)
BY NewDialogRight DEF CallRight, NoRuleCall

LEMMA RuleCallTypes ==
    /\ NoRuleCall \in RuleCall /\ NoRuleCall.stage = "none" /\ NoRuleCall.row = ClosedDialog
    /\ \A call \in RuleCall, stage \in {"done", "settling"} :
          /\ [call EXCEPT !.stage = stage] \in RuleCall
          /\ [call EXCEPT !.stage = stage].stage = stage
          /\ [call EXCEPT !.stage = stage].row = call.row
          /\ [call EXCEPT !.stage = stage] # NoRuleCall
BY DialogTypes DEF NoRuleCall, RuleCall, Kind

LEMMA RuleStart == ASSUME RuleInit PROVE RuleInv
<1>1. /\ rulesQuery \in Entry(List) /\ rulesQuery.data = NoData
      /\ rulesQuery.fetch = "asked"
  BY FirstAsked DEF RuleInit
<1>2. RuleTypeOK
  BY <1>1, DialogTypes, RuleCallTypes, RuleConstants DEF RuleInit, RuleTypeOK, NoTarget
<1>3. Existing = {}
  BY DEF RuleInit, Existing
<1> QED
  BY <1>1, <1>2, <1>3, NewDialogRight, NoCallRight, RuleCallTypes
     DEF RuleInit, RuleInv, RuleWatchesItsMachine, RuleCopiesRight, RulesOnTheirWay

\* The list: what is ticked and what is to be deleted.
LEMMA RuleListSteps ==
    ASSUME RuleInv,
           \/ \E r \in Rule : ToggleSelect(r)
           \/ \E filtered \in SUBSET Rule : ToggleAll(filtered)
           \/ ClearSelection \/ CancelDelete \/ UNCHANGED ruleVars
           \/ \E target \in [bulk : BOOLEAN, ids : SUBSET Rule] : AskDelete(target)
    PROVE  RuleInv'
<1>1. UNCHANGED <<rules, ruleIds, ruleWrites, rulesQuery, dialog, ruleCalls, lastRuleWrite>>
  BY DEF ToggleSelect, ToggleAll, ClearSelection, CancelDelete, AskDelete, ListOnly, ruleVars
<1>2. ticked \subseteq Rule /\ Listed \subseteq Rule
  BY DEF RuleInv, RuleTypeOK, Listed
<1>3. ticked' \subseteq Rule
  BY <1>2 DEF ToggleSelect, ToggleAll, ClearSelection, CancelDelete, AskDelete, ListOnly, ruleVars
<1>4. toDelete' \in [bulk : BOOLEAN, ids : SUBSET Rule]
  <2>1. \/ toDelete' \in {toDelete, NoTarget}
        \/ \E target \in [bulk : BOOLEAN, ids : SUBSET Rule] : toDelete' = target
    BY DEF ToggleSelect, ToggleAll, ClearSelection, CancelDelete, AskDelete, ListOnly, ruleVars
  <2>2. NoTarget \in [bulk : BOOLEAN, ids : SUBSET Rule]
    BY DEF NoTarget
  <2> QED
    BY <2>1, <2>2 DEF RuleInv, RuleTypeOK
<1> QED
  BY <1>1, <1>3, <1>4 DEF RuleInv, RuleTypeOK, RuleWatchesItsMachine, Existing, RuleCopiesRight,
                          RulesOnTheirWay

\* The dialog.
LEMMA RuleDialogSteps ==
    ASSUME RuleInv,
           \/ CreateRule \/ CloseDialog \/ \E r \in Rule : EditRule(r)
           \/ \E d \in Device : ChooseDevice(d)
           \/ \E m \in Metric : ChooseMetric(m)
    PROVE  RuleInv'
<1>1. UNCHANGED <<rules, ruleIds, ruleWrites, rulesQuery, ruleCalls, lastRuleWrite, ticked, toDelete>>
  BY DEF CreateRule, CloseDialog, EditRule, ChooseDevice, ChooseMetric, DialogOnly, ListOnly
<1>2. dialog \in Dialog /\ DialogRight(dialog, rules, ruleIds)
  BY DEF RuleInv, RuleTypeOK, RuleCopiesRight
<1>3. dialog' \in Dialog /\ DialogRight(dialog', rules, ruleIds)
  <2>1. CASE CreateRule \/ CloseDialog
    BY <2>1, DialogTypes, NewDialogRight DEF CreateRule, CloseDialog
  <2>2. ASSUME NEW r \in Rule, EditRule(r)
        PROVE  dialog' \in Dialog /\ DialogRight(dialog', rules, ruleIds)
    <3> DEFINE row == rulesQuery.data[r]
    <3>1. /\ dialog' = [open |-> TRUE, rule |-> r, device |-> row.device, metric |-> row.metric,
                        active |-> row.active]
          /\ rulesQuery.data # NoData /\ row # Blank
      BY <2>2 DEF EditRule, Listed
    <3>2. rulesQuery.data \in List /\ CopyRight(rulesQuery.data, rules, ruleIds)
      BY <3>1, EntryParts DEF RuleInv, RuleTypeOK, RuleCopiesRight
    <3>3. row \in RuleRow /\ Watches(row) /\ OfItsRule(r, row, rules, ruleIds)
      BY <3>1, <3>2 DEF List, CopyRight
    <3> HIDE DEF row
    <3> QED
      BY <3>1, <3>3 DEF RuleRow, Dialog, DialogRight, Watches, OfItsRule
  <2>3. ASSUME NEW d \in Device, ChooseDevice(d)
        PROVE  dialog' \in Dialog /\ DialogRight(dialog', rules, ruleIds)
    <3>1. /\ dialog' = [dialog EXCEPT !.device = d,
                                      !.metric = IF d = dialog.device THEN @ ELSE Blank]
          /\ dialog.rule = NewRule
      BY <2>3 DEF ChooseDevice
    <3>2. CASE d = dialog.device
      <4>1. dialog' = dialog
        BY <1>2, <3>1, <3>2 DEF Dialog
      <4> QED
        BY <1>2, <4>1
    <3>3. CASE d # dialog.device
      <4>1. dialog' \in Dialog /\ dialog'.rule = NewRule /\ dialog'.metric = Blank
        BY <1>2, <3>1, <3>3 DEF Dialog
      <4> QED
        BY <4>1 DEF DialogRight
    <3> QED
      BY <3>2, <3>3
  <2>4. ASSUME NEW m \in Metric, ChooseMetric(m)
        PROVE  dialog' \in Dialog /\ DialogRight(dialog', rules, ruleIds)
    <3>1. /\ dialog' = [dialog EXCEPT !.metric = m]
          /\ dialog.device \in Device /\ m \in MetricsOf[dialog.device]
      BY <1>2, <2>4 DEF ChooseMetric, Dialog
    <3>2. /\ dialog' \in Dialog /\ dialog'.metric = m /\ dialog'.device = dialog.device
          /\ dialog'.rule = dialog.rule
      BY <1>2, <3>1 DEF Dialog
    <3> QED
      BY <1>2, <3>1, <3>2 DEF DialogRight, Watches, OfItsRule
  <2> QED
    BY <2>1, <2>2, <2>3, <2>4
<1>4. RuleTypeOK'
  BY <1>1, <1>3 DEF RuleInv, RuleTypeOK
<1>5. RuleCopiesRight'
  BY <1>1, <1>3 DEF RuleInv, RuleCopiesRight, Existing
<1> QED
  BY <1>1, <1>4, <1>5 DEF RuleInv, RuleWatchesItsMachine, Existing, RulesOnTheirWay

\* A request is sent, or fails.
LEMMA RuleCallSteps ==
    ASSUME RuleInv,
           \/ \E kind \in {"enable", "disable", "delete"} : SetActive(kind)
           \/ ConfirmDelete \/ SubmitRule \/ \E c \in RuleRequest : RuleCallFails(c)
    PROVE  RuleInv'
<1>1. UNCHANGED <<rules, ruleIds, ruleWrites, rulesQuery, ticked, dialog, toDelete>>
      /\ lastRuleWrite' \in {"others", lastRuleWrite}
  BY DEF SetActive, ConfirmDelete, SubmitRule, RuleCallFails, PageStays, Send
<1>2. /\ ticked \subseteq Rule /\ toDelete.ids \subseteq Rule /\ dialog \in Dialog
      /\ DialogRight(dialog, rules, ruleIds)
      /\ ruleCalls \in [RuleRequest -> RuleCall]
      /\ \A c \in RuleRequest : CallRight(ruleCalls[c], rules, ruleIds)
  BY DEF RuleInv, RuleTypeOK, RuleCopiesRight
<1> DEFINE OneCallChanges(c, call) ==
        /\ ruleCalls' = [ruleCalls EXCEPT ![c] = call]
        /\ call.stage \in {"none", "sent"} /\ CallRight(call, rules, ruleIds)
<1>3. \E c \in RuleRequest : \E call \in RuleCall : OneCallChanges(c, call)
  <2>1. ASSUME NEW c \in RuleRequest, RuleCallFails(c)
        PROVE  \E call \in RuleCall : OneCallChanges(c, call)
    BY <2>1, RuleCallTypes, NoCallRight DEF RuleCallFails
  <2>2. ASSUME NEW kind \in Kind, NEW ids \in SUBSET Rule, NEW row \in Dialog,
               DialogRight(row, rules, ruleIds),
               kind = "save" => row.device # Blank /\ row.metric # Blank,
               Send(kind, ids, row)
        PROVE  \E c \in RuleRequest : \E call \in RuleCall : OneCallChanges(c, call)
    <3> DEFINE call == [stage |-> "sent", kind |-> kind, ids |-> ids, row |-> row]
    <3>1. PICK c \in Unused : ruleCalls' = [ruleCalls EXCEPT ![c] = call]
      BY <2>2 DEF Send
    <3>2. call \in RuleCall /\ call.stage = "sent"
      BY DEF RuleCall
    <3>3. CallRight(call, rules, ruleIds)
      BY <2>2 DEF CallRight
    <3> HIDE DEF call
    <3> QED
      BY <3>1, <3>2, <3>3 DEF Unused
  <2>3. ASSUME NEW kind \in {"enable", "disable", "delete"}, SetActive(kind)
        PROVE  \E c \in RuleRequest : \E call \in RuleCall : OneCallChanges(c, call)
    <3>1. kind \in Kind /\ kind # "save"
      BY DEF Kind
    <3> QED
      BY <1>2, <2>2, <2>3, <3>1, DialogTypes, NewDialogRight DEF SetActive
  <2>4. CASE ConfirmDelete
    <3>1. \A kind \in {"delete", "delete one"} : kind \in Kind /\ kind # "save"
      BY DEF Kind
    <3> QED
      BY <1>2, <2>2, <2>4, <3>1, DialogTypes, NewDialogRight DEF ConfirmDelete
  <2>5. CASE SubmitRule
    <3>1. "save" \in Kind /\ {} \in SUBSET Rule
      BY DEF Kind
    <3> QED
      BY <1>2, <2>2, <2>5, <3>1 DEF SubmitRule
  <2> QED
    BY <2>1, <2>3, <2>4, <2>5
<1>4. PICK c \in RuleRequest, call \in RuleCall : OneCallChanges(c, call)
  BY <1>3
<1>5. /\ ruleCalls' \in [RuleRequest -> RuleCall]
      /\ \A d \in RuleRequest :
            \/ ruleCalls'[d] = ruleCalls[d]
            \/ ruleCalls'[d].stage # "settling" /\ CallRight(ruleCalls'[d], rules, ruleIds)
  BY <1>2, <1>4
<1>6. RuleTypeOK'
  BY <1>1, <1>5 DEF RuleInv, RuleTypeOK
<1>7. RuleCopiesRight'
  BY <1>1, <1>2, <1>5 DEF RuleInv, RuleCopiesRight, Existing
<1>8. RulesOnTheirWay'
  BY <1>1, <1>5, RuleConstants DEF RuleInv, RulesOnTheirWay
<1> QED
  BY <1>1, <1>6, <1>7, <1>8 DEF RuleInv, RuleWatchesItsMachine, Existing

\* A write after which each rule watches its machine, and those that were given an id
\* before watch the machine they watched.
LEMMA RulesWritten ==
    ASSUME RuleInv, NEW rows \in RuleTable, NEW by \in RuleRequest \cup {"others"},
           WriteRules(rows, by),
           \A r \in Rule : rows[r] # Blank =>
              /\ Watches(rows[r])
              /\ r \in ruleIds => rules[r] # Blank /\ rows[r].device = rules[r].device,
           \/ by = "others" /\ ruleCalls' = ruleCalls
           \/ by \in RuleRequest /\ Stage(by, "done")
    PROVE  RuleInv'
<1>1. /\ rules' = rows /\ ruleIds' = ruleIds \cup {r \in Rule : rows[r] # Blank}
      /\ ruleWrites' \in 0 .. MaxRuleWrites /\ lastRuleWrite' = by
      /\ UNCHANGED <<rulesQuery, ticked, dialog, toDelete>>
  BY RuleConstants DEF WriteRules, RuleInv, RuleTypeOK
<1>2. KeepsMachines(rules, ruleIds, rules', ruleIds')
  BY <1>1 DEF KeepsMachines
<1>3. ruleCalls \in [RuleRequest -> RuleCall] /\ dialog \in Dialog
  BY DEF RuleInv, RuleTypeOK
<1>4. /\ ruleCalls' \in [RuleRequest -> RuleCall]
      /\ \A c \in RuleRequest :
            \/ ruleCalls'[c] = ruleCalls[c] /\ c # by
            \/ ruleCalls'[c].stage = "done" /\ ruleCalls'[c].row = ruleCalls[c].row
  <2>1. CASE by = "others" /\ ruleCalls' = ruleCalls
    BY <1>3, <2>1, RuleConstants
  <2>2. CASE by \in RuleRequest /\ Stage(by, "done")
    <3> DEFINE call == [ruleCalls[by] EXCEPT !.stage = "done"]
    <3>1. ruleCalls' = [ruleCalls EXCEPT ![by] = call]
      BY <2>2 DEF Stage
    <3>2. call \in RuleCall /\ call.stage = "done" /\ call.row = ruleCalls[by].row
      BY <1>3, <2>2, RuleCallTypes
    <3> HIDE DEF call
    <3> QED
      BY <1>3, <2>2, <3>1, <3>2
  <2> QED
    BY <2>1, <2>2
<1>5. RuleTypeOK'
  BY <1>1, <1>4 DEF RuleInv, RuleTypeOK, RuleTable
<1>6. /\ rulesQuery.data # NoData => CopyRight(rulesQuery.data, rules', ruleIds')
      /\ rulesQuery.fetch = "answered" => CopyRight(rulesQuery.answer, rules', ruleIds')
      /\ DialogRight(dialog, rules', ruleIds')
  BY <1>2, <1>3, RightLater DEF RuleInv, RuleCopiesRight
<1>7. \A c \in RuleRequest : CallRight(ruleCalls'[c], rules', ruleIds')
  <2>1. \A c \in RuleRequest : CallRight(ruleCalls[c], rules', ruleIds')
    BY <1>2, <1>3, RightLater DEF RuleInv, RuleCopiesRight
  <2> QED
    BY <1>4, <2>1 DEF CallRight
<1>8. Existing' \subseteq ruleIds' /\ RuleWatchesItsMachine'
  BY <1>1 DEF Existing, RuleWatchesItsMachine, Watches
<1>9. RuleCopiesRight'
  BY <1>1, <1>6, <1>7, <1>8 DEF RuleInv, RuleCopiesRight
<1>10. RulesOnTheirWay'
  BY <1>1, <1>4 DEF RulesOnTheirWay
<1> QED
  BY <1>5, <1>8, <1>9, <1>10 DEF RuleInv

LEMMA RuleRowsRight ==
    ASSUME RuleInv
    PROVE  /\ rules \in RuleTable
           /\ \A r \in Rule : rules[r] # Blank => rules[r] \in RuleRow /\ Watches(rules[r])
                                                  /\ r \in ruleIds
BY DEF RuleInv, RuleTypeOK, RuleTable, RuleWatchesItsMachine, Existing, Watches, RuleCopiesRight

LEMMA ApplyRuleStep ==
    ASSUME RuleInv, NEW c \in RuleRequest, ApplyRule(c)
    PROVE  RuleInv'
<1> DEFINE row == ruleCalls[c].row
<1>1. PICK r \in Rule :
        /\ IF row.rule = NewRule THEN r \notin ruleIds ELSE r = row.rule /\ r \in Existing
        /\ WriteRules(Saved(r, row), c)
  BY DEF ApplyRule
<1>2. ruleCalls[c].stage = "sent" /\ ruleCalls[c].kind = "save" /\ Stage(c, "done")
  BY DEF ApplyRule
<1>3. /\ row \in Dialog /\ row.device \in Device /\ row.metric \in Metric
      /\ Watches(row) /\ DialogRight(row, rules, ruleIds)
  <2>1. row \in Dialog /\ DialogRight(row, rules, ruleIds)
    BY DEF RuleInv, RuleTypeOK, RuleCall, RuleCopiesRight, CallRight
  <2>2. row.device # Blank /\ row.metric # Blank
    BY <1>2 DEF RuleInv, RuleCopiesRight, CallRight
  <2> QED
    BY <2>1, <2>2 DEF Dialog, DialogRight
<1> HIDE DEF row
<1>4. PICK saved \in RuleRow :
        /\ Saved(r, row) = [rules EXCEPT ![r] = saved] /\ Watches(saved)
        /\ r \in ruleIds => rules[r] # Blank /\ saved.device = rules[r].device
  <2>1. CASE row.rule = NewRule
    <3> DEFINE new == RowOf([row EXCEPT !.active = TRUE])
    <3>1. new = [device |-> row.device, metric |-> row.metric, active |-> TRUE]
      BY <1>3 DEF RowOf, Dialog
    <3>2. Saved(r, row) = [rules EXCEPT ![r] = new] /\ r \notin ruleIds
      BY <1>1, <2>1 DEF Saved
    <3> HIDE DEF new
    <3>3. new \in RuleRow /\ new.device = row.device /\ new.metric = row.metric
      BY <1>3, <3>1 DEF RuleRow, Dialog
    <3> QED
      BY <1>3, <3>2, <3>3 DEF Watches
  <2>2. CASE row.rule # NewRule
    <3>1. r = row.rule /\ rules[r] # Blank
      BY <1>1, <2>2 DEF Existing
    <3>2. rules[r].device = row.device
      BY <1>3, <2>2, <3>1 DEF DialogRight, OfItsRule
    <3> DEFINE edited == [RowOf(row) EXCEPT !.device = rules[r].device]
    <3>3. edited = [device |-> row.device, metric |-> row.metric, active |-> row.active]
      BY <3>2 DEF RowOf
    <3>4. edited \in RuleRow /\ edited.device = row.device /\ edited.metric = row.metric
      BY <1>3, <3>3 DEF RuleRow, Dialog
    <3>5. Saved(r, row) = [rules EXCEPT ![r] = edited]
      BY <2>2 DEF Saved
    <3> HIDE DEF edited
    <3> QED
      BY <1>3, <3>1, <3>2, <3>4, <3>5 DEF Watches
  <2> QED
    BY <2>1, <2>2
<1> DEFINE next == Saved(r, row)
<1>5. next \in RuleTable /\ next[r] = saved /\ \A s \in Rule \ {r} : next[s] = rules[s]
  BY <1>4, RuleRowsRight DEF RuleTable
<1>6. \A s \in Rule : next[s] # Blank =>
         /\ Watches(next[s])
         /\ s \in ruleIds => rules[s] # Blank /\ next[s].device = rules[s].device
  BY <1>4, <1>5, RuleRowsRight
<1>7. WriteRules(next, c)
  BY <1>1
<1> HIDE DEF next
<1> QED
  BY <1>2, <1>5, <1>6, <1>7, RulesWritten

LEMMA OthersSaveRuleStep ==
    ASSUME RuleInv, NEW r \in Rule, NEW row \in RuleRow, OthersSaveRule(r, row)
    PROVE  RuleInv'
<1> DEFINE next == [rules EXCEPT ![r] = row]
<1>1. /\ Watches(row) /\ WriteRules(next, "others") /\ ruleCalls' = ruleCalls
      /\ IF rules[r] = Blank THEN r \notin ruleIds ELSE row.device = rules[r].device
  BY DEF OthersSaveRule, Watches
<1>2. next \in RuleTable /\ next[r] = row /\ \A s \in Rule \ {r} : next[s] = rules[s]
  BY RuleRowsRight DEF RuleTable
<1> HIDE DEF next
<1>3. \A s \in Rule : next[s] # Blank =>
         /\ Watches(next[s])
         /\ s \in ruleIds => rules[s] # Blank /\ next[s].device = rules[s].device
  BY <1>1, <1>2, RuleRowsRight
<1> QED
  BY <1>1, <1>2, <1>3, RulesWritten

\* A bulk action makes no rule and changes no machine and no metric.
LEMMA RulesActed ==
    ASSUME RuleInv, NEW kind, NEW ids
    PROVE  /\ Acted(kind, ids) \in RuleTable
           /\ \A r \in Rule : Acted(kind, ids)[r] # Blank =>
                 /\ Watches(Acted(kind, ids)[r])
                 /\ r \in ruleIds => /\ rules[r] # Blank
                                     /\ Acted(kind, ids)[r].device = rules[r].device
<1> DEFINE next == Acted(kind, ids)
<1>1. ASSUME NEW r \in Rule
      PROVE  /\ next[r] \in RuleRow \cup {Blank}
             /\ next[r] # Blank => /\ Watches(next[r]) /\ rules[r] # Blank
                                   /\ next[r].device = rules[r].device
  <2>1. CASE r \notin ids \/ rules[r] = Blank
    BY <2>1, RuleRowsRight DEF Acted
  <2>2. CASE r \in ids /\ rules[r] # Blank /\ kind \in {"delete", "delete one"}
    BY <2>2 DEF Acted
  <2>3. CASE r \in ids /\ rules[r] # Blank /\ kind \notin {"delete", "delete one"}
    <3>1. next[r] = [rules[r] EXCEPT !.active = (kind = "enable")]
      BY <2>3 DEF Acted
    <3>2. rules[r] \in RuleRow /\ Watches(rules[r])
      BY <2>3, RuleRowsRight
    <3>3. /\ next[r] \in RuleRow /\ next[r].device = rules[r].device
          /\ next[r].metric = rules[r].metric
      BY <3>1, <3>2 DEF RuleRow
    <3> QED
      BY <2>3, <3>2, <3>3 DEF Watches
  <2> QED
    BY <2>1, <2>2, <2>3
<1>2. next \in RuleTable
  BY <1>1 DEF Acted, RuleTable
<1> QED
  BY <1>1, <1>2

LEMMA BulkSteps ==
    ASSUME RuleInv,
           \/ \E c \in RuleRequest : ApplyBulk(c)
           \/ \E kind \in {"enable", "disable", "delete"} : \E ids \in SUBSET Rule :
                OthersAct(kind, ids)
    PROVE  RuleInv'
<1>1. ASSUME NEW c \in RuleRequest, ApplyBulk(c)
      PROVE  RuleInv'
  <2>1. WriteRules(Acted(ruleCalls[c].kind, ruleCalls[c].ids), c) /\ Stage(c, "done")
    BY <1>1 DEF ApplyBulk
  <2> QED
    BY <2>1, RulesActed, RulesWritten
<1>2. ASSUME NEW kind \in {"enable", "disable", "delete"}, NEW ids \in SUBSET Rule, OthersAct(kind, ids)
      PROVE  RuleInv'
  <2>1. WriteRules(Acted(kind, ids), "others") /\ ruleCalls' = ruleCalls
    BY <1>2 DEF OthersAct
  <2> QED
    BY <2>1, RulesActed, RulesWritten
<1> QED
  BY <1>1, <1>2

\* The list is asked for and answered.
LEMMA RuleFetchSteps ==
    ASSUME RuleInv, RefetchRules \/ AnswerRules \/ \E c \in RuleRequest : RuleReplied(c)
    PROVE  RuleInv'
<1>1. /\ UNCHANGED <<rules, ruleIds, ruleWrites, ticked, dialog, toDelete, lastRuleWrite>>
      /\ rulesQuery \in Entry(List) /\ ruleCalls \in [RuleRequest -> RuleCall]
  BY DEF RefetchRules, AnswerRules, RuleReplied, PageStays, RuleInv, RuleTypeOK
<1>2. rules \in List /\ CopyRight(rules, rules, ruleIds)
  BY RuleRowsRight DEF List, RuleTable, CopyRight, OfItsRule
<1> DEFINE Fetched == /\ rulesQuery' \in Entry(List) /\ rulesQuery'.data = rulesQuery.data
                      /\ \/ rulesQuery'.fetch = "asked"
                         \/ rulesQuery' = rulesQuery /\ rulesQuery.data = NoData
                         \/ rulesQuery'.fetch = "answered" /\ rulesQuery'.answer = rules
<1>3. Fetched
  <2>1. CASE RefetchRules
    BY <1>1, <2>1, AskedEntry DEF RefetchRules
  <2>2. CASE AnswerRules
    BY <1>1, <1>2, <2>2, AnsweredEntry DEF AnswerRules
  <2>3. ASSUME NEW c \in RuleRequest, RuleReplied(c)
        PROVE  Fetched
    BY <1>1, <2>3, InvalidatedEntry DEF RuleReplied
  <2> QED
    BY <2>1, <2>2, <2>3
<1> DEFINE CallsSettle == /\ ruleCalls' \in [RuleRequest -> RuleCall]
                          /\ \A c \in RuleRequest :
                                \/ ruleCalls'[c] = ruleCalls[c]
                                \/ /\ ruleCalls'[c].stage = "settling"
                                   /\ ruleCalls'[c].row = ruleCalls[c].row
<1>4. CallsSettle
  <2>1. CASE ruleCalls' = ruleCalls
    BY <1>1, <2>1
  <2>2. ASSUME NEW c \in RuleRequest, Stage(c, "settling")
        PROVE  CallsSettle
    <3> DEFINE call == [ruleCalls[c] EXCEPT !.stage = "settling"]
    <3>1. ruleCalls' = [ruleCalls EXCEPT ![c] = call]
      BY <2>2 DEF Stage
    <3>2. call \in RuleCall /\ call.stage = "settling" /\ call.row = ruleCalls[c].row
      BY <1>1, RuleCallTypes
    <3> HIDE DEF call
    <3> QED
      BY <1>1, <3>1, <3>2
  <2> QED
    BY <2>1, <2>2 DEF RefetchRules, AnswerRules, RuleReplied
<1>5. RuleTypeOK'
  BY <1>1, <1>3, <1>4 DEF RuleInv, RuleTypeOK
<1>6. RuleCopiesRight'
  BY <1>1, <1>2, <1>3, <1>4 DEF RuleInv, RuleCopiesRight, CallRight, Existing
<1>7. RulesOnTheirWay'
  BY <1>1, <1>3 DEF RulesOnTheirWay
<1> QED
  BY <1>1, <1>5, <1>6, <1>7 DEF RuleInv, RuleWatchesItsMachine, Existing

\* The list arrives or fails, and with it the end of the requests that waited for it.
LEMMA RulesArrived ==
    ASSUME RuleInv, DeliverRules \/ FailRules
    PROVE  RuleInv'
<1>1. /\ UNCHANGED <<rules, ruleIds, ruleWrites, lastRuleWrite>> /\ RulesConcluded
      /\ rulesQuery \in Entry(List) /\ ruleCalls \in [RuleRequest -> RuleCall]
  BY DEF DeliverRules, FailRules, RulesConcluded, RuleInv, RuleTypeOK
<1>2. /\ rulesQuery' \in Entry(List) /\ rulesQuery'.fetch \in {"idle", "failed"}
      /\ \/ rulesQuery.fetch = "answered" /\ rulesQuery'.data = rulesQuery.answer
         \/ rulesQuery'.data = rulesQuery.data
  BY <1>1, DeliveredEntry, FailedEntry DEF DeliverRules, FailRules
<1>3. /\ dialog' \in {dialog, ClosedDialog} /\ ticked' \in {ticked, {}}
      /\ toDelete' \in {toDelete, NoTarget}
  BY <1>1 DEF RulesConcluded
<1>4. /\ ruleCalls' \in [RuleRequest -> RuleCall]
      /\ \A c \in RuleRequest :
            \/ ruleCalls'[c] = NoRuleCall
            \/ ruleCalls'[c] = ruleCalls[c] /\ ruleCalls[c].stage # "settling"
  BY <1>1, RuleCallTypes DEF RulesConcluded, Settling
<1>5. RuleTypeOK'
  <2>1. NoTarget \in [bulk : BOOLEAN, ids : SUBSET Rule]
    BY DEF NoTarget
  <2> QED
    BY <1>1, <1>2, <1>3, <1>4, <2>1, DialogTypes DEF RuleInv, RuleTypeOK
<1>6. RuleCopiesRight'
  BY <1>1, <1>2, <1>3, <1>4, NewDialogRight, NoCallRight DEF RuleInv, RuleCopiesRight, Existing
<1>7. RulesOnTheirWay'
  BY <1>4, RuleCallTypes DEF RulesOnTheirWay
<1> QED
  BY <1>1, <1>5, <1>6, <1>7 DEF RuleInv, RuleWatchesItsMachine, Existing

LEMMA RuleSteps == RuleInv /\ [RuleNext]_ruleVars => RuleInv'
BY RuleListSteps, RuleDialogSteps, RuleCallSteps, ApplyRuleStep, OthersSaveRuleStep, BulkSteps,
   RuleFetchSteps, RulesArrived, Zenon DEF RuleNext

\* Rules, ticks, dialogs, the requests and the cached list keep their types.
THEOREM RuleTypes == RuleSpec => []RuleTypeOK
<1>1. RuleInit => RuleInv
  BY RuleStart
<1>2. RuleInv => RuleTypeOK
  BY DEF RuleInv
<1> QED
  BY <1>1, <1>2, RuleSteps, PTL DEF RuleSpec

\* Whatever was chosen in the dialog in which order, however many requests are in flight,
\* and whoever else edited or deleted the rule meanwhile: a rule watches a metric its
\* own machine has or has had.
THEOREM RulesWatchTheirMachines == RuleSpec => []RuleWatchesItsMachine
<1>1. RuleInit => RuleInv
  BY RuleStart
<1>2. RuleInv => RuleWatchesItsMachine
  BY DEF RuleInv
<1> QED
  BY <1>1, <1>2, RuleSteps, PTL DEF RuleSpec

\* A request that waits for the list is concluded when it arrives or fails, and an
\* answer that arrives was given after the request's write.
LEMMA ConcludedByAnswer ==
    ASSUME RuleInv, [RuleNext]_ruleVars, NEW c \in RuleRequest,
           ruleCalls[c].stage = "settling", ruleCalls'[c] = NoRuleCall,
           lastRuleWrite = c, rulesQuery.data # NoData, rulesQuery'.fetch # "failed"
    PROVE  rulesQuery'.data = rules
<1>1. ruleCalls \in [RuleRequest -> RuleCall] /\ rulesQuery \in Entry(List)
  BY DEF RuleInv, RuleTypeOK
<1>2. CASE DeliverRules
  <2>1. rulesQuery.fetch = "answered" /\ rulesQuery' = Deliver(rulesQuery)
    BY <1>2 DEF DeliverRules
  <2>2. rulesQuery.answer = rules
    BY <2>1 DEF RuleInv, RulesOnTheirWay
  <2> QED
    BY <1>1, <2>1, <2>2, DeliveredEntry
<1>3. ~FailRules
  BY <1>1, FailedEntry DEF FailRules
<1>4. ASSUME NEW kind, NEW ids, NEW row, Send(kind, ids, row)
      PROVE  FALSE
  <2>1. PICK d \in Unused :
          ruleCalls' = [ruleCalls EXCEPT ![d] = [stage |-> "sent", kind |-> kind, ids |-> ids,
                                                 row |-> row]]
    BY <1>4 DEF Send
  <2>2. d \in RuleRequest /\ d # c
    BY RuleCallTypes DEF Unused
  <2> QED
    BY <1>1, <2>1, <2>2, RuleCallTypes
<1>5. ASSUME NEW d \in RuleRequest, NEW stage \in {"done", "settling"}, Stage(d, stage)
      PROVE  FALSE
  <2>1. ruleCalls'[c] \in {ruleCalls[c], [ruleCalls[c] EXCEPT !.stage = stage]}
    BY <1>1, <1>5 DEF Stage
  <2> QED
    BY <1>1, <2>1, RuleCallTypes
<1>6. ASSUME NEW d \in RuleRequest, RuleCallFails(d)
      PROVE  FALSE
  <2>1. d # c
    BY <1>6 DEF RuleCallFails
  <2> QED
    BY <1>1, <1>6, <2>1, RuleCallTypes DEF RuleCallFails
<1>7. ~UNCHANGED ruleCalls
  BY RuleCallTypes
<1> HIDE DEF NoRuleCall
<1>8. /\ ~\E kind \in Kind : SetActive(kind)
      /\ ~ConfirmDelete /\ ~SubmitRule
      /\ ~\E d \in RuleRequest : ApplyRule(d) \/ ApplyBulk(d) \/ RuleReplied(d)
  BY <1>4, <1>5, Zenon DEF SetActive, ConfirmDelete, SubmitRule, ApplyRule, ApplyBulk, RuleReplied
<1>9. DeliverRules
  BY <1>3, <1>6, <1>7, <1>8
     DEF RuleNext, Kind, ruleVars, ToggleSelect, EditRule, OthersSaveRule, ToggleAll,
         ClearSelection, CancelDelete, AskDelete, OthersAct, CreateRule, CloseDialog, ChooseDevice,
         ChooseMetric, RefetchRules, AnswerRules, ListOnly, DialogOnly
<1> QED
  BY <1>2, <1>9

\* When the page goes on after a request, however many are in flight, a list that was
\* there before shows what the request did, unless the refetch it waited for failed.
THEOREM ConcludedCallsAreShown == RuleSpec => ConcludedIsShown
<1>1. RuleInit => RuleInv
  BY RuleStart
<1>2. RuleInv /\ [RuleNext]_ruleVars =>
        [ \A c \in RuleRequest :
            /\ ruleCalls[c].stage = "settling" /\ ruleCalls'[c] = NoRuleCall
            /\ lastRuleWrite = c
            /\ rulesQuery.data # NoData /\ rulesQuery'.fetch # "failed"
            => rulesQuery'.data = rules ]_ruleVars
  BY ConcludedByAnswer
<1> QED
  BY <1>1, <1>2, RuleSteps, PTL DEF RuleSpec, ConcludedIsShown

-----------------------------------------------------------------------------
(***************************************************************************)
(* ChartWidget.  What is asked for is what the entry is for, and as long   *)
(* as the entry was asked for since the configuration changed, by a source *)
(* that still measures it.                                                 *)
(***************************************************************************)
RequestsAreOfTheirEntry ==
    \A k \in Series :
        /\ samples[k].fetch \in {"asked", "answered"} =>
              requests[k] \in [of : Series, by : Source] /\ requests[k].of = k
        /\ samples[k].fetch = "answered" =>
              /\ samples[k].answer \in Samples
              /\ samples[k].answer.by = requests[k].by
              /\ samples[k].answer.of \in {k, Unplotted}

CurrentEntriesAreOfTheirSource ==
    \A k \in current :
        /\ samples[k].fetch \in {"asked", "answered"} => plotted[requests[k].by] = k
        /\ samples[k].fetch = "idle" => /\ samples[k].data \in Samples
                                        /\ plotted[samples[k].data.by] = k
                                        /\ samples[k].data.of \in {k, Unplotted}

ChartInv == ChartTypeOK /\ RequestsAreOfTheirEntry /\ CurrentEntriesAreOfTheirSource

LEMMA ChartStart == ASSUME ChartInit PROVE ChartInv
<1>1. \A k \in Series : samples[k] \in Entry(Samples) /\ samples[k].fetch = "idle"
  BY EmptyParts DEF ChartInit
<1>2. ChartTypeOK
  BY <1>1, ChartConstants DEF ChartInit, ChartTypeOK
<1> QED
  BY <1>1, <1>2 DEF ChartInit, ChartInv, RequestsAreOfTheirEntry, CurrentEntriesAreOfTheirSource

LEMMA ChangeChartStep ==
    ASSUME ChartInv, NEW new \in [Source -> Series \cup {Unplotted}], ChangeChart(new)
    PROVE  ChartInv'
<1> DEFINE now == {s \in Source : new[s] # Unplotted}
           asked == {k \in {SeriesKey(new[s]) : s \in now} \ Observed : AtRest(samples[k])}
<1>1. /\ plotted' = new /\ current' = asked /\ applies' \in 0 .. MaxApplies
      /\ samples' = [k \in Series |-> IF k \in asked THEN Ask(samples[k]) ELSE samples[k]]
  BY ChartConstants DEF ChangeChart, ChartInv, ChartTypeOK
<1>2. PICK by \in [asked -> now] :
        /\ \A k \in asked : SeriesKey(new[by[k]]) = k
        /\ requests' = [k \in Series |-> IF k \in asked THEN [of |-> new[by[k]], by |-> by[k]]
                                         ELSE requests[k]]
  BY DEF ChangeChart
<1>3. \A k \in asked : /\ k \in Series /\ AtRest(samples[k])
                       /\ by[k] \in Source /\ new[by[k]] = k
  BY <1>2 DEF SeriesKey
<1> HIDE DEF asked, now
<1>4. \A k \in Series : samples[k] \in Entry(Samples)
  BY DEF ChartInv, ChartTypeOK
<1>5. \A k \in Series :
        /\ samples'[k] \in Entry(Samples)
        /\ k \in asked => samples'[k].fetch = "asked"
        /\ k \notin asked => samples'[k] = samples[k]
  BY <1>1, <1>3, <1>4, AskedEntry
<1>6. \A k \in Series :
        /\ k \in asked => /\ requests'[k] \in [of : Series, by : Source]
                          /\ requests'[k].of = k /\ new[requests'[k].by] = k
        /\ k \notin asked => requests'[k] = requests[k]
  BY <1>2, <1>3
<1>7. samples' \in [Series -> Entry(Samples)]
  BY <1>1, <1>5
<1>8. requests' \in [Series -> [of : Series, by : Source] \cup {Unplotted}]
  <2>1. \A k \in Series : requests'[k] \in [of : Series, by : Source] \cup {Unplotted}
    BY <1>6 DEF ChartInv, ChartTypeOK
  <2> QED
    BY <1>2, <2>1
<1>9. ChartTypeOK'
  BY <1>1, <1>3, <1>7, <1>8 DEF ChartTypeOK
<1>10. RequestsAreOfTheirEntry'
  BY <1>5, <1>6 DEF ChartInv, RequestsAreOfTheirEntry
<1>11. CurrentEntriesAreOfTheirSource'
  BY <1>1, <1>3, <1>5, <1>6 DEF CurrentEntriesAreOfTheirSource
<1> QED
  BY <1>9, <1>10, <1>11 DEF ChartInv

\* One entry is asked for, answered or delivered, or fails.
LEMMA OneEntryStep ==
    ASSUME ChartInv, NEW k \in Series, NEW q \in Entry(Samples),
           NEW request \in [of : Series, by : Source] \cup {Unplotted},
           samples' = [samples EXCEPT ![k] = q], requests' = [requests EXCEPT ![k] = request],
           UNCHANGED <<plotted, applies>>, current' \in {current, current \cup {k}},
           q.fetch \in {"asked", "answered"} => request \in [of : Series, by : Source] /\ request.of = k,
           q.fetch = "answered" => /\ q.answer \in Samples /\ q.answer.by = request.by
                                   /\ q.answer.of \in {k, Unplotted},
           k \in current' => /\ q.fetch \in {"asked", "answered"} => plotted[request.by] = k
                             /\ q.fetch = "idle" => /\ q.data \in Samples
                                                    /\ plotted[q.data.by] = k
                                                    /\ q.data.of \in {k, Unplotted}
    PROVE  ChartInv'
<1>1. /\ samples'[k] = q /\ requests'[k] = request
      /\ \A j \in Series \ {k} : samples'[j] = samples[j] /\ requests'[j] = requests[j]
  BY DEF ChartInv, ChartTypeOK
<1>2. ChartTypeOK'
  BY DEF ChartInv, ChartTypeOK
<1>3. RequestsAreOfTheirEntry'
  BY <1>1 DEF ChartInv, RequestsAreOfTheirEntry
<1>4. CurrentEntriesAreOfTheirSource'
  <2> SUFFICES ASSUME NEW j \in current'
               PROVE  /\ samples'[j].fetch \in {"asked", "answered"} => plotted[requests'[j].by] = j
                      /\ samples'[j].fetch = "idle" => /\ samples'[j].data \in Samples
                                                       /\ plotted[samples'[j].data.by] = j
                                                       /\ samples'[j].data.of \in {j, Unplotted}
    BY DEF CurrentEntriesAreOfTheirSource
  <2>1. CASE j = k
    BY <1>1, <2>1
  <2>2. CASE j # k
    BY <1>1, <2>2 DEF ChartInv, ChartTypeOK, CurrentEntriesAreOfTheirSource
  <2> QED
    BY <2>1, <2>2
<1> QED
  BY <1>2, <1>3, <1>4 DEF ChartInv

LEMMA RefetchSamplesStep ==
    ASSUME ChartInv, NEW s \in Source, RefetchSamples(s)
    PROVE  ChartInv'
<1> DEFINE k == KeyOfSource(s)
<1>1. k = plotted[s] /\ k \in Series
  BY DEF RefetchSamples, KeyOfSource, SeriesKey, Plotted, ChartInv, ChartTypeOK
<1>2. /\ AtRest(samples[k]) /\ samples' = [samples EXCEPT ![k] = Ask(samples[k])]
      /\ requests' = [requests EXCEPT ![k] = [of |-> plotted[s], by |-> s]]
      /\ current' = current \cup {k} /\ UNCHANGED <<plotted, applies>>
  BY DEF RefetchSamples
<1> HIDE DEF k
<1>3. samples[k] \in Entry(Samples)
  BY <1>1 DEF ChartInv, ChartTypeOK
<1>4. Ask(samples[k]) \in Entry(Samples) /\ Ask(samples[k]).fetch = "asked"
  BY <1>2, <1>3, AskedEntry
<1> DEFINE request == [of |-> plotted[s], by |-> s]
<1>5. request \in [of : Series, by : Source] /\ request.of = k /\ request.by = s
  BY <1>1
<1>6. requests' = [requests EXCEPT ![k] = request]
  BY <1>2
<1> HIDE DEF request
<1> QED
  BY <1>1, <1>2, <1>4, <1>5, <1>6, OneEntryStep

LEMMA AnswerSamplesStep ==
    ASSUME ChartInv, NEW k \in Series, AnswerSamples(k)
    PROVE  ChartInv'
<1>1. /\ samples[k].fetch = "asked" /\ UNCHANGED <<plotted, requests, applies, current>>
      /\ samples[k] \in Entry(Samples)
  BY DEF AnswerSamples, ChartInv, ChartTypeOK
<1>2. requests[k] \in [of : Series, by : Source] /\ requests[k].of = k
  BY <1>1 DEF ChartInv, RequestsAreOfTheirEntry
<1>3. PICK of \in {requests[k].of, Unplotted} :
        samples' = [samples EXCEPT ![k] = Answer(samples[k], [of |-> of, by |-> requests[k].by])]
  BY DEF AnswerSamples
<1> DEFINE answer == [of |-> of, by |-> requests[k].by]
           q      == Answer(samples[k], answer)
<1>4. answer \in Samples /\ answer.by = requests[k].by /\ answer.of \in {k, Unplotted}
  BY <1>2, <1>3 DEF Samples
<1>5. samples' = [samples EXCEPT ![k] = q]
  BY <1>3
<1> HIDE DEF answer
<1>6. q \in Entry(Samples) /\ q.answer = answer /\ q.fetch = "answered"
  BY <1>1, <1>4, AnsweredEntry
<1> HIDE DEF q
<1>7. requests' = [requests EXCEPT ![k] = requests[k]]
  BY <1>1 DEF ChartInv, ChartTypeOK
<1>8. k \in current => plotted[requests[k].by] = k
  BY <1>1 DEF ChartInv, CurrentEntriesAreOfTheirSource
<1> QED
  BY <1>1, <1>2, <1>4, <1>5, <1>6, <1>7, <1>8, OneEntryStep

LEMMA DeliverSamplesStep ==
    ASSUME ChartInv, NEW k \in Series, DeliverSamples(k)
    PROVE  ChartInv'
<1> DEFINE q == Deliver(samples[k])
<1>1. /\ samples[k].fetch = "answered" /\ UNCHANGED <<plotted, applies, current>>
      /\ samples' = [samples EXCEPT ![k] = q] /\ requests' = [requests EXCEPT ![k] = Unplotted]
      /\ samples[k] \in Entry(Samples)
  BY DEF DeliverSamples, ChartInv, ChartTypeOK
<1>2. q \in Entry(Samples) /\ q.data = samples[k].answer /\ q.fetch = "idle"
  BY <1>1, DeliveredEntry
<1> HIDE DEF q
<1>3. /\ samples[k].answer \in Samples /\ samples[k].answer.by = requests[k].by
      /\ samples[k].answer.of \in {k, Unplotted}
  BY <1>1 DEF ChartInv, RequestsAreOfTheirEntry
<1>4. k \in current => plotted[requests[k].by] = k
  BY <1>1 DEF ChartInv, CurrentEntriesAreOfTheirSource
<1> QED
  BY <1>1, <1>2, <1>3, <1>4, OneEntryStep

LEMMA FailSamplesStep ==
    ASSUME ChartInv, NEW k \in Series, FailSamples(k)
    PROVE  ChartInv'
<1> DEFINE q == Fail(samples[k])
<1>1. /\ UNCHANGED <<plotted, applies, current>> /\ samples[k] \in Entry(Samples)
      /\ samples' = [samples EXCEPT ![k] = q] /\ requests' = [requests EXCEPT ![k] = Unplotted]
  BY DEF FailSamples, ChartInv, ChartTypeOK
<1>2. q \in Entry(Samples) /\ q.fetch = "failed"
  BY <1>1, FailedEntry
<1> HIDE DEF q
<1> QED
  BY <1>1, <1>2, OneEntryStep

LEMMA ChartSteps == ChartInv /\ [ChartNext]_chartVars => ChartInv'
<1> SUFFICES ASSUME ChartInv, [ChartNext]_chartVars PROVE ChartInv'
  OBVIOUS
<1>1. CASE UNCHANGED chartVars
  BY <1>1 DEF chartVars, ChartInv, ChartTypeOK, RequestsAreOfTheirEntry,
              CurrentEntriesAreOfTheirSource
<1> QED
  BY <1>1, ChangeChartStep, RefetchSamplesStep, AnswerSamplesStep, DeliverSamplesStep,
     FailSamplesStep, Zenon
     DEF ChartNext

\* Sources, samples and the fetches of them keep their types, for any number of sources.
THEOREM ChartTypes == ChartSpec => []ChartTypeOK
<1>1. ChartInit => ChartInv
  BY ChartStart
<1>2. ChartInv => ChartTypeOK
  BY DEF ChartInv
<1> QED
  BY <1>1, <1>2, ChartSteps, PTL DEF ChartSpec

\* An entry that one source alone measures has the samples that this source asked for.
LEMMA ChartIsRight == ChartInv => RefetchedChartIsRight
<1> SUFFICES ASSUME ChartInv,
                    \A s \in Plotted : /\ KeyOfSource(s) \in current
                                       /\ samples[KeyOfSource(s)].fetch = "idle",
                    \A s, t \in Plotted : s # t => plotted[s] # plotted[t],
                    NEW s \in Plotted
             PROVE  \/ Drawn(s) = {plotted[s]}
                    \/ Drawn(s) = {} /\ samples[KeyOfSource(s)].data.of = Unplotted
  BY DEF RefetchedChartIsRight
<1>1. ASSUME NEW t \in Plotted
      PROVE  /\ KeyOfSource(t) = plotted[t] /\ plotted[t] # Unplotted
             /\ samples[plotted[t]].data # NoData /\ samples[plotted[t]].data.by = t
             /\ samples[plotted[t]].data.of \in {plotted[t], Unplotted}
  <2>1. KeyOfSource(t) = plotted[t] /\ plotted[t] # Unplotted
    BY DEF KeyOfSource, SeriesKey, Plotted
  <2>2. /\ samples[plotted[t]].data \in Samples
        /\ plotted[samples[plotted[t]].data.by] = plotted[t]
        /\ samples[plotted[t]].data.of \in {plotted[t], Unplotted}
    BY <2>1 DEF ChartInv, CurrentEntriesAreOfTheirSource
  <2>3. samples[plotted[t]].data.by \in Plotted
    BY <2>1, <2>2 DEF Samples, Plotted
  <2> QED
    BY <2>1, <2>2, <2>3, NoSamplesAreUndefined
<1>2. \A k \in Observed : samples[k].data # NoData /\ samples[k].data.by = s => k = plotted[s]
  BY <1>1 DEF Observed
<1>3. plotted[s] \in Observed
  BY <1>1 DEF Observed
<1>4. {k \in Observed : samples[k].data # NoData /\ samples[k].data.by = s} = {plotted[s]}
  BY <1>1, <1>2, <1>3
<1>5. Drawn(s) = {samples[plotted[s]].data.of} \ {Unplotted}
  BY <1>4 DEF Drawn
<1> QED
  BY <1>1, <1>5

\* Once everything drawn was asked for after the last change and no two sources
\* measure the same, each line is drawn from its own source's samples, or there are none.
THEOREM RefetchedChartsAreRight == ChartSpec => []RefetchedChartIsRight
<1>1. ChartInit => ChartInv
  BY ChartStart
<1> QED
  BY <1>1, ChartSteps, ChartIsRight, PTL DEF ChartSpec

-----------------------------------------------------------------------------
(***************************************************************************)
(* WidgetForm.  No two sources have the same id, and none is given out     *)
(* twice: a picker is one source's, however the list grows and shrinks.    *)
(***************************************************************************)
OneEach(items, made) ==
    /\ \A i \in DOMAIN items : items[i].id <= made
    /\ \A i, j \in DOMAIN items : items[i].id = items[j].id => i = j

InStep(item, lines, chosen) ==
    item.id \in chosen /\ item.unit # Unset =>
        /\ lines[item.id] = LineOf[item.unit]
        /\ item.line = LineOf[item.unit]
        /\ item.measure \in MeasuresOf[item.unit] \cup {Unset}

AllInStep(items, lines, chosen) == \A i \in DOMAIN items : InStep(items[i], lines, chosen)

FormStates == [open : BOOLEAN, kind : {"list", "single", "card"}, items : Items,
            made : 0 .. MaxSources]

WidgetInv ==
    /\ WidgetTypeOK /\ widget \in FormStates
    /\ OneEach(applied, widget.made) /\ OneEach(widget.items, widget.made)
    /\ widget.kind \in {"list", "single"} => AllInStep(widget.items, pickers, repicked)

LEMMA WidgetBounds == MaxItems \in Nat /\ MaxSources \in Nat
BY WidgetConstants

\* The lists, as sequences.
LEMMA ItemLists ==
    /\ \A items \in Items : /\ items \in Seq(Item) /\ Len(items) <= MaxItems
                            /\ DOMAIN items = 1 .. Len(items)
    /\ \A items \in Seq(Item) : Len(items) <= MaxItems => items \in Items
    /\ <<>> \in Items
<1>1. ASSUME NEW items \in Items
      PROVE  /\ items \in Seq(Item) /\ Len(items) <= MaxItems
             /\ DOMAIN items = 1 .. Len(items)
  <2>1. PICK n \in 0 .. MaxItems : items \in [1 .. n -> Item]
    BY DEF Items, SeqOf
  <2>2. n \in Nat /\ n <= MaxItems
    BY <2>1, WidgetBounds
  <2>3. items \in Seq(Item)
    BY <2>1, <2>2, SeqDef
  <2>4. Len(items) = n /\ DOMAIN items = 1 .. n
    BY <2>1, <2>2, <2>3, LenProperties
  <2> QED
    BY <2>2, <2>3, <2>4
<1>2. ASSUME NEW items \in Seq(Item), Len(items) <= MaxItems
      PROVE  items \in Items
  <2>1. Len(items) \in Nat /\ items \in [1 .. Len(items) -> Item]
    BY LenProperties
  <2>2. Len(items) \in 0 .. MaxItems
    BY <1>2, <2>1, WidgetBounds
  <2> QED
    BY <2>1, <2>2 DEF Items, SeqOf
<1>3. <<>> \in Items
  <2>1. <<>> \in [1 .. 0 -> Item] /\ 0 \in 0 .. MaxItems
    BY WidgetBounds
  <2> QED
    BY <2>1 DEF Items, SeqOf
<1> QED
  BY <1>1, <1>2, <1>3

\* A list without the i-th of its elements.
LEMMA Without ==
    ASSUME NEW S, NEW s \in Seq(S), NEW i \in 1 .. Len(s)
    PROVE  /\ RemoveAt(s, i) \in Seq(S) /\ Len(RemoveAt(s, i)) = Len(s) - 1
           /\ \A j \in 1 .. Len(s) - 1 :
                 RemoveAt(s, i)[j] = IF j < i THEN s[j] ELSE s[j + 1]
<1> DEFINE before == SubSeq(s, 1, i - 1)
           after  == SubSeq(s, i + 1, Len(s))
<1>1. /\ before \in Seq(S) /\ Len(before) = i - 1
      /\ \A j \in 1 .. i - 1 : before[j] = s[j]
  <2>1. \A j \in 1 .. i - 1 : s[j] \in S
    OBVIOUS
  <2> QED
    BY <2>1, SubSeqProperties
<1>2. /\ after \in Seq(S) /\ Len(after) = Len(s) - i
      /\ \A j \in 1 .. Len(s) - i : after[j] = s[i + j]
  <2>1. \A j \in i + 1 .. Len(s) : s[j] \in S
    OBVIOUS
  <2> QED
    BY <2>1, SubSeqProperties
<1>3. RemoveAt(s, i) = before \o after
  BY DEF RemoveAt
<1> HIDE DEF before, after
<1>4. /\ before \o after \in Seq(S) /\ Len(before \o after) = Len(s) - 1
      /\ \A j \in 1 .. Len(s) - 1 :
            (before \o after)[j] = IF j <= i - 1 THEN before[j] ELSE after[j - (i - 1)]
  <2>1. Len(before) + Len(after) = Len(s) - 1
    BY <1>1, <1>2
  <2>2. /\ before \o after \in Seq(S)
        /\ Len(before \o after) = Len(before) + Len(after)
        /\ \A j \in 1 .. Len(before) + Len(after) :
              (before \o after)[j] = IF j <= Len(before) THEN before[j]
                                     ELSE after[j - Len(before)]
    BY <1>1, <1>2, ConcatProperties
  <2> QED
    BY <1>1, <2>1, <2>2
<1>5. ASSUME NEW j \in 1 .. Len(s) - 1
      PROVE  (before \o after)[j] = IF j < i THEN s[j] ELSE s[j + 1]
  <2>1. CASE j < i
    BY <1>1, <1>4, <2>1
  <2>2. CASE ~(j < i)
    <3>1. j - (i - 1) \in 1 .. Len(s) - i /\ i + (j - (i - 1)) = j + 1 /\ ~(j <= i - 1)
      BY <2>2
    <3> QED
      BY <1>2, <1>4, <2>2, <3>1
  <2> QED
    BY <2>1, <2>2
<1> QED
  BY <1>3, <1>4, <1>5

LEMMA NewItems ==
    ASSUME NEW id \in Id
    PROVE  /\ NewItem(id) \in Item /\ NewItem(id).id = id
           /\ \A lines, chosen : InStep(NewItem(id), lines, chosen)
BY DEF NewItem, Item, InStep

\* What the form shows is a list like the others; a source that is shown but not in
\* the list yet is a new one.
LEMMA ShownList ==
    ASSUME WidgetInv, MaxItems # 0, Made <= MaxSources
    PROVE  /\ ShownItems \in Items /\ Made \in widget.made .. MaxSources
           /\ OneEach(ShownItems, Made)
           /\ widget.kind \in {"list", "single"} => AllInStep(ShownItems, pickers, repicked)
           /\ DOMAIN ShownItems = 1 .. Len(ShownItems) /\ Len(ShownItems) >= 1
<1>1. widget.made \in 0 .. MaxSources /\ widget.items \in Items
  BY DEF WidgetInv, WidgetTypeOK
<1>2. CASE widget.items = <<>>
  <2>1. Made = widget.made + 1 /\ ShownItems = <<NewItem(Made)>> /\ Made \in Id
    BY <1>1, <1>2, WidgetBounds DEF Made, ShownItems, Id
  <2>2. NewItem(Made) \in Item /\ NewItem(Made).id = Made
    BY <2>1, NewItems
  <2>3. /\ ShownItems \in Seq(Item) /\ Len(ShownItems) = 1 /\ ShownItems[1] = NewItem(Made)
        /\ DOMAIN ShownItems = 1 .. 1
    BY <2>1, <2>2
  <2>4. ShownItems \in Items
    <3>1. Len(ShownItems) <= MaxItems
      BY <2>3, WidgetBounds
    <3> QED
      BY <2>3, <3>1, ItemLists
  <2>5. OneEach(ShownItems, Made)
    BY <2>1, <2>2, <2>3 DEF OneEach, Id
  <2>6. AllInStep(ShownItems, pickers, repicked)
    BY <2>1, <2>3, NewItems DEF AllInStep
  <2> QED
    BY <1>1, <2>1, <2>3, <2>4, <2>5, <2>6
<1>3. CASE widget.items # <<>>
  <2>1. Made = widget.made /\ ShownItems = widget.items
    BY <1>3 DEF Made, ShownItems
  <2>2. DOMAIN ShownItems = 1 .. Len(ShownItems) /\ Len(ShownItems) >= 1
    BY <1>1, <1>3, <2>1, ItemLists
  <2> QED
    BY <1>1, <2>1, <2>2 DEF WidgetInv
<1> QED
  BY <1>2, <1>3

\* One source of a list is changed and keeps its id.
LEMMA OneItemChanged ==
    ASSUME NEW items \in Items, NEW made, OneEach(items, made), NEW i \in DOMAIN items,
           NEW item \in Item, item.id = items[i].id
    PROVE  /\ [items EXCEPT ![i] = item] \in Items
           /\ DOMAIN [items EXCEPT ![i] = item] = DOMAIN items
           /\ OneEach([items EXCEPT ![i] = item], made)
<1> DEFINE next == [items EXCEPT ![i] = item]
<1>1. /\ items \in Seq(Item) /\ Len(items) <= MaxItems /\ DOMAIN items = 1 .. Len(items)
  BY ItemLists
<1>2. next \in Seq(Item) /\ Len(next) = Len(items) /\ DOMAIN next = DOMAIN items
  BY <1>1
<1>3. next \in Items
  BY <1>1, <1>2, ItemLists
<1>4. \A j \in DOMAIN items : next[j].id = items[j].id
  BY <1>1
<1> HIDE DEF next
<1>5. OneEach(next, made)
  BY <1>2, <1>4 DEF OneEach
<1> QED
  BY <1>2, <1>3, <1>5 DEF next

LEMMA WidgetFields ==
    ASSUME WidgetInv, NEW items \in Items, NEW made \in 0 .. MaxSources
    PROVE  /\ [widget EXCEPT !.items = items, !.made = made] \in FormStates
           /\ [widget EXCEPT !.items = items, !.made = made].kind = widget.kind
           /\ [widget EXCEPT !.items = items, !.made = made].items = items
           /\ [widget EXCEPT !.items = items, !.made = made].made = made
BY DEF WidgetInv, FormStates

LEMMA WidgetTurned ==
    ASSUME WidgetInv, NEW items \in Items, NEW open \in BOOLEAN
    PROVE  /\ [widget EXCEPT !.open = open, !.items = items] \in FormStates
           /\ [widget EXCEPT !.open = open, !.items = items].kind = widget.kind
           /\ [widget EXCEPT !.open = open, !.items = items].items = items
           /\ [widget EXCEPT !.open = open, !.items = items].made = widget.made
BY DEF WidgetInv, FormStates

LEMMA WidgetListed ==
    ASSUME WidgetInv, NEW items \in Items
    PROVE  /\ [widget EXCEPT !.items = items] \in FormStates
           /\ [widget EXCEPT !.items = items].kind = widget.kind
           /\ [widget EXCEPT !.items = items].items = items
           /\ [widget EXCEPT !.items = items].made = widget.made
BY DEF WidgetInv, FormStates

\* A longer count of ids is as good.
LEMMA MoreMade ==
    ASSUME NEW items \in Items, NEW made \in Int, NEW more \in Int, made <= more,
           OneEach(items, made)
    PROVE  OneEach(items, more)
<1>1. \A i \in DOMAIN items : items[i].id \in Int
  <2>1. items \in Seq(Item) /\ DOMAIN items = 1 .. Len(items)
    BY ItemLists
  <2>2. \A i \in DOMAIN items : items[i] \in Item
    BY <2>1
  <2> QED
    BY <2>2 DEF Item, Id
<1> QED
  BY <1>1 DEF OneEach

\* What is to be shown of a step.
LEMMA WidgetKept ==
    ASSUME WidgetInv, NEW items \in Items, NEW made \in widget.made .. MaxSources,
           widget' \in FormStates, widget'.kind = widget.kind, widget'.items = items,
           widget'.made = made, applied' \in {applied, widget.items}, OneEach(items, made),
           pickers' \in [Id -> ShopLine \cup {Unset}], repicked' \subseteq Id,
           linesKnown' \in BOOLEAN, unitsKnown' \subseteq ShopLine, measuresKnown' \subseteq Unit,
           widget.kind \in {"list", "single"} => AllInStep(items, pickers', repicked')
    PROVE  WidgetInv'
<1>1. applied' \in Items
  BY DEF WidgetInv, WidgetTypeOK
<1>2. WidgetTypeOK'
  BY <1>1 DEF WidgetTypeOK, FormStates
<1>3. OneEach(applied', made)
  <2>1. widget.made \in Int /\ made \in Int /\ widget.made <= made
    BY WidgetBounds DEF WidgetInv, WidgetTypeOK
  <2>2. OneEach(applied', widget.made)
    BY DEF WidgetInv
  <2> QED
    BY <1>1, <2>1, <2>2, MoreMade
<1> QED
  BY <1>2, <1>3 DEF WidgetInv

LEMMA WidgetStart == ASSUME WidgetInit PROVE WidgetInv
<1>1. widget \in FormStates /\ widget.items = <<>> /\ widget.made = 0 /\ applied = <<>>
  <2>1. <<>> \in Items /\ 0 \in 0 .. MaxSources
    BY ItemLists, WidgetBounds
  <2> QED
    BY <2>1 DEF WidgetInit, FormStates
<1>2. WidgetTypeOK
  BY <1>1, ItemLists DEF WidgetInit, WidgetTypeOK, FormStates
<1>3. \A n : OneEach(<<>>, n)
  BY DEF OneEach
<1>4. AllInStep(<<>>, pickers, repicked)
  BY DEF AllInStep
<1> QED
  BY <1>1, <1>2, <1>3, <1>4 DEF WidgetInv

LEMMA ItemFields ==
    ASSUME NEW item \in Item
    PROVE  /\ item.id \in Id /\ item.unit \in Unit \cup {Unset}
           /\ item.measure \in Measure \cup {Unset} /\ item.line \in ShopLine \cup {Unset}
BY DEF Item

LEMMA OtherUnit ==
    ASSUME NEW item \in Item, NEW unit \in Unit \cup {Unset}
    PROVE  [item EXCEPT !.unit = unit] \in Item /\ [item EXCEPT !.unit = unit].id = item.id
BY DEF Item

LEMMA ShownElements ==
    ASSUME WidgetInv, NEW i \in 1 .. MaxItems, HasItem(i)
    PROVE  /\ MaxItems # 0 /\ Made <= MaxSources /\ i \in DOMAIN ShownItems
           /\ \A j \in DOMAIN ShownItems : ShownItems[j] \in Item
<1>1. MaxItems # 0 /\ Made <= MaxSources /\ i \in DOMAIN ShownItems
  BY DEF HasItem
<1>2. ShownItems \in Seq(Item) /\ DOMAIN ShownItems = 1 .. Len(ShownItems)
  BY <1>1, ShownList, ItemLists
<1> QED
  BY <1>1, <1>2, ElementOfSeq

\* One picker's source is changed: the others and their pickers stay.
LEMMA ItemStep ==
    ASSUME WidgetInv, NEW i \in 1 .. MaxItems, HasItem(i), NEW item \in Item,
           item.id = ShownItems[i].id, UpdateItem(i, item),
           pickers' \in [Id -> ShopLine \cup {Unset}], repicked' \subseteq Id,
           widget.kind \in {"list", "single"} => InStep(item, pickers', repicked'),
           \A d \in Id \ {item.id} : /\ pickers'[d] = pickers[d]
                                     /\ d \in repicked' => d \in repicked
    PROVE  WidgetInv'
<1> DEFINE next == [ShownItems EXCEPT ![i] = item]
<1>1. /\ ShownItems \in Items /\ Made \in widget.made .. MaxSources
      /\ OneEach(ShownItems, Made) /\ i \in DOMAIN ShownItems
      /\ widget.kind \in {"list", "single"} => AllInStep(ShownItems, pickers, repicked)
      /\ \A j \in DOMAIN ShownItems : ShownItems[j] \in Item
  BY ShownElements, ShownList
<1>2. next \in Items /\ DOMAIN next = DOMAIN ShownItems /\ OneEach(next, Made)
  BY <1>1, OneItemChanged
<1>3. /\ widget' = [widget EXCEPT !.items = next, !.made = Made]
      /\ UNCHANGED <<applied, linesKnown, unitsKnown, measuresKnown>>
  BY DEF UpdateItem
<1>4. \A j \in DOMAIN next : next[j] = IF j = i THEN item ELSE ShownItems[j]
  <2>1. ShownItems \in Seq(Item) /\ DOMAIN ShownItems = 1 .. Len(ShownItems)
    BY <1>1, ItemLists
  <2> QED
    BY <1>1, <1>2, <2>1, ExceptSeq
<1> HIDE DEF next
<1>5. widget.kind \in {"list", "single"} => AllInStep(next, pickers', repicked')
  <2> SUFFICES ASSUME widget.kind \in {"list", "single"}, NEW j \in DOMAIN next
               PROVE  InStep(next[j], pickers', repicked')
    BY DEF AllInStep
  <2>1. CASE j = i
    BY <1>4, <2>1
  <2>2. CASE j # i
    <3>1. next[j] = ShownItems[j] /\ j \in DOMAIN ShownItems
      BY <1>2, <1>4, <2>2
    <3>2. next[j].id \in Id /\ next[j].id # item.id
      BY <1>1, <2>2, <3>1, ItemFields DEF OneEach
    <3>3. InStep(next[j], pickers, repicked)
      BY <1>1, <3>1 DEF AllInStep
    <3> QED
      BY <3>2, <3>3 DEF InStep
  <2> QED
    BY <2>1, <2>2
<1>6. Made \in 0 .. MaxSources
  BY <1>1, WidgetBounds DEF WidgetInv, WidgetTypeOK
<1>7. /\ widget' \in FormStates /\ widget'.kind = widget.kind /\ widget'.items = next
      /\ widget'.made = Made
  BY <1>2, <1>3, <1>6, WidgetFields
<1>8. /\ linesKnown' \in BOOLEAN /\ unitsKnown' \subseteq ShopLine /\ measuresKnown' \subseteq Unit
      /\ applied' = applied
  BY <1>3 DEF WidgetInv, WidgetTypeOK
<1> QED
  BY <1>1, <1>2, <1>5, <1>7, <1>8, WidgetKept

LEMMA ChooseLineStep ==
    ASSUME WidgetInv, NEW i \in 1 .. MaxItems, NEW line \in ShopLine \cup {Unset},
           ChooseLine(i, line)
    PROVE  WidgetInv'
<1> DEFINE item == IF widget.kind = "card" THEN ShownItems[i] ELSE NewItem(ShownItems[i].id)
<1>1. /\ HasItem(i) /\ UpdateItem(i, item)
      /\ pickers' = [pickers EXCEPT ![ShownItems[i].id] = Settle(line, linesKnown)]
      /\ repicked' = repicked \ {ShownItems[i].id}
  BY DEF ChooseLine
<1>2. ShownItems[i] \in Item /\ ShownItems[i].id \in Id
  BY <1>1, ShownElements, ItemFields
<1>3. item \in Item /\ item.id = ShownItems[i].id
  BY <1>2, NewItems
<1>4. item.id \notin repicked'
  BY <1>1, <1>3
<1> HIDE DEF item
<1>5. /\ pickers' \in [Id -> ShopLine \cup {Unset}] /\ repicked' \subseteq Id
      /\ \A d \in Id \ {item.id} : /\ pickers'[d] = pickers[d]
                                   /\ d \in repicked' => d \in repicked
  BY <1>1, <1>3, WidgetConstants DEF Settle, WidgetInv, WidgetTypeOK
<1>6. InStep(item, pickers', repicked')
  BY <1>4 DEF InStep
<1> QED
  BY <1>1, <1>3, <1>5, <1>6, ItemStep

LEMMA ChooseUnitStep ==
    ASSUME WidgetInv, NEW i \in 1 .. MaxItems, NEW unit \in Unit \cup {Unset},
           ChooseUnit(i, unit)
    PROVE  WidgetInv'
<1> DEFINE item == Picked(ShownItems[i], unit, PickerLine(i))
<1>1. /\ HasItem(i) /\ UpdateItem(i, item) /\ pickers' = pickers
      /\ repicked' = repicked \cup {ShownItems[i].id}
      /\ unit # Unset => LineOf[unit] = PickerLine(i)
  BY DEF ChooseUnit
<1>2. ShownItems[i] \in Item /\ ShownItems[i].id \in Id
  BY <1>1, ShownElements, ItemFields
<1>3. PickerLine(i) \in ShopLine \cup {Unset} /\ PickerLine(i) = pickers[ShownItems[i].id]
  BY <1>2 DEF PickerLine, WidgetInv, WidgetTypeOK
<1>4. CASE widget.kind = "card"
  <2>1. item = [ShownItems[i] EXCEPT !.unit = unit]
    BY <1>4 DEF Picked
  <2>2. item \in Item /\ item.id = ShownItems[i].id
    BY <1>2, <2>1, OtherUnit
  <2> HIDE DEF item
  <2>3. widget.kind \notin {"list", "single"}
    BY <1>4
  <2>4. /\ pickers' \in [Id -> ShopLine \cup {Unset}] /\ repicked' \subseteq Id
        /\ \A d \in Id \ {item.id} : /\ pickers'[d] = pickers[d]
                                     /\ d \in repicked' => d \in repicked
    BY <1>1, <1>2, <2>2 DEF WidgetInv, WidgetTypeOK
  <2> QED
    BY <1>1, <2>2, <2>3, <2>4, ItemStep
<1>5. CASE widget.kind # "card"
  <2>1. item = [ShownItems[i] EXCEPT !.unit = unit, !.measure = Unset, !.line = PickerLine(i)]
    BY <1>5 DEF Picked
  <2> HIDE DEF item
  <2>2. item = [id |-> ShownItems[i].id, unit |-> unit, measure |-> Unset,
                line |-> PickerLine(i)]
    BY <1>2, <2>1 DEF Item
  <2>3. /\ item \in Item /\ item.id = ShownItems[i].id /\ item.unit = unit
        /\ item.measure = Unset /\ item.line = PickerLine(i)
    BY <1>2, <1>3, <2>2 DEF Item
  <2>4. /\ pickers' \in [Id -> ShopLine \cup {Unset}] /\ repicked' \subseteq Id
        /\ \A d \in Id \ {item.id} : /\ pickers'[d] = pickers[d]
                                     /\ d \in repicked' => d \in repicked
    BY <1>1, <1>2, <2>3 DEF WidgetInv, WidgetTypeOK
  <2>5. InStep(item, pickers', repicked')
    BY <1>1, <1>3, <2>3 DEF InStep
  <2> QED
    BY <1>1, <2>3, <2>4, <2>5, ItemStep
<1> QED
  BY <1>4, <1>5

LEMMA ChooseMeasureStep ==
    ASSUME WidgetInv, NEW i \in 1 .. MaxItems, NEW measure \in Measure \cup {Unset},
           ChooseMeasure(i, measure)
    PROVE  WidgetInv'
<1> DEFINE old  == ShownItems[i]
           line == IF widget.kind = "card" THEN old.line
                   ELSE IF PickerLine(i) # Unset THEN PickerLine(i) ELSE old.line
<1>1. /\ HasItem(i) /\ UNCHANGED <<pickers, repicked>>
      /\ measure # Unset => measure \in MeasuresOf[old.unit]
  BY DEF ChooseMeasure
<1>2. old \in Item /\ old.id \in Id /\ old.line \in ShopLine \cup {Unset}
      /\ old.unit \in Unit \cup {Unset} /\ i \in DOMAIN ShownItems
  BY <1>1, ShownElements, ItemFields
<1>3. PickerLine(i) \in ShopLine \cup {Unset} /\ PickerLine(i) = pickers[old.id]
  BY <1>2 DEF PickerLine, WidgetInv, WidgetTypeOK
<1>4. line \in ShopLine \cup {Unset}
  BY <1>2, <1>3
<1>5. widget.kind \in {"list", "single"} => InStep(old, pickers, repicked)
  BY <1>1, <1>2, ShownElements, ShownList DEF AllInStep
<1>6. /\ widget.kind # "card" /\ pickers[old.id] \in ShopLine => line = pickers[old.id]
  BY <1>3, WidgetConstants
<1>7. UpdateItem(i, [old EXCEPT !.measure = measure, !.line = line])
  BY DEF ChooseMeasure
<1> HIDE DEF old, line
<1> DEFINE item == [old EXCEPT !.measure = measure, !.line = line]
<1>8. UpdateItem(i, item)
  BY <1>7
<1>9. /\ item \in Item /\ item.id = old.id /\ item.unit = old.unit
      /\ item.measure = measure /\ item.line = line
  <2>1. item = [old EXCEPT !.measure = measure, !.line = line]
    OBVIOUS
  <2> HIDE DEF item
  <2>2. item = [id |-> old.id, unit |-> old.unit, measure |-> measure, line |-> line]
    BY <1>2, <2>1 DEF Item
  <2> QED
    BY <1>2, <1>4, <2>2 DEF Item
<1> HIDE DEF item
<1>10. ASSUME widget.kind \in {"list", "single"}
      PROVE  InStep(item, pickers, repicked)
  <2> SUFFICES ASSUME old.id \in repicked, old.unit # Unset
               PROVE  /\ pickers[old.id] = LineOf[old.unit] /\ line = LineOf[old.unit]
                      /\ measure \in MeasuresOf[old.unit] \cup {Unset}
    BY <1>9 DEF InStep
  <2>1. pickers[old.id] = LineOf[old.unit]
    BY <1>5, <1>10 DEF InStep
  <2>2. LineOf[old.unit] \in ShopLine
    BY <1>2, WidgetConstants
  <2> QED
    BY <1>1, <1>6, <1>10, <2>1, <2>2
<1>11. /\ pickers' \in [Id -> ShopLine \cup {Unset}] /\ repicked' \subseteq Id
       /\ \A d \in Id \ {item.id} : /\ pickers'[d] = pickers[d]
                                    /\ d \in repicked' => d \in repicked
       /\ item.id = ShownItems[i].id
  BY <1>1, <1>9 DEF WidgetInv, WidgetTypeOK, old
<1>12. widget.kind \in {"list", "single"} => InStep(item, pickers', repicked')
  BY <1>1, <1>10
<1> QED
  BY <1>1, <1>8, <1>9, <1>11, <1>12, ItemStep

LEMMA AddItemStep ==
    ASSUME WidgetInv, AddItem
    PROVE  WidgetInv'
<1> DEFINE next == Append(ShownItems, NewItem(Made + 1))
<1>1. /\ Len(ShownItems) < MaxItems /\ Made < MaxSources /\ widget.kind = "list"
      /\ widget' = [widget EXCEPT !.items = next, !.made = Made + 1]
      /\ pickers' = [pickers EXCEPT ![Made + 1] = Settle(Unset, linesKnown)]
      /\ UNCHANGED <<applied, linesKnown, unitsKnown, measuresKnown, repicked>>
  BY DEF AddItem
<1>2. widget.made \in Nat /\ Made \in Int
  BY DEF WidgetInv, WidgetTypeOK, Made
<1>3. MaxItems # 0
  <2>1. CASE widget.items = <<>>
    <3>1. Len(ShownItems) = 1
      BY <2>1 DEF ShownItems
    <3> QED
      BY <1>1, <3>1
  <2>2. CASE widget.items # <<>>
    <3>1. ShownItems \in Seq(Item)
      BY <2>2, ItemLists DEF ShownItems, WidgetInv, WidgetTypeOK
    <3> QED
      BY <1>1, <3>1, LenProperties
  <2> QED
    BY <2>1, <2>2
<1>4. /\ ShownItems \in Items /\ Made \in widget.made .. MaxSources
      /\ OneEach(ShownItems, Made) /\ AllInStep(ShownItems, pickers, repicked)
      /\ ShownItems \in Seq(Item) /\ DOMAIN ShownItems = 1 .. Len(ShownItems)
  BY <1>1, <1>2, <1>3, ShownList, ItemLists, WidgetBounds
<1>5. Made + 1 \in Id /\ Made + 1 \in widget.made .. MaxSources /\ Made + 1 \in 0 .. MaxSources
  BY <1>1, <1>2, <1>4, WidgetBounds DEF Id
<1>6. NewItem(Made + 1) \in Item /\ NewItem(Made + 1).id = Made + 1
  BY <1>5, NewItems
<1>7. /\ next \in Seq(Item) /\ Len(next) = Len(ShownItems) + 1
      /\ next[Len(ShownItems) + 1] = NewItem(Made + 1)
      /\ \A j \in 1 .. Len(ShownItems) : next[j] = ShownItems[j]
      /\ DOMAIN next = 1 .. Len(ShownItems) + 1 /\ Len(ShownItems) \in Nat
  BY <1>4, <1>6
<1> HIDE DEF next
<1>8. next \in Items
  <2>1. Len(next) <= MaxItems
    BY <1>1, <1>7, WidgetBounds
  <2> QED
    BY <1>7, <2>1, ItemLists
<1>9. \A j \in 1 .. Len(ShownItems) : ShownItems[j].id \in Id /\ ShownItems[j].id <= Made
  BY <1>4, ElementOfSeq, ItemFields DEF OneEach
<1>10. OneEach(next, Made + 1)
  <2>1. \A j \in DOMAIN next : next[j].id <= Made + 1
    BY <1>2, <1>6, <1>7, <1>9 DEF Id
  <2>2. ASSUME NEW j \in DOMAIN next, NEW k \in DOMAIN next, next[j].id = next[k].id
        PROVE  j = k
    <3>1. CASE j \in 1 .. Len(ShownItems) /\ k \in 1 .. Len(ShownItems)
      BY <1>4, <1>7, <2>2, <3>1 DEF OneEach
    <3>2. CASE j = Len(ShownItems) + 1 /\ k \in 1 .. Len(ShownItems)
      BY <1>2, <1>6, <1>7, <1>9, <2>2, <3>2 DEF Id
    <3>3. CASE k = Len(ShownItems) + 1 /\ j \in 1 .. Len(ShownItems)
      BY <1>2, <1>6, <1>7, <1>9, <2>2, <3>3 DEF Id
    <3>4. CASE j = Len(ShownItems) + 1 /\ k = Len(ShownItems) + 1
      BY <3>4
    <3> QED
      BY <1>7, <3>1, <3>2, <3>3, <3>4
  <2> QED
    BY <2>1, <2>2 DEF OneEach
<1>11. /\ pickers' \in [Id -> ShopLine \cup {Unset}] /\ repicked' = repicked
       /\ \A d \in Id \ {Made + 1} : pickers'[d] = pickers[d]
  BY <1>1, <1>5, WidgetConstants DEF Settle, WidgetInv, WidgetTypeOK
<1>12. AllInStep(next, pickers', repicked')
  <2> SUFFICES ASSUME NEW j \in DOMAIN next PROVE InStep(next[j], pickers', repicked')
    BY DEF AllInStep
  <2>1. CASE j = Len(ShownItems) + 1
    BY <1>5, <1>7, <2>1, NewItems
  <2>2. CASE j \in 1 .. Len(ShownItems)
    <3>1. next[j] = ShownItems[j] /\ InStep(ShownItems[j], pickers, repicked)
      BY <1>4, <1>7, <2>2 DEF AllInStep
    <3>2. ShownItems[j].id \in Id \ {Made + 1}
      BY <1>2, <1>9, <2>2 DEF Id
    <3> QED
      BY <1>11, <3>1, <3>2 DEF InStep
  <2> QED
    BY <1>7, <2>1, <2>2
<1>13. /\ widget' \in FormStates /\ widget'.kind = widget.kind /\ widget'.items = next
       /\ widget'.made = Made + 1
  BY <1>1, <1>5, <1>8, WidgetFields
<1>14. /\ linesKnown' \in BOOLEAN /\ unitsKnown' \subseteq ShopLine /\ measuresKnown' \subseteq Unit
       /\ applied' = applied /\ repicked' \subseteq Id
  BY <1>1 DEF WidgetInv, WidgetTypeOK
<1> QED
  BY <1>5, <1>8, <1>10, <1>11, <1>12, <1>13, <1>14, WidgetKept

LEMMA RemoveItemStep ==
    ASSUME WidgetInv, NEW i \in 1 .. MaxItems, RemoveItem(i)
    PROVE  WidgetInv'
<1> DEFINE items == widget.items
           next  == RemoveAt(items, i)
<1>1. /\ HasItem(i) /\ widget.kind = "list" /\ Len(ShownItems) > 1
      /\ widget' = [widget EXCEPT !.items = next]
      /\ UNCHANGED <<applied, pickers, linesKnown, unitsKnown, measuresKnown, repicked>>
  BY DEF RemoveItem, PickersWithout
<1>2. ShownItems = items
  <2>1. CASE items = <<>>
    <3>1. Len(ShownItems) = 1
      BY <2>1 DEF ShownItems
    <3> QED
      BY <1>1, <3>1
  <2> QED
    BY <2>1 DEF ShownItems
<1>3. items \in Seq(Item) /\ Len(items) <= MaxItems /\ DOMAIN items = 1 .. Len(items)
      /\ i \in 1 .. Len(items)
  BY <1>1, <1>2, ItemLists DEF WidgetInv, WidgetTypeOK, HasItem
<1>4. Len(items) \in Nat
  BY <1>3, LenProperties
<1>5. /\ next \in Seq(Item) /\ Len(next) = Len(items) - 1
      /\ \A j \in 1 .. Len(items) - 1 : next[j] = IF j < i THEN items[j] ELSE items[j + 1]
  BY <1>3, Without
<1>6. OneEach(items, widget.made) /\ AllInStep(items, pickers, repicked)
  BY <1>1 DEF WidgetInv
<1> HIDE DEF next, items
<1>7. DOMAIN next = 1 .. Len(items) - 1
  BY <1>5, LenProperties
<1>8. next \in Items
  <2>1. Len(next) <= MaxItems
    BY <1>3, <1>4, <1>5, WidgetBounds
  <2> QED
    BY <1>5, <2>1, ItemLists
<1>9. \A j \in DOMAIN next : LET k == IF j < i THEN j ELSE j + 1
                             IN k \in DOMAIN items /\ next[j] = items[k]
  BY <1>3, <1>4, <1>5, <1>7
<1>10. OneEach(next, widget.made)
  <2>1. \A j \in DOMAIN next : next[j].id <= widget.made
    BY <1>6, <1>9 DEF OneEach
  <2>2. ASSUME NEW j \in DOMAIN next, NEW k \in DOMAIN next, next[j].id = next[k].id
        PROVE  j = k
    <3>1. (IF j < i THEN j ELSE j + 1) = (IF k < i THEN k ELSE k + 1)
      BY <1>6, <1>9, <2>2 DEF OneEach
    <3> QED
      BY <1>3, <1>4, <1>7, <3>1
  <2> QED
    BY <2>1, <2>2 DEF OneEach
<1>11. AllInStep(next, pickers', repicked')
  BY <1>1, <1>6, <1>9 DEF AllInStep
<1>12. /\ widget' \in FormStates /\ widget'.kind = widget.kind /\ widget'.items = next
       /\ widget'.made = widget.made
  BY <1>1, <1>8, WidgetListed
<1>13. /\ linesKnown' \in BOOLEAN /\ unitsKnown' \subseteq ShopLine /\ measuresKnown' \subseteq Unit
       /\ applied' = applied /\ repicked' \subseteq Id
       /\ pickers' \in [Id -> ShopLine \cup {Unset}]
       /\ widget.made \in widget.made .. MaxSources
  BY <1>1, WidgetBounds DEF WidgetInv, WidgetTypeOK
<1> QED
  BY <1>8, <1>10, <1>11, <1>12, <1>13, WidgetKept

\* The form is opened on what was applied, closed, or applied.
LEMMA FormSteps ==
    ASSUME WidgetInv, OpenWidget \/ CloseWidget \/ ApplyWidget
    PROVE  WidgetInv'
<1>1. PICK items \in {applied, <<>>}, open \in BOOLEAN :
        widget' = [widget EXCEPT !.open = open, !.items = items]
  BY DEF OpenWidget, CloseWidget, ApplyWidget
<1>2. items \in Items /\ widget.made \in 0 .. MaxSources
  BY <1>1, ItemLists DEF WidgetInv, WidgetTypeOK
<1>3. /\ widget' \in FormStates /\ widget'.kind = widget.kind /\ widget'.items = items
      /\ widget'.made = widget.made
  BY <1>1, <1>2, WidgetTurned
<1>4. applied' \in {applied, widget.items}
  BY DEF OpenWidget, CloseWidget, ApplyWidget
<1>5. OneEach(items, widget.made)
  BY <1>1 DEF OneEach, WidgetInv
<1>6. AllInStep(items, pickers', repicked')
  <2>1. CASE OpenWidget
    BY <2>1 DEF OpenWidget, AllInStep, InStep
  <2>2. CASE CloseWidget \/ ApplyWidget
    <3>1. widget' = [widget EXCEPT !.open = FALSE, !.items = <<>>]
      BY <2>2 DEF CloseWidget, ApplyWidget
    <3>2. items = <<>>
      BY <1>2, <1>3, <3>1, ItemLists, WidgetTurned
    <3> QED
      BY <3>2 DEF AllInStep
  <2> QED
    BY <2>1, <2>2
<1>7. /\ linesKnown' \in BOOLEAN /\ unitsKnown' \subseteq ShopLine /\ measuresKnown' \subseteq Unit
      /\ repicked' \subseteq Id
  BY DEF OpenWidget, CloseWidget, ApplyWidget, WidgetInv, WidgetTypeOK
<1>8. pickers' \in [Id -> ShopLine \cup {Unset}]
  BY WidgetConstants DEF OpenWidget, CloseWidget, ApplyWidget, WidgetInv, WidgetTypeOK, Settle
<1>9. widget.made \in widget.made .. MaxSources
  BY <1>2, WidgetBounds
<1> QED
  BY <1>2, <1>3, <1>4, <1>5, <1>6, <1>7, <1>8, <1>9, WidgetKept

\* What the pickers ask for arrives: a picker that shows a line keeps it.
LEMMA ArrivalSteps ==
    ASSUME WidgetInv,
           \/ LinesArrive \/ UNCHANGED widgetVars
           \/ \E line \in ShopLine : UnitsArrive(line)
           \/ \E unit \in Unit : MeasuresArrive(unit)
    PROVE  WidgetInv'
<1>1. UNCHANGED <<applied, widget, repicked>>
  BY DEF LinesArrive, UnitsArrive, MeasuresArrive, widgetVars
<1>2. /\ linesKnown' \in BOOLEAN /\ unitsKnown' \subseteq ShopLine /\ measuresKnown' \subseteq Unit
  BY DEF LinesArrive, UnitsArrive, MeasuresArrive, widgetVars, WidgetInv, WidgetTypeOK
<1>3. /\ pickers' \in [Id -> ShopLine \cup {Unset}]
      /\ \A d \in Id : pickers[d] \in ShopLine => pickers'[d] = pickers[d]
  BY WidgetConstants DEF LinesArrive, UnitsArrive, MeasuresArrive, widgetVars, WidgetInv,
                         WidgetTypeOK, Settle
<1>4. widget.items \in Seq(Item) /\ DOMAIN widget.items = 1 .. Len(widget.items)
  BY ItemLists DEF WidgetInv, WidgetTypeOK
<1>5. ASSUME AllInStep(widget.items, pickers, repicked)
      PROVE  AllInStep(widget.items, pickers', repicked)
  <2> SUFFICES ASSUME NEW i \in DOMAIN widget.items
               PROVE  InStep(widget.items[i], pickers', repicked)
    BY DEF AllInStep
  <2> DEFINE item == widget.items[i]
  <2>1. item \in Item /\ InStep(item, pickers, repicked)
    BY <1>4, <1>5, ElementOfSeq DEF AllInStep
  <2> HIDE DEF item
  <2>2. item.id \in Id /\ (item.unit # Unset => LineOf[item.unit] \in ShopLine)
    BY <2>1, ItemFields, WidgetConstants
  <2>3. InStep(item, pickers', repicked)
    BY <1>3, <2>1, <2>2 DEF InStep
  <2> QED
    BY <2>3 DEF item
<1> QED
  BY <1>1, <1>2, <1>3, <1>5 DEF WidgetInv, WidgetTypeOK

LEMMA WidgetSteps == WidgetInv /\ [WidgetNext]_widgetVars => WidgetInv'
BY ChooseLineStep, ChooseUnitStep, ChooseMeasureStep, AddItemStep, RemoveItemStep, FormSteps,
   ArrivalSteps, Zenon DEF WidgetNext

\* The form, the list it applies and the pickers keep their types, for any number of
\* sources in it.
THEOREM WidgetTypes == WidgetSpec => []WidgetTypeOK
<1>1. WidgetInit => WidgetInv
  BY WidgetStart
<1>2. WidgetInv => WidgetTypeOK
  BY DEF WidgetInv
<1> QED
  BY <1>1, <1>2, WidgetSteps, PTL DEF WidgetSpec

\* A source whose machine was chosen in this form stays in step with it, however many
\* sources are added, removed and changed around it.
THEOREM SourcesMatchTheirMachines == WidgetSpec => []SourceMatchesItsMachine
<1>1. WidgetInit => WidgetInv
  BY WidgetStart
<1>2. WidgetInv => SourceMatchesItsMachine
  BY DEF WidgetInv, SourceMatchesItsMachine, AllInStep, InStep
<1> QED
  BY <1>1, <1>2, WidgetSteps, PTL DEF WidgetSpec

-----------------------------------------------------------------------------
(***************************************************************************)
(* Console.  A step of the browser is a step of the page it is on, and no  *)
(* step of the others: each page behaves in it as in its own module.       *)
(***************************************************************************)
LEMMA PageStarts ==
    ASSUME ConsoleInit
    PROVE  /\ page \in Page
           /\ ConfigInit /\ BoardInit /\ RegisterInit /\ RuleInit /\ SessionInit /\ TreeInit
           /\ EventInit /\ WidgetInit /\ ChartInit /\ FleetInit /\ KeyInit
BY DEF ConsoleInit

OnAPage == page \in Page

LEMMA StaysOnAPage == OnAPage /\ [ConsoleNext]_consoleVars => OnAPage'
BY DEF ConsoleNext, Rest, consoleVars, OnAPage

LEMMA ConfigMoves == [ConsoleNext]_consoleVars => [ConfigNext]_configVars
BY DEF ConsoleNext, Rest, consoleVars

LEMMA BoardMoves == [ConsoleNext]_consoleVars => [BoardNext]_boardVars
BY DEF ConsoleNext, Rest, consoleVars

LEMMA RegisterMoves == [ConsoleNext]_consoleVars => [RegisterNext]_registerVars
BY DEF ConsoleNext, Rest, consoleVars

LEMMA RuleMoves == [ConsoleNext]_consoleVars => [RuleNext]_ruleVars
BY DEF ConsoleNext, Rest, consoleVars

LEMMA SessionMoves == [ConsoleNext]_consoleVars => [SessionNext]_sessionVars
BY DEF ConsoleNext, Rest, consoleVars

LEMMA TreeMoves == [ConsoleNext]_consoleVars => [TreeNext]_treeVars
BY DEF ConsoleNext, Rest, consoleVars

LEMMA EventMoves == [ConsoleNext]_consoleVars => [EventNext]_eventVars
BY DEF ConsoleNext, Rest, consoleVars

LEMMA WidgetMoves == [ConsoleNext]_consoleVars => [WidgetNext]_widgetVars
BY DEF ConsoleNext, Rest, consoleVars

LEMMA ChartMoves == [ConsoleNext]_consoleVars => [ChartNext]_chartVars
BY DEF ConsoleNext, Rest, consoleVars

LEMMA FleetPageMoves == [ConsoleNext]_consoleVars => [FleetPageNext]_fleetVars
BY DEF ConsoleNext, Rest, consoleVars

LEMMA KeyMoves == [ConsoleNext]_consoleVars => [KeyNext]_keyVars
BY DEF ConsoleNext, Rest, consoleVars

\* What is proved of a page in its own module holds of it in the console.
THEOREM ConsoleRunsPages ==
    ConsoleSpec => /\ ConfigSpec /\ BoardSpec /\ RegisterSpec /\ RuleSpec /\ SessionSpec /\ TreeSpec
                   /\ EventSpec /\ WidgetSpec /\ ChartSpec /\ FleetPageSpec /\ KeySpec
<1>1. ConsoleSpec => ConfigSpec
  BY PageStarts, ConfigMoves, PTL DEF ConsoleSpec, ConfigSpec
<1>2. ConsoleSpec => BoardSpec
  BY PageStarts, BoardMoves, PTL DEF ConsoleSpec, BoardSpec
<1>3. ConsoleSpec => RegisterSpec
  BY PageStarts, RegisterMoves, PTL DEF ConsoleSpec, RegisterSpec
<1>4. ConsoleSpec => RuleSpec
  BY PageStarts, RuleMoves, PTL DEF ConsoleSpec, RuleSpec
<1>5. ConsoleSpec => SessionSpec
  BY PageStarts, SessionMoves, PTL DEF ConsoleSpec, SessionSpec
<1>6. ConsoleSpec => TreeSpec
  BY PageStarts, TreeMoves, PTL DEF ConsoleSpec, TreeSpec
<1>7. ConsoleSpec => EventSpec
  BY PageStarts, EventMoves, PTL DEF ConsoleSpec, EventSpec
<1>8. ConsoleSpec => WidgetSpec
  BY PageStarts, WidgetMoves, PTL DEF ConsoleSpec, WidgetSpec
<1>9. ConsoleSpec => ChartSpec
  BY PageStarts, ChartMoves, PTL DEF ConsoleSpec, ChartSpec
<1>10. ConsoleSpec => FleetPageSpec
  BY PageStarts, FleetPageMoves, PTL DEF ConsoleSpec, FleetPageSpec
<1>11. ConsoleSpec => KeySpec
  BY PageStarts, KeyMoves, PTL DEF ConsoleSpec, KeySpec
<1> QED
  BY <1>1, <1>2, <1>3, <1>4, <1>5, <1>6, <1>7, <1>8, <1>9, <1>10, <1>11

LEMMA TreeTypes == TreeSpec => []TreeTypeOK
<1>1. TreeInit => TreeInv
  BY TreeStart
<1>2. TreeInv => TreeTypeOK
  BY DEF TreeInv
<1> QED
  BY <1>1, <1>2, TreeSteps, PTL DEF TreeSpec

LEMMA EventTypes == EventSpec => []EventTypeOK
<1>1. EventInit => EventInv
  BY EventStart
<1>2. EventInv => EventTypeOK
  BY DEF EventInv
<1> QED
  BY <1>1, <1>2, EventSteps, PTL DEF EventSpec

LEMMA FleetTypes == FleetPageSpec => []FleetTypeOK
<1>1. FleetInit => FleetInv
  BY FleetStart
<1>2. FleetInv => FleetTypeOK
  BY DEF FleetInv
<1> QED
  BY <1>1, <1>2, FleetPageSteps, PTL DEF FleetPageSpec

LEMMA KeyTypes == KeySpec => []KeyTypeOK
<1>1. KeyInit => KeyInv
  BY KeyStart
<1>2. KeyInv => KeyTypeOK
  BY DEF KeyInv
<1> QED
  BY <1>1, <1>2, KeySteps, PTL DEF KeySpec

\* Whatever page the tab is on, every table, cache entry, dialog and request of every
\* page keeps its shape.
THEOREM ConsoleTypes == ConsoleSpec => []ConsoleTypeOK
<1>1. ConsoleSpec => []OnAPage
  <2>1. ConsoleInit => OnAPage
    BY PageStarts DEF OnAPage
  <2> QED
    BY <2>1, StaysOnAPage, PTL DEF ConsoleSpec
<1>2. ConsoleSpec => /\ []ConfigTypeOK /\ []BoardTypeOK /\ []RegisterTypeOK /\ []RuleTypeOK
                     /\ []SessionTypeOK /\ []TreeTypeOK /\ []EventTypeOK /\ []WidgetTypeOK
                     /\ []ChartTypeOK /\ []FleetTypeOK /\ []KeyTypeOK
  BY ConsoleRunsPages, ConfigTypes, BoardTypes, RegisterTypes, RuleTypes, SessionTypes, TreeTypes,
     EventTypes, WidgetTypes, ChartTypes, FleetTypes, KeyTypes
<1>3. /\ OnAPage
      /\ ConfigTypeOK /\ BoardTypeOK /\ RegisterTypeOK /\ RuleTypeOK /\ SessionTypeOK /\ TreeTypeOK
      /\ EventTypeOK /\ WidgetTypeOK /\ ChartTypeOK /\ FleetTypeOK /\ KeyTypeOK
      => ConsoleTypeOK
  BY DEF ConsoleTypeOK, OnAPage
<1> QED
  BY <1>1, <1>2, <1>3, PTL

\* The promises of the pages, kept in the one browser that shows them all.
PagePromises ==
    /\ AckedSaveIsShown /\ ViewShowsOwnSave /\ SavedRowsAreStored /\ RuleWatchesItsMachine
    /\ CallRunsOnce /\ LiveSessionIsRenewed /\ DeletedSiteNotReselected /\ DeletionShownInBoth
    /\ RowsMatchView /\ AckIsShown /\ SourceMatchesItsMachine /\ RefetchedChartIsRight
    /\ OrderIsListed /\ KeyIsShownOnce

\* Every invariant of a page is one of the console.
THEOREM PagesKeepTheirPromises == ConsoleSpec => []PagePromises
<1>1. ConsoleSpec => /\ []AckedSaveIsShown /\ []ViewShowsOwnSave /\ []SavedRowsAreStored
                     /\ []RuleWatchesItsMachine /\ []CallRunsOnce /\ []LiveSessionIsRenewed
                     /\ []DeletedSiteNotReselected /\ []DeletionShownInBoth /\ []RowsMatchView
                     /\ []AckIsShown /\ []SourceMatchesItsMachine /\ []RefetchedChartIsRight
                     /\ []OrderIsListed /\ []KeyIsShownOnce
  BY ConsoleRunsPages, AckedSavesAreShown, SavesAreViewed, SavedRowsAreKept, RulesWatchTheirMachines,
     CallsRunOnce, LiveSessionsAreRenewed, DeletedSitesStayUnselected, DeletionsAreShownInBoth,
     RowsAreOfTheView, AcksAreShown, SourcesMatchTheirMachines, RefetchedChartsAreRight,
     OrdersAreListed, KeysAreShownOnce
<1> QED
  BY <1>1, PTL DEF PagePromises

\* So is what no step of a page may do one of the console's steps: no copy becomes
\* older, and no dialog closes by itself on a list that misses what it did, unless the
\* refetch it waited for failed.
THEOREM PagesNeverDoHarm ==
    ConsoleSpec => /\ ConfigCopyNeverGoesBack /\ BoardCopyNeverGoesBack
                   /\ ConcludedIsShown /\ NewPartIsShown
BY ConsoleRunsPages, ConfigCopiesAreCached, BoardCopiesAreCached, ConcludedCallsAreShown,
   NewPartsAreShown
=============================================================================
