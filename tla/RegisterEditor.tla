--------------------------- MODULE RegisterEditor ---------------------------
(***************************************************************************)
(* RegisterTable of one machine with its CsvImportDialog: the rows being   *)
(* edited, the file being imported, the copy from another machine, the     *)
(* request that saves the rows, the cached copy they are filled from and   *)
(* machines.modbus_config, which holds the registers and the connection.   *)
(*                                                                         *)
(* The table is filled anew when the registers that arrive are not, byte   *)
(* for byte, those it was filled from last; the server completes what it   *)
(* is sent, so that what comes back need not be what was saved.            *)
(***************************************************************************)
EXTENDS Integers, Sequences, QueryCache

CONSTANTS
    RegisterName,   \* names of registers
    Unnamed,        \* the empty name
    Scale,          \* scales, 0 among them
    MaxRows,        \* bound: rows of the table
    File,           \* what an import file may hold
    Connection,     \* host, port and unit of a machine
    NoMachine,      \* the machine was deleted
    MaxMachineWrites \* bound: writes to the machine

ASSUME RegisterConstants ==
    /\ Unnamed \notin RegisterName
    /\ {0, 1} \subseteq Scale
    /\ MaxRows \in Nat
    /\ MaxMachineWrites \in Nat

VARIABLES
    machine,       \* modbus_config of the row of machines
    machineWrites, \* how often it was written
    registerQuery, \* the cache entry ['machine-registers', id]
    table,         \* the rows on the page and the registers they were filled from
    importer,      \* the import dialog
    copyFrom,      \* the registers of another machine, on their way
    registerCall,  \* the PUT of the registers in flight
    stored         \* history: "save" when the last write is the page's, "shown" once
                   \* it has the reply, unless a first fetch was in flight by then, and
                   \* whether rows were touched since

registerVars == <<machine, machineWrites, registerQuery, table, importer, copyFrom,
                  registerCall, stored>>

Row  == [name : RegisterName \cup {Unnamed}, scale : Scale]
Rows == UNION {[1 .. n -> Row] : n \in 0 .. MaxRows}
NewRow == [name |-> Unnamed, scale |-> 1]

\* applyRegisterDefaults (and CsvImportDialog's parseCSV): a scale of 0 becomes 1.
Completed(row) == IF row.scale = 0 THEN [row EXCEPT !.scale = 1] ELSE row
CompletedRows(rows) == [i \in DOMAIN rows |-> Completed(rows[i])]
Valid(rows) == \A i \in DOMAIN rows : rows[i].name # Unnamed
Registers == {rows \in Rows : Valid(rows) /\ CompletedRows(rows) = rows}
ASSUME RegisterData ==
    /\ \A regs \in Registers : regs # NoData
    /\ File \subseteq Rows

MachineRow == [registers : Registers, connection : Connection]
NoCopyFrom == [stage |-> "none"]
NoSaveRegisters == [stage |-> "none"]
ClosedTable == [open |-> FALSE, rows |-> <<>>, filledFrom |-> NoData]
ClosedImporter == [open |-> FALSE, parsed |-> <<>>, reading |-> {}]

RegisterInit ==
    /\ machine \in [registers : {<<>>}, connection : Connection]
    /\ machineWrites = 0
    /\ registerQuery = Empty
    /\ table = ClosedTable
    /\ importer = ClosedImporter
    /\ copyFrom = NoCopyFrom
    /\ registerCall = NoSaveRegisters
    /\ stored = [by |-> "others", touched |-> FALSE]

-----------------------------------------------------------------------------
(* The table. *)

Fill(data) == [open |-> TRUE, rows |-> data, filledFrom |-> data]

OpenTable ==
    /\ ~table.open
    /\ table' = IF registerQuery.data = NoData THEN [ClosedTable EXCEPT !.open = TRUE]
                ELSE Fill(registerQuery.data)
    /\ registerQuery' = Ask(registerQuery)
    /\ UNCHANGED <<machine, machineWrites, importer, copyFrom, registerCall, stored>>

\* The machine's section is folded: what was typed and what was parsed is gone.  A
\* save still in flight is from now on one of the others' writes.
CloseTable ==
    /\ table.open
    /\ table' = ClosedTable
    /\ importer' = ClosedImporter
    /\ copyFrom' = NoCopyFrom
    /\ registerCall' = NoSaveRegisters
    /\ stored' = [by |-> "others", touched |-> FALSE]
    /\ UNCHANGED <<machine, machineWrites, registerQuery>>

\* While the first copy is on its way there are no rows to edit; if it does not come,
\* the table is shown empty.
Shows == table.open /\ (registerQuery.data # NoData \/ AtRest(registerQuery))

PutRows(rows) ==
    /\ rows \in Rows
    /\ table' = [table EXCEPT !.rows = rows]
    /\ stored' = [stored EXCEPT !.touched = TRUE]
    /\ UNCHANGED <<machine, machineWrites, registerQuery, registerCall>>

AddRow ==
    /\ Shows /\ ~importer.open
    /\ PutRows(Append(table.rows, NewRow))
    /\ UNCHANGED <<importer, copyFrom>>

UpdateRow(i, row) ==
    /\ Shows /\ ~importer.open
    /\ i \in DOMAIN table.rows
    /\ PutRows([table.rows EXCEPT ![i] = row])
    /\ UNCHANGED <<importer, copyFrom>>

DeleteRow(i) ==
    /\ Shows /\ ~importer.open
    /\ i \in DOMAIN table.rows
    /\ PutRows(SubSeq(table.rows, 1, i - 1) \o SubSeq(table.rows, i + 1, Len(table.rows)))
    /\ UNCHANGED <<importer, copyFrom>>

SaveRegisters ==
    /\ Shows /\ ~importer.open
    /\ registerCall = NoSaveRegisters
    /\ registerCall' = [stage |-> "sent", body |-> table.rows]
    /\ stored' = [by |-> "others", touched |-> FALSE]
    /\ UNCHANGED <<machine, machineWrites, registerQuery, table, importer, copyFrom>>

\* The choice of a machine to copy from asks for its registers; what is typed
\* until they arrive is overwritten, unless there are none.
CopyFrom(regs) ==
    /\ Shows /\ ~importer.open
    /\ copyFrom = NoCopyFrom
    /\ copyFrom' = [stage |-> "asked", registers |-> regs]
    /\ UNCHANGED <<machine, machineWrites, registerQuery, table, importer, registerCall, stored>>

CopyArrives ==
    /\ copyFrom # NoCopyFrom
    /\ copyFrom' = NoCopyFrom
    /\ IF copyFrom.registers = <<>>
       THEN UNCHANGED <<machine, machineWrites, registerQuery, table, registerCall, stored>>
       ELSE PutRows(copyFrom.registers)
    /\ UNCHANGED importer

CopyFails ==
    /\ copyFrom # NoCopyFrom
    /\ copyFrom' = NoCopyFrom
    /\ UNCHANGED <<machine, machineWrites, registerQuery, table, importer, registerCall, stored>>

-----------------------------------------------------------------------------
(* The import dialog. *)

ImporterOnly == UNCHANGED <<machine, machineWrites, registerQuery, table, copyFrom,
                            registerCall, stored>>

OpenImporter ==
    /\ Shows /\ ~importer.open
    /\ importer' = [importer EXCEPT !.open = TRUE]
    /\ ImporterOnly

\* The choice of a file forgets the rows of the one before, and reads it.
ChooseFile(file) ==
    /\ importer.open
    /\ importer' = [importer EXCEPT !.parsed = <<>>, !.reading = @ \cup {file}]
    /\ ImporterOnly

\* reader.onload: in any order, and also when the dialog is closed by then.  The rows
\* of a CSV file are completed, those of a JSON file taken as they are.
FileRead(file) ==
    /\ file \in importer.reading
    /\ \E rows \in {file, CompletedRows(file)} :
        importer' = [importer EXCEPT !.parsed = rows, !.reading = @ \ {file}]
    /\ ImporterOnly

\* In the mode chosen by then.  The table closes the dialog; what was parsed stays in it.
Import(mode) ==
    /\ importer.open
    /\ importer.parsed # <<>>
    /\ PutRows(IF mode = "replace" THEN importer.parsed ELSE table.rows \o importer.parsed)
    /\ importer' = [importer EXCEPT !.open = FALSE]
    /\ UNCHANGED copyFrom

CancelImport ==
    /\ importer.open
    /\ importer' = [ClosedImporter EXCEPT !.reading = importer.reading]
    /\ ImporterOnly

-----------------------------------------------------------------------------
(* The server. *)

WriteMachine(row, by) ==
    /\ machineWrites < MaxMachineWrites
    /\ machineWrites' = machineWrites + 1
    /\ machine' = row
    /\ stored' = [stored EXCEPT !.by = by]
    /\ UNCHANGED <<registerQuery, table, importer, copyFrom>>

\* SetRegisters: defaults, then validation, then a merge into modbus_config.
ApplyRegisters ==
    /\ registerCall.stage = "sent"
    /\ Valid(registerCall.body)
    /\ machine # NoMachine
    /\ WriteMachine([machine EXCEPT !.registers = CompletedRows(registerCall.body)], "save")
    /\ registerCall' = [stage |-> "done"]

\* The UPDATE finds no row, and the reply is the same.
ApplyToNothing ==
    /\ registerCall.stage = "sent"
    /\ Valid(registerCall.body)
    /\ machine = NoMachine
    /\ registerCall' = [stage |-> "done"]
    /\ UNCHANGED <<machine, machineWrites, registerQuery, table, importer, copyFrom, stored>>

OthersSetRegisters(regs) ==
    /\ machine # NoMachine
    /\ WriteMachine([machine EXCEPT !.registers = regs], "others")
    /\ UNCHANGED registerCall

\* UpdateMachine with a host replaces the whole of modbus_config.
OthersConnect(connection) ==
    /\ machine # NoMachine
    /\ WriteMachine([registers |-> <<>>, connection |-> connection], "others")
    /\ UNCHANGED registerCall

OthersDeleteMachine ==
    /\ machine # NoMachine
    /\ WriteMachine(NoMachine, "others")
    /\ UNCHANGED registerCall

-----------------------------------------------------------------------------
(* The replies. *)

RefetchRegisters ==
    /\ table.open
    /\ AtRest(registerQuery)
    /\ registerQuery' = Ask(registerQuery)
    /\ UNCHANGED <<machine, machineWrites, table, importer, copyFrom, registerCall, stored>>

SavedWhenSettled ==
    registerCall' = IF registerCall.stage = "settling" THEN NoSaveRegisters ELSE registerCall

AnswerRegisters ==
    /\ registerQuery.fetch = "asked"
    /\ machine # NoMachine
    /\ registerQuery' = Answer(registerQuery, machine.registers)
    /\ UNCHANGED <<machine, machineWrites, table, importer, copyFrom, registerCall, stored>>

\* 404 when the machine is gone, any other error, or no answer.
FailRegisters ==
    /\ registerQuery.fetch = "asked"
    /\ registerQuery' = Fail(registerQuery)
    /\ SavedWhenSettled
    /\ UNCHANGED <<machine, machineWrites, table, importer, copyFrom, stored>>

\* The rows are set while rendering, when the key of the data is a new one.
Refilled(data) ==
    IF table.open /\ data # table.filledFrom THEN Fill(data) ELSE table

DeliverRegisters ==
    /\ registerQuery.fetch = "answered"
    /\ registerQuery' = Deliver(registerQuery)
    /\ table' = Refilled(registerQuery.answer)
    /\ stored' = [stored EXCEPT !.touched = @ /\ table'.rows = table.rows]
    /\ SavedWhenSettled
    /\ UNCHANGED <<machine, machineWrites, importer, copyFrom>>

\* The page has the reply, and what is asked for now is not an older answer.
StoredShown == [stored EXCEPT !.by = IF @ = "save" /\ ~Joins(registerQuery) THEN "shown" ELSE @]

\* Mutant of RegistersReplied: the hook forgets to invalidate.
RegistersRepliedQuietly ==
    /\ registerCall.stage = "done"
    /\ registerCall' = NoSaveRegisters
    /\ stored' = StoredShown
    /\ UNCHANGED <<machine, machineWrites, registerQuery, table, importer, copyFrom>>

RegistersReplied ==
    /\ registerCall.stage = "done"
    /\ registerCall' = [stage |-> "settling"]
    /\ registerQuery' = Invalidate(registerQuery, table.open)
    /\ stored' = StoredShown
    /\ UNCHANGED <<machine, machineWrites, table, importer, copyFrom>>

\* 400, or the request or its reply is lost: an error, and the rows stay.
RegistersFail ==
    /\ registerCall.stage \in {"sent", "done"}
    /\ registerCall' = NoSaveRegisters
    /\ UNCHANGED <<machine, machineWrites, registerQuery, table, importer, copyFrom, stored>>

RegisterNext ==
    \/ OpenTable \/ CloseTable \/ AddRow \/ SaveRegisters
    \/ \E i \in 1 .. MaxRows : DeleteRow(i) \/ \E row \in Row : UpdateRow(i, row)
    \/ \E regs \in Registers : CopyFrom(regs) \/ OthersSetRegisters(regs)
    \/ CopyArrives \/ CopyFails
    \/ OpenImporter \/ CancelImport
    \/ \E file \in File : ChooseFile(file) \/ FileRead(file)
    \/ \E mode \in {"replace", "append"} : Import(mode)
    \/ ApplyRegisters \/ ApplyToNothing \/ RegistersReplied \/ RegistersFail
    \/ \E connection \in Connection : OthersConnect(connection)
    \/ OthersDeleteMachine
    \/ RefetchRegisters \/ AnswerRegisters \/ DeliverRegisters \/ FailRegisters

RegisterSpec == RegisterInit /\ [][RegisterNext]_registerVars

-----------------------------------------------------------------------------
(* Properties. *)

RegisterTypeOK ==
    /\ machine \in MachineRow \cup {NoMachine}
    /\ machineWrites \in 0 .. MaxMachineWrites
    /\ registerQuery \in Entry(Registers)
    /\ table \in [open : BOOLEAN, rows : Rows, filledFrom : Registers \cup {NoData}]
    /\ importer \in [open : BOOLEAN, parsed : Rows, reading : SUBSET File]
    /\ \/ copyFrom = NoCopyFrom
       \/ copyFrom \in [stage : {"asked"}, registers : Registers]
    /\ \/ registerCall \in [stage : {"none", "done", "settling"}]
       \/ registerCall \in [stage : {"sent"}, body : Rows]
    /\ stored \in [by : {"others", "save", "shown"}, touched : BOOLEAN]

\* Once a save is acknowledged, nothing is on its way and the last fetch arrived, rows
\* that were not touched since it was clicked say what the table machines holds: as
\* the server completes them, for a save that changes nothing but what the server
\* completes is not shown in its completed form.  So they do whatever others wrote
\* and the table was filled with between the click and the save.  (If the refetch
\* after the save failed, they say what it was filled with then.)
SavedRowsAreStored ==
    stored.by = "shown" /\ ~stored.touched /\ registerQuery.fetch = "idle"
    /\ machine # NoMachine => CompletedRows(table.rows) = machine.registers
=============================================================================
