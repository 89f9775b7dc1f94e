---------------------------- MODULE EditorProofs ----------------------------
(***************************************************************************)
(* The editors of a worker configuration and of a dashboard.  The cached   *)
(* copy an editor is filled from is one the row has been, and never goes   *)
(* back to an older one, for any number of writes by any number of users   *)
(* and whichever fetches fail.  And what the editors promise their user:   *)
(* that the view a save opens shows the save, and that an acknowledged     *)
(* save is what the form is filled from, unless the fetch for it failed.   *)
(***************************************************************************)
EXTENDS ConfigEditor, DashboardEditor, CacheProofs

-----------------------------------------------------------------------------
(* ConfigEditor. *)

ConfigInv ==
    /\ ConfigTypeOK
    /\ EntryInOrder(configQuery, configWrites)
    /\ config # None => config.rev = configWrites

\* What a step does to the row's version and to the copy's.
ConfigCopied ==
    \/ configWrites' = configWrites + 1 /\ configQuery' = configQuery
    \/ /\ configWrites' = configWrites
       /\ Version(configQuery.data)' \in Version(configQuery.data) .. configWrites

LEMMA ConfigRows ==
    /\ Versioned(Config)
    /\ MaxConfigWrites \in Nat /\ NoHost \in Host /\ HostOf \in [Machine -> Host]
BY NoConfigIsUndefined, ConfigConstants DEF Versioned, Config

LEMMA ConfigFacts ==
    ASSUME ConfigInv
    PROVE  /\ configWrites \in Nat /\ configQuery \in Entry(Config)
           /\ EntryInOrder(configQuery, configWrites)
           /\ Version(configQuery.data) \in -1 .. configWrites
<1>1. configWrites \in Nat /\ configQuery \in Entry(Config)
  BY ConfigRows DEF ConfigInv, ConfigTypeOK
<1>2. configQuery.data \in Config \cup {NoData}
  BY <1>1 DEF Entry
<1>3. Version(configQuery.data) \in Int /\ Version(configQuery.data) >= -1
  BY <1>2, Versions, ConfigRows
<1> QED
  BY <1>1, <1>3 DEF ConfigInv, EntryInOrder

\* The row and the count, after each kind of write.
LEMMA ConfigWritten ==
    ASSUME ConfigInv, NEW row \in Config \cup {None}, NEW by, WriteConfig(row, by),
           configQuery' = configQuery
    PROVE  /\ config' \in Config \cup {None} /\ configWrites' \in 0 .. MaxConfigWrites
           /\ config' # None => config'.rev = configWrites'
           /\ lastWrite' = by
           /\ EntryInOrder(configQuery', configWrites')
           /\ ConfigCopied
<1>1. configWrites' = configWrites + 1 /\ configWrites + 1 \in 0 .. MaxConfigWrites
  BY ConfigRows DEF ConfigInv, ConfigTypeOK, WriteConfig
<1>2. EntryInOrder(configQuery', configWrites')
  BY <1>1, ConfigFacts, ConfigRows, LaterEntry
<1>3. CASE row = None
  BY <1>1, <1>2, <1>3 DEF WriteConfig, ConfigCopied
<1>4. CASE row # None
  <2>1. config' = [row EXCEPT !.rev = configWrites + 1]
    BY <1>4 DEF WriteConfig
  <2>2. config' \in Config /\ config'.rev = configWrites + 1
    BY <1>1, <1>4, <2>1 DEF Config
  <2> QED
    BY <1>1, <1>2, <2>2 DEF WriteConfig, ConfigCopied
<1> QED
  BY <1>3, <1>4

\* A step that writes nothing and leaves the entry alone.
LEMMA ConfigLeft ==
    ASSUME ConfigInv, UNCHANGED <<config, configWrites, configQuery>>
    PROVE  /\ config' \in Config \cup {None} /\ configWrites' \in 0 .. MaxConfigWrites
           /\ configQuery' \in Entry(Config)
           /\ config' # None => config'.rev = configWrites'
           /\ EntryInOrder(configQuery', configWrites')
           /\ ConfigCopied
<1>1. configQuery'.data = configQuery.data
  OBVIOUS
<1> QED
  BY <1>1, ConfigFacts DEF ConfigInv, ConfigTypeOK, ConfigCopied, Version

\* A step that writes nothing and moves the entry in order.
LEMMA ConfigAskedFor ==
    ASSUME ConfigInv, UNCHANGED <<config, configWrites>>,
           configQuery' \in Entry(Config), EntryInOrder(configQuery', configWrites),
           configQuery'.data = configQuery.data
    PROVE  /\ config' \in Config \cup {None} /\ configWrites' \in 0 .. MaxConfigWrites
           /\ config' # None => config'.rev = configWrites'
           /\ EntryInOrder(configQuery', configWrites')
           /\ ConfigCopied
BY ConfigFacts DEF ConfigInv, ConfigTypeOK, ConfigCopied, Version

-----------------------------------------------------------------------------
LEMMA FormTypes ==
    /\ ClosedForm \in Form /\ [ClosedForm EXCEPT !.state = "edit"] \in Form
    /\ \A data \in Config : FillForm(data) \in Form
    /\ \A f \in Form : /\ [f EXCEPT !.state = "new"] \in Form
                       /\ [f EXCEPT !.state = "edit"] \in Form
    /\ \A f \in Form, b \in Complete : [f EXCEPT !.basic = b] \in Form
BY DEF ClosedForm, Form, FillForm, Config, Complete, Selection, NoMachines

LEMMA FormMachineType ==
    ASSUME NEW f \in Form, NEW m \in Machine, NEW host \in Host \cup {Out}
    PROVE  [f EXCEPT !.machines[m] = host] \in Form
<1>1. [f.machines EXCEPT ![m] = host] \in Selection
  BY DEF Form, Selection
<1> QED
  BY <1>1 DEF Form

LEMMA CallTypes ==
    /\ NoCall \in BasicCall /\ NoCall \in MachinesCall
    /\ \A body \in Complete, create \in BOOLEAN :
        [stage |-> "sent", create |-> create, body |-> body] \in BasicCall
    /\ [stage |-> "done", create |-> TRUE] \in BasicCall
    /\ [stage |-> "done", create |-> FALSE] \in BasicCall
    /\ \A body \in Selection : [stage |-> "sent", body |-> body] \in MachinesCall
    /\ [stage |-> "done"] \in MachinesCall /\ [stage |-> "settling"] \in MachinesCall
BY DEF NoCall, BasicCall, MachinesCall

LEMMA CallBodies ==
    /\ \A call \in BasicCall : call.stage = "sent" => call.body \in Complete
    /\ \A call \in MachinesCall : call.stage = "sent" => call.body \in Selection
    /\ \A call \in MachinesCall : Settled(call) \in MachinesCall
BY DEF NoCall, BasicCall, MachinesCall, Settled

-----------------------------------------------------------------------------
(* The steps, by what they do to the row and to the cached copy. *)

\* The form and the requests: neither the tables nor the cache entry change.
LEMMA ConfigFormSteps ==
    ASSUME ConfigInv,
           \/ OpenNewConfig \/ LeaveConfig \/ SaveBasic \/ SaveMachines
           \/ BasicFails \/ MachinesFail
           \/ \E basic \in Complete : EditBasic(basic)
           \/ \E m \in Machine : ToggleMachine(m) \/ \E host \in Host : EditConnection(m, host)
           \/ UNCHANGED configVars
    PROVE  ConfigInv' /\ ConfigCopied
<1>1. UNCHANGED <<config, configWrites, configQuery>>
  BY DEF OpenNewConfig, LeaveConfig, SaveBasic, SaveMachines, BasicFails, MachinesFail,
         EditBasic, ToggleMachine, EditConnection, configVars
<1>2. /\ form \in Form /\ basicCall \in BasicCall /\ machinesCall \in MachinesCall
      /\ lastWrite \in {"others", "basic", "machines", "shown"}
  BY DEF ConfigInv, ConfigTypeOK
<1>3. form' \in Form
  <2>1. CASE OpenNewConfig \/ LeaveConfig \/ \E basic \in Complete : EditBasic(basic)
    BY <1>2, <2>1, FormTypes DEF OpenNewConfig, LeaveConfig, EditBasic
  <2>2. CASE \E m \in Machine : ToggleMachine(m) \/ \E host \in Host : EditConnection(m, host)
    <3>1. PICK m \in Machine : ToggleMachine(m) \/ \E host \in Host : EditConnection(m, host)
      BY <2>2
    <3>2. CASE ToggleMachine(m)
      <4>1. (IF form.machines[m] = Out THEN HostOf[m] ELSE Out) \in Host \cup {Out}
        BY ConfigRows
      <4> QED
        BY <1>2, <3>2, <4>1, FormMachineType DEF ToggleMachine
    <3>3. CASE \E host \in Host : EditConnection(m, host)
      BY <1>2, <3>3, FormMachineType DEF EditConnection
    <3> QED
      BY <3>1, <3>2, <3>3
  <2>3. CASE \/ SaveBasic \/ SaveMachines \/ BasicFails \/ MachinesFail \/ UNCHANGED configVars
    BY <1>2, <2>3 DEF SaveBasic, SaveMachines, BasicFails, MachinesFail, configVars
  <2> QED
    BY <2>1, <2>2, <2>3
<1>4. basicCall' \in BasicCall /\ machinesCall' \in MachinesCall
  <2>1. CASE SaveBasic
    BY <1>2, <2>1, CallTypes, (form.state = "new") \in BOOLEAN, Zenon DEF SaveBasic
  <2>2. CASE SaveMachines
    BY <1>2, <2>2, CallTypes DEF SaveMachines, Form
  <2>3. CASE LeaveConfig \/ BasicFails \/ MachinesFail
    BY <1>2, <2>3, CallTypes DEF LeaveConfig, BasicFails, MachinesFail
  <2>4. CASE ~(SaveBasic \/ SaveMachines \/ LeaveConfig \/ BasicFails \/ MachinesFail)
    BY <1>2, <2>4 DEF OpenNewConfig, EditBasic, ToggleMachine, EditConnection, configVars
  <2> QED
    BY <2>1, <2>2, <2>3, <2>4
<1>5. lastWrite' \in {"others", "basic", "machines", "shown"}
  BY <1>2 DEF OpenNewConfig, LeaveConfig, SaveBasic, SaveMachines, BasicFails, MachinesFail,
              EditBasic, ToggleMachine, EditConnection, configVars
<1> QED
  BY <1>1, <1>3, <1>4, <1>5, ConfigLeft DEF ConfigInv, ConfigTypeOK

\* The rows that are written.
LEMMA ConfigRowTypes ==
    ASSUME configWrites + 1 \in 1 .. MaxConfigWrites, config \in Config \cup {None}
    PROVE  /\ \A b \in Complete : CreatedRow(b) \in Config
           /\ \A b \in Complete : config # None => UpdatedRow(b) \in Config
           /\ \A ms \in Selection : config # None => [config EXCEPT !.machines = ms] \in Config
<1>1. NoMachines \in Selection /\ {0, 1, configWrites + 1} \subseteq 0 .. MaxConfigWrites
  BY ConfigRows DEF NoMachines, Selection
<1>2. \A b \in Complete : CreatedRow(b) \in Config
  BY <1>1 DEF CreatedRow, Config
<1>3. \A b \in Complete : config # None => UpdatedRow(b) \in Config
  BY <1>1 DEF UpdatedRow, Config
<1>4. \A ms \in Selection : config # None => [config EXCEPT !.machines = ms] \in Config
  BY DEF Config
<1> QED
  BY <1>2, <1>3, <1>4

\* The writes, by the page and by others.
LEMMA ConfigWrites ==
    ASSUME ConfigInv,
           \/ ApplyCreate \/ ApplyUpdate \/ ApplyMachines \/ OthersDelete
           \/ \E basic \in Complete : OthersCreate(basic) \/ OthersUpdate(basic)
           \/ \E machines \in Selection : OthersSetMachines(machines)
    PROVE  ConfigInv' /\ ConfigCopied
<1>1. /\ form \in Form /\ basicCall \in BasicCall /\ machinesCall \in MachinesCall
      /\ config \in Config \cup {None} /\ configQuery \in Entry(Config)
  BY DEF ConfigInv, ConfigTypeOK
<1>2. configWrites + 1 \in 1 .. MaxConfigWrites
  <2>1. configWrites < MaxConfigWrites
    BY DEF ApplyCreate, ApplyUpdate, ApplyMachines, OthersDelete, OthersCreate, OthersUpdate,
           OthersSetMachines, WriteConfig
  <2> QED
    BY <2>1, ConfigFacts, ConfigRows
<1>3. /\ \A b \in Complete : CreatedRow(b) \in Config
      /\ \A b \in Complete : config # None => UpdatedRow(b) \in Config
      /\ \A ms \in Selection : config # None => [config EXCEPT !.machines = ms] \in Config
  BY <1>1, <1>2, ConfigRowTypes
<1>4. \E row \in Config \cup {None}, by \in {"others", "basic", "machines"} :
        WriteConfig(row, by)
  <2>1. CASE ApplyCreate \/ ApplyUpdate
    BY <1>1, <1>3, <2>1, CallBodies DEF ApplyCreate, ApplyUpdate
  <2>2. CASE ApplyMachines
    BY <1>1, <1>3, <2>2, CallBodies DEF ApplyMachines
  <2>3. CASE OthersDelete
    BY <2>3 DEF OthersDelete
  <2>4. CASE \E basic \in Complete : OthersCreate(basic) \/ OthersUpdate(basic)
    BY <1>3, <2>4 DEF OthersCreate, OthersUpdate
  <2>5. CASE \E machines \in Selection : OthersSetMachines(machines)
    BY <1>3, <2>5 DEF OthersSetMachines
  <2> QED
    BY <2>1, <2>2, <2>3, <2>4, <2>5
<1>5. configQuery' = configQuery /\ form' = form
  BY DEF ApplyCreate, ApplyUpdate, ApplyMachines, OthersDelete, OthersCreate, OthersUpdate,
         OthersSetMachines
<1>6. basicCall' \in BasicCall /\ machinesCall' \in MachinesCall
  BY <1>1, CallTypes
     DEF ApplyCreate, ApplyUpdate, ApplyMachines, OthersDelete, OthersCreate, OthersUpdate,
         OthersSetMachines
<1> QED
  BY <1>1, <1>4, <1>5, <1>6, ConfigWritten DEF ConfigInv, ConfigTypeOK

\* The two statements of a fetch give a row that is not older than the first of them.
LEMMA ConfigReadTogether ==
    ASSUME ConfigInv, configQuery.answer # NoData
    PROVE  /\ ReadTogether(configQuery.answer) \in Config
           /\ ReadTogether(configQuery.answer).rev \in Version(configQuery.data) .. configWrites
<1> DEFINE row == configQuery.answer
<1>1. /\ row \in Config /\ row.rev \in Int /\ configWrites \in Nat
      /\ Version(configQuery.data) \in Int
      /\ Version(configQuery.data) <= row.rev /\ row.rev <= configWrites
  BY ConfigFacts, ConfigRows DEF Entry, EntryInOrder, Versioned
<1>2. config \in Config \cup {None} /\ (config # None => config.rev = configWrites)
  BY DEF ConfigInv, ConfigTypeOK
<1>3. \A machines \in Selection : /\ [row EXCEPT !.machines = machines] \in Config
                                  /\ [row EXCEPT !.machines = machines].rev = row.rev
  BY <1>1 DEF Config
<1>4. NoMachines \in Selection /\ (config # None => config.machines \in Selection)
  BY <1>2 DEF NoMachines, Selection, Config
<1>5. ReadTogether(row) \in Config /\ ReadTogether(row).rev \in {row.rev, configWrites}
  BY <1>2, <1>3, <1>4 DEF ReadTogether
<1> QED
  BY <1>1, <1>5

\* The fetches, and the replies that ask for one.
LEMMA ConfigFetches ==
    ASSUME ConfigInv,
           \/ OpenConfig \/ RefetchConfig \/ ReadConfig \/ AnswerConfig \/ FailConfig
           \/ CreateReplied \/ UpdateReplied \/ MachinesReplied
    PROVE  ConfigInv' /\ ConfigCopied
<1>1. /\ form \in Form /\ basicCall \in BasicCall /\ machinesCall \in MachinesCall
      /\ config \in Config \cup {None} /\ (config # None => config.rev = configWrites)
      /\ lastWrite \in {"others", "basic", "machines", "shown"}
  BY DEF ConfigInv, ConfigTypeOK
<1>2. configQuery.data \in Config \cup {NoData}
  BY ConfigFacts DEF Entry
<1>3. UNCHANGED <<config, configWrites>>
  BY DEF OpenConfig, RefetchConfig, ReadConfig, AnswerConfig, FailConfig, CreateReplied,
         UpdateReplied, MachinesReplied
<1>4. /\ configQuery' \in Entry(Config) /\ EntryInOrder(configQuery', configWrites)
      /\ configQuery'.data = configQuery.data
  <2>1. CASE OpenConfig \/ RefetchConfig \/ CreateReplied
    BY <2>1, ConfigFacts, AskEntry DEF OpenConfig, RefetchConfig, CreateReplied
  <2>2. CASE ReadConfig
    BY <1>1, <2>2, ConfigFacts, ConfigRows, ReadFirstEntry DEF ReadConfig
  <2>3. CASE AnswerConfig
    <3>1. /\ ReadTogether(configQuery.answer) \in Config
          /\ ReadTogether(configQuery.answer).rev \in
                Version(configQuery.data) .. configWrites
      BY <2>3, ConfigReadTogether DEF AnswerConfig
    <3> QED
      BY <2>3, <3>1, ConfigFacts, ConfigRows, AnswerEntry DEF AnswerConfig
  <2>4. CASE FailConfig
    BY <2>4, ConfigFacts, FailEntry DEF FailConfig
  <2>5. CASE UpdateReplied \/ MachinesReplied
    BY <2>5, ConfigFacts, InvalidateEntry, Mounted \in BOOLEAN
       DEF UpdateReplied, MachinesReplied, Mounted
  <2> QED
    BY <2>1, <2>2, <2>3, <2>4, <2>5
<1>5. form' \in Form
  BY <1>1, <1>2, FormTypes
     DEF OpenConfig, RefetchConfig, ReadConfig, AnswerConfig, FailConfig, CreateReplied,
         UpdateReplied, MachinesReplied
<1>6. basicCall' \in BasicCall /\ machinesCall' \in MachinesCall
  BY <1>1, CallTypes, CallBodies
     DEF OpenConfig, RefetchConfig, ReadConfig, AnswerConfig, FailConfig, CreateReplied,
         UpdateReplied, MachinesReplied
<1>7. lastWrite' \in {"others", "basic", "machines", "shown"}
  BY <1>1 DEF OpenConfig, RefetchConfig, ReadConfig, AnswerConfig, FailConfig, CreateReplied,
              UpdateReplied, MachinesReplied, Shown
<1> QED
  BY <1>1, <1>3, <1>4, <1>5, <1>6, <1>7, ConfigAskedFor DEF ConfigInv, ConfigTypeOK

\* The only step that changes the copy.
LEMMA ConfigDelivered ==
    ASSUME ConfigInv, DeliverConfig
    PROVE  ConfigInv' /\ ConfigCopied
<1>1. /\ form \in Form /\ basicCall \in BasicCall /\ machinesCall \in MachinesCall
      /\ config \in Config \cup {None} /\ (config # None => config.rev = configWrites)
      /\ configWrites \in 0 .. MaxConfigWrites
      /\ lastWrite \in {"others", "basic", "machines", "shown"}
  BY DEF ConfigInv, ConfigTypeOK
<1>2. /\ configQuery' \in Entry(Config) /\ EntryInOrder(configQuery', configWrites)
      /\ Version(configQuery'.data) \in Version(configQuery.data) .. configWrites
      /\ configQuery.answer \in Config
  BY ConfigFacts, ConfigRows, DeliverEntry DEF DeliverConfig
<1>3. form' \in Form /\ machinesCall' \in MachinesCall
  BY <1>1, <1>2, FormTypes, CallBodies DEF DeliverConfig, Filled
<1> QED
  BY <1>1, <1>2, <1>3 DEF DeliverConfig, ConfigInv, ConfigTypeOK, ConfigCopied, Version

LEMMA ConfigSteps ==
    ASSUME ConfigInv, [ConfigNext]_configVars
    PROVE  ConfigInv' /\ ConfigCopied
BY ConfigFormSteps, ConfigWrites, ConfigFetches, ConfigDelivered DEF ConfigNext

LEMMA ConfigStart ==
    ASSUME ConfigInit
    PROVE  ConfigInv
<1>1. /\ config = None /\ configWrites = 0 /\ configQuery = Empty /\ form = ClosedForm
      /\ basicCall = NoCall /\ machinesCall = NoCall /\ lastWrite = "others"
  BY DEF ConfigInit
<1> QED
  BY <1>1, ConfigRows, EmptyEntry, FormTypes, CallTypes DEF ConfigInv, ConfigTypeOK

\* The form, the requests, the tables and the cache entry keep their types.
THEOREM ConfigTypes == ConfigSpec => []ConfigTypeOK
<1>1. ConfigInit => ConfigInv
  BY ConfigStart
<1>2. ConfigInv /\ [ConfigNext]_configVars => ConfigInv'
  BY ConfigSteps
<1>3. ConfigInv => ConfigTypeOK
  BY DEF ConfigInv
<1> QED
  BY <1>1, <1>2, <1>3, PTL DEF ConfigSpec

\* The copy an administrator's form is filled from is one the configuration has been
\* and never goes back to an older one, however fetches, saves and others' writes
\* overlap: WorkerConfigEditPage implements CachedCopy.
THEOREM ConfigCopiesAreCached == ConfigSpec => ConfigCopyNeverGoesBack
<1>1. ConfigInit => ConfigInv /\ ConfigCopy!Init
  BY ConfigStart, EmptyEntry DEF ConfigInit, ConfigCopy!Init, ConfigCopy!NoCopy, Version
<1>2. ConfigInv /\ [ConfigNext]_configVars => ConfigInv'
  BY ConfigSteps
<1>3. ConfigInv /\ [ConfigNext]_configVars =>
        [ConfigCopy!Next]_<<configWrites, IF configQuery.data = NoData THEN -1
                                          ELSE configQuery.data.rev>>
  <2> SUFFICES ASSUME ConfigInv, [ConfigNext]_configVars
      PROVE [ConfigCopy!Next]_<<configWrites, IF configQuery.data = NoData THEN -1
                                              ELSE configQuery.data.rev>>
    OBVIOUS
  <2>1. ConfigCopied
    BY ConfigSteps
  <2>2. configWrites \in Nat /\ Version(configQuery.data) \in -1 .. configWrites
    BY ConfigFacts
  <2>3. CASE configWrites' = configWrites + 1 /\ configQuery' = configQuery
    BY <2>3 DEF ConfigCopy!Next, ConfigCopy!Write
  <2>4. CASE /\ configWrites' = configWrites
             /\ Version(configQuery.data)' \in Version(configQuery.data) .. configWrites
    BY <2>2, <2>4 DEF ConfigCopy!Next, ConfigCopy!Refresh, Version
  <2> QED
    BY <2>1, <2>3, <2>4 DEF ConfigCopied
<1> QED
  BY <1>1, <1>2, <1>3, PTL DEF ConfigSpec, ConfigCopyNeverGoesBack, ConfigCopy!Spec

-----------------------------------------------------------------------------
(* DashboardEditor, along the same lines. *)

BoardInv ==
    /\ BoardTypeOK
    /\ EntryInOrder(boardQuery, boardWrites)
    /\ board # Gone => board.rev = boardWrites

BoardCopied ==
    \/ boardWrites' = boardWrites + 1 /\ boardQuery' = boardQuery
    \/ /\ boardWrites' = boardWrites
       /\ Version(boardQuery.data)' \in Version(boardQuery.data) .. boardWrites

LEMMA BoardRows == Versioned(Board) /\ MaxBoardWrites \in Nat /\ NewContent \in Content
BY NoBoardIsUndefined, BoardConstants DEF Versioned, Board, Rev

LEMMA BoardFacts ==
    ASSUME BoardInv
    PROVE  /\ boardWrites \in Nat /\ boardQuery \in Entry(Board)
           /\ EntryInOrder(boardQuery, boardWrites)
           /\ Version(boardQuery.data) \in -1 .. boardWrites
           /\ boardQuery.data \in Board \cup {NoData}
<1>1. boardWrites \in Nat /\ boardQuery \in Entry(Board)
  BY BoardRows DEF BoardInv, BoardTypeOK, Rev
<1>2. boardQuery.data \in Board \cup {NoData}
  BY <1>1 DEF Entry
<1>3. Version(boardQuery.data) \in Int /\ Version(boardQuery.data) >= -1
  BY <1>2, Versions, BoardRows
<1> QED
  BY <1>1, <1>2, <1>3 DEF BoardInv, EntryInOrder

LEMMA BoardWritten ==
    ASSUME BoardInv, NEW row, WriteBoard(row),
           \/ row \in Board \cup {Gone}
           \/ \E widgets \in Widgets : row = WithWidgets(widgets)
    PROVE  /\ board' \in Board \cup {Gone} /\ boardWrites' \in Rev
           /\ board' # Gone => board'.rev = boardWrites'
           /\ boardQuery' \in Entry(Board)
           /\ EntryInOrder(boardQuery', boardWrites')
           /\ BoardCopied
<1>1. boardWrites' = boardWrites + 1 /\ boardWrites + 1 \in Rev /\ boardQuery' = boardQuery
  BY BoardRows DEF BoardInv, BoardTypeOK, Rev, WriteBoard
<1>2. EntryInOrder(boardQuery', boardWrites')
  BY <1>1, BoardFacts, BoardRows, LaterEntry
<1>3. CASE row = Gone
  BY <1>1, <1>2, <1>3, BoardFacts DEF WriteBoard, BoardCopied
<1>4. CASE row # Gone
  <2>1. row \in Board
    <3>1. CASE row \in Board \cup {Gone}
      BY <1>4, <3>1
    <3>2. CASE \E widgets \in Widgets : row = WithWidgets(widgets)
      BY <1>1, <3>2, BoardRows DEF WithWidgets, Board, Rev
    <3> QED
      BY <3>1, <3>2
  <2>2. board' = [row EXCEPT !.rev = boardWrites + 1]
    BY <1>4 DEF WriteBoard
  <2>3. board' \in Board /\ board'.rev = boardWrites + 1
    BY <1>1, <2>1, <2>2 DEF Board
  <2> QED
    BY <1>1, <1>2, <2>3, BoardFacts DEF BoardCopied
<1> QED
  BY <1>3, <1>4

LEMMA BoardAskedFor ==
    ASSUME BoardInv, UNCHANGED <<board, boardWrites>>,
           boardQuery' \in Entry(Board), EntryInOrder(boardQuery', boardWrites),
           boardQuery'.data = boardQuery.data
    PROVE  /\ board' \in Board \cup {Gone} /\ boardWrites' \in Rev
           /\ board' # Gone => board'.rev = boardWrites'
           /\ EntryInOrder(boardQuery', boardWrites')
           /\ BoardCopied
BY BoardFacts DEF BoardInv, BoardTypeOK, BoardCopied, Version

-----------------------------------------------------------------------------
(* The editor, one field at a time. *)

LEMMA PageUpdate ==
    ASSUME NEW e \in Editor, NEW page \in {"closed", "edit", "view"}
    PROVE  [e EXCEPT !.page = page] \in Editor
BY DEF Editor

LEMMA WidgetsUpdate ==
    ASSUME NEW e \in Editor, NEW widgets \in Widgets
    PROVE  [e EXCEPT !.widgets = widgets] \in Editor
BY DEF Editor

LEMMA IdsUpdate ==
    ASSUME NEW e \in Editor, NEW ids \in [Slot -> Rev \cup {Fresh}]
    PROVE  [e EXCEPT !.ids = ids] \in Editor
BY DEF Editor

LEMMA SheetUpdate ==
    ASSUME NEW e \in Editor, NEW sheet \in Sheet \cup {NoSheet}
    PROVE  [e EXCEPT !.sheet = sheet] \in Editor
BY DEF Editor

LEMMA OneWidgetUpdate ==
    ASSUME NEW e \in Editor, NEW s \in Slot, NEW c \in Content \cup {Vacant}
    PROVE  [e EXCEPT !.widgets[s] = c] \in Editor
<1>1. [e.widgets EXCEPT ![s] = c] \in Widgets
  BY DEF Editor, Widgets
<1> QED
  BY <1>1 DEF Editor

LEMMA OneIdUpdate ==
    ASSUME NEW e \in Editor, NEW s \in Slot, NEW id \in Rev \cup {Fresh}
    PROVE  [e EXCEPT !.ids[s] = id] \in Editor
<1>1. [e.ids EXCEPT ![s] = id] \in [Slot -> Rev \cup {Fresh}]
  BY DEF Editor
<1> QED
  BY <1>1 DEF Editor

LEMMA ClosedType == ClosedEditor \in Editor /\ [ClosedEditor EXCEPT !.page = "view"] \in Editor
<1>1. ClosedEditor \in Editor
  BY BoardRows DEF ClosedEditor, Editor, Widgets, NoWidgets, Rev
<1> QED
  BY <1>1, PageUpdate

LEMMA FilledType ==
    ASSUME editor \in Editor, NEW data \in Board
    PROVE  FillEditor(data) \in Editor
<1>1. data.widgets \in Widgets /\ [s \in Slot |-> data.ids] \in [Slot -> Rev \cup {Fresh}]
  BY DEF Board
<1>2. [editor EXCEPT !.widgets = data.widgets] \in Editor
  BY <1>1, WidgetsUpdate
<1>3. [editor EXCEPT !.widgets = data.widgets, !.ids = [s \in Slot |-> data.ids]] \in Editor
  BY <1>1, <1>2, IdsUpdate, Zenon
<1> QED
  BY <1>3 DEF FillEditor

SavedAs == [rev : Rev, missed : BOOLEAN]

LEMMA NotSavedType == NotSaved \in SavedAs /\ NotSaved.rev = 0
BY BoardRows DEF NotSaved, SavedAs, Rev

LEMMA BoardCallTypes ==
    /\ NoSave \in BoardCall
    /\ \A body \in Widgets : [stage |-> "sent", body |-> body] \in BoardCall
    /\ \A stage \in {"done", "refused", "settling"}, rev \in Rev :
        [stage |-> stage, rev |-> rev] \in BoardCall
BY DEF NoSave, BoardCall

LEMMA BoardCallFields ==
    /\ \A call \in BoardCall : call.stage = "sent" => call.body \in Widgets
    /\ \A call \in BoardCall :
        call.stage \in {"done", "refused", "settling"} => call.rev \in Rev
BY DEF NoSave, BoardCall

-----------------------------------------------------------------------------
(* The steps. *)

\* Arranging the widgets, the sheet, leaving, and the requests.
LEMMA BoardEditSteps ==
    ASSUME BoardInv,
           \/ LeaveEditor \/ CloseSheet \/ SaveBoard \/ RefuseSave \/ SaveLost
           \/ \E s \in Slot :
                \/ AddWidget(s) \/ RemoveWidget(s) \/ OpenSheet(s)
                \/ \E c \in Content : MoveWidget(s, c)
           \/ \E c \in Content : SaveSheet(c)
           \/ UNCHANGED boardVars
    PROVE  BoardInv' /\ BoardCopied
<1>1. editor \in Editor /\ boardCall \in BoardCall /\ savedAs \in SavedAs
  BY DEF BoardInv, BoardTypeOK, SavedAs
<1>2. 0 \in Rev /\ Fresh \in Rev \cup {Fresh} /\ NoSheet \in Sheet \cup {NoSheet}
  BY BoardRows DEF Rev
<1>3. UNCHANGED <<board, boardWrites, boardQuery>>
  BY DEF LeaveEditor, CloseSheet, SaveBoard, RefuseSave, SaveLost, AddWidget, RemoveWidget,
         OpenSheet, MoveWidget, SaveSheet, EditorOnly, boardVars
<1>4. editor' \in Editor
  <2>1. CASE LeaveEditor
    BY <2>1, ClosedType DEF LeaveEditor
  <2>2. CASE CloseSheet
    BY <1>1, <1>2, <2>2, SheetUpdate DEF CloseSheet
  <2>3. CASE SaveBoard \/ RefuseSave \/ SaveLost \/ UNCHANGED boardVars
    BY <1>1, <2>3 DEF SaveBoard, RefuseSave, SaveLost, boardVars
  <2>4. ASSUME NEW s \in Slot, AddWidget(s)
        PROVE  editor' \in Editor
    <3>1. [editor EXCEPT !.widgets[s] = NewContent] \in Editor
      BY <1>1, BoardRows, OneWidgetUpdate
    <3>2. [editor EXCEPT !.widgets[s] = NewContent, !.ids[s] = Fresh] \in Editor
      BY <1>2, <3>1, OneIdUpdate
    <3>3. [slot |-> s, id |-> Fresh] \in Sheet \cup {NoSheet}
      BY DEF Sheet
    <3>4. [editor EXCEPT !.widgets[s] = NewContent, !.ids[s] = Fresh,
                         !.sheet = [slot |-> s, id |-> Fresh]] \in Editor
      BY <3>2, <3>3, SheetUpdate, Zenon
    <3> QED
      BY <2>4, <3>4 DEF AddWidget
  <2>5. ASSUME NEW s \in Slot, RemoveWidget(s)
        PROVE  editor' \in Editor
    <3>1. [editor EXCEPT !.widgets[s] = Vacant] \in Editor
      BY <1>1, OneWidgetUpdate
    <3>2. [editor EXCEPT !.widgets[s] = Vacant, !.ids[s] = 0] \in Editor
      BY <1>2, <3>1, OneIdUpdate
    <3> QED
      BY <2>5, <3>2 DEF RemoveWidget
  <2>6. ASSUME NEW s \in Slot, OpenSheet(s)
        PROVE  editor' \in Editor
    <3>1. [slot |-> s, id |-> editor.ids[s]] \in Sheet \cup {NoSheet}
      BY <1>1 DEF Sheet, Editor
    <3> QED
      BY <1>1, <2>6, <3>1, SheetUpdate DEF OpenSheet
  <2>7. ASSUME NEW s \in Slot, NEW c \in Content, MoveWidget(s, c)
        PROVE  editor' \in Editor
    BY <1>1, <2>7, OneWidgetUpdate DEF MoveWidget
  <2>8. ASSUME NEW c \in Content, SaveSheet(c)
        PROVE  editor' \in Editor
    <3>1. editor.widgets \in Widgets /\ editor.sheet \in Sheet
      BY <1>1, <2>8 DEF Editor, SaveSheet
    <3>2. Configured(c) \in Widgets
      BY <3>1 DEF Configured, Widgets, Sheet
    <3>3. [editor EXCEPT !.widgets = Configured(c)] \in Editor
      BY <1>1, <3>2, WidgetsUpdate
    <3>4. [editor EXCEPT !.widgets = Configured(c), !.sheet = NoSheet] \in Editor
      BY <1>2, <3>3, SheetUpdate
    <3> QED
      BY <2>8, <3>4 DEF SaveSheet
  <2> QED
    BY <2>1, <2>2, <2>3, <2>4, <2>5, <2>6, <2>7, <2>8
<1>5. boardCall' \in BoardCall /\ savedAs' \in SavedAs
  <2>1. editor.widgets \in Widgets
    BY <1>1 DEF Editor
  <2> QED
    BY <1>1, <1>2, <2>1, BoardCallTypes, NotSavedType
       DEF LeaveEditor, CloseSheet, SaveBoard, RefuseSave, SaveLost, AddWidget, RemoveWidget,
           OpenSheet, MoveWidget, SaveSheet, EditorOnly, boardVars
<1>6. boardQuery' \in Entry(Board) /\ EntryInOrder(boardQuery', boardWrites)
      /\ boardQuery'.data = boardQuery.data
  BY <1>3, BoardFacts
<1> QED
  BY <1>3, <1>4, <1>5, <1>6, BoardAskedFor DEF BoardInv, BoardTypeOK, SavedAs

\* The writes, by the page and by others.
LEMMA BoardWrites ==
    ASSUME BoardInv,
           \/ ApplySave \/ OthersRename \/ OthersRemove
           \/ \E widgets \in Widgets : OthersSaveWidgets(widgets)
    PROVE  BoardInv' /\ BoardCopied
<1>1. /\ editor \in Editor /\ boardCall \in BoardCall /\ savedAs \in SavedAs
      /\ board \in Board \cup {Gone}
  BY DEF BoardInv, BoardTypeOK, SavedAs
<1>2. \E row : /\ WriteBoard(row)
               /\ \/ row \in Board \cup {Gone}
                  \/ \E widgets \in Widgets : row = WithWidgets(widgets)
  BY <1>1, BoardCallFields DEF ApplySave, OthersRename, OthersRemove, OthersSaveWidgets
<1>3. boardWrites + 1 \in Rev /\ UNCHANGED <<editor, savedAs>>
  BY <1>2, BoardRows DEF BoardInv, BoardTypeOK, Rev, WriteBoard
<1>4. boardCall' \in BoardCall
  BY <1>1, <1>3, BoardCallTypes DEF ApplySave, OthersRename, OthersRemove, OthersSaveWidgets
<1> QED
  BY <1>1, <1>2, <1>3, <1>4, BoardWritten DEF BoardInv, BoardTypeOK, SavedAs

\* What the handler reads in its second statement is of the version of its first.
LEMMA BoardWidgetsOf ==
    ASSUME BoardInv, boardQuery.answer # NoData
    PROVE  /\ WidgetsOf(boardQuery.answer) \in Board
           /\ WidgetsOf(boardQuery.answer).rev = boardQuery.answer.rev
           /\ boardQuery.answer.rev \in Version(boardQuery.data) .. boardWrites
<1> DEFINE row == boardQuery.answer
<1>1. row \in Board /\ row.rev \in Version(boardQuery.data) .. boardWrites
  BY BoardFacts, BoardRows DEF Entry, EntryInOrder, Versioned
<1>2. board \in Board \cup {Gone} /\ NoWidgets \in Widgets
  BY DEF BoardInv, BoardTypeOK, NoWidgets, Widgets
<1> QED
  BY <1>1, <1>2 DEF WidgetsOf, Board

\* The mounts, the refetch and the reply, which ask for the dashboard, and the two
\* statements that answer.
LEMMA BoardAsks ==
    ASSUME BoardInv,
           OpenEditor \/ OpenView \/ RefetchBoard \/ SaveReplied \/ ReadBoard \/ AnswerBoard
    PROVE  BoardInv' /\ BoardCopied
<1>1. editor \in Editor /\ boardCall \in BoardCall /\ savedAs \in SavedAs /\ 0 \in Rev
  BY BoardRows DEF BoardInv, BoardTypeOK, Rev, SavedAs
<1>2. UNCHANGED <<board, boardWrites, savedAs>>
  BY DEF OpenEditor, OpenView, RefetchBoard, SaveReplied, ReadBoard, AnswerBoard
<1>3. boardQuery' \in Entry(Board) /\ EntryInOrder(boardQuery', boardWrites)
      /\ boardQuery'.data = boardQuery.data
  <2>1. CASE OpenEditor \/ OpenView \/ boardQuery' = Ask(boardQuery)
    BY <2>1, BoardFacts, AskEntry DEF OpenEditor, OpenView
  <2>2. CASE SaveReplied \/ boardQuery' = Invalidate(boardQuery, TRUE)
    BY <2>2, BoardFacts, InvalidateEntry DEF SaveReplied
  <2>3. CASE ReadBoard
    <3>1. board \in Board /\ board.rev = boardWrites
      BY <2>3 DEF ReadBoard, BoardInv, BoardTypeOK
    <3> QED
      BY <2>3, <3>1, BoardFacts, BoardRows, ReadFirstEntry DEF ReadBoard
  <2>4. CASE AnswerBoard
    BY <2>4, BoardWidgetsOf, BoardFacts, BoardRows, AnswerEntry DEF AnswerBoard
  <2> QED
    BY <2>1, <2>2, <2>3, <2>4 DEF RefetchBoard
<1>4. editor' \in Editor
  <2>1. CASE OpenEditor
    <3> DEFINE from == IF boardQuery.data = NoData THEN ClosedEditor
                       ELSE FillEditor(boardQuery.data)
    <3>1. from \in Editor
      BY <1>1, BoardFacts, ClosedType, FilledType
    <3>2. editor' = [from EXCEPT !.page = "edit"]
      BY <2>1 DEF OpenEditor
    <3> HIDE DEF from
    <3> QED
      BY <3>1, <3>2, PageUpdate
  <2>2. CASE OpenView
    BY <2>2, ClosedType DEF OpenView
  <2>3. CASE RefetchBoard \/ SaveReplied \/ ReadBoard \/ AnswerBoard
    BY <1>1, <2>3 DEF RefetchBoard, SaveReplied, ReadBoard, AnswerBoard
  <2> QED
    BY <2>1, <2>2, <2>3
<1>5. boardCall' \in BoardCall
  <2>1. CASE SaveReplied
    <3>1. (IF Joins(boardQuery) THEN 0 ELSE boardCall.rev) \in Rev
      BY <1>1, <2>1, BoardCallFields DEF SaveReplied
    <3> QED
      BY <2>1, <3>1, BoardCallTypes DEF SaveReplied
  <2>2. CASE ~SaveReplied
    BY <1>1, <2>2 DEF OpenEditor, OpenView, RefetchBoard, ReadBoard, AnswerBoard
  <2> QED
    BY <2>1, <2>2
<1> QED
  BY <1>1, <1>2, <1>3, <1>4, <1>5, BoardAskedFor DEF BoardInv, BoardTypeOK, SavedAs

\* A fetch is over with the entry q: handleSave may go on to the view.
LEMMA BoardOpened ==
    ASSUME BoardInv, NEW q \in Entry(Board), EntryInOrder(q, boardWrites),
           q.data \in Board \/ q.data = boardQuery.data, Opened(q)
    PROVE  /\ editor' \in Editor /\ boardCall' \in BoardCall /\ savedAs' \in SavedAs
           /\ boardQuery' \in Entry(Board) /\ EntryInOrder(boardQuery', boardWrites)
           /\ boardQuery'.data = q.data
<1>1. editor \in Editor /\ boardCall \in BoardCall /\ savedAs \in SavedAs
  BY DEF BoardInv, BoardTypeOK, SavedAs
<1>2. CASE boardCall.stage = "settling"
  <2>1. /\ boardQuery' = Ask(q) /\ boardCall' = NoSave
        /\ savedAs' = [rev |-> boardCall.rev, missed |-> q.fetch = "failed"]
        /\ editor' = [ClosedEditor EXCEPT !.page = "view"]
    BY <1>2 DEF Opened
  <2>2. savedAs' \in SavedAs
    BY <1>1, <1>2, <2>1, BoardCallFields DEF SavedAs
  <2> QED
    BY <1>1, <2>1, <2>2, BoardFacts, AskEntry, ClosedType, BoardCallTypes
<1>3. CASE boardCall.stage # "settling"
  <2>1. /\ boardQuery' = q /\ UNCHANGED <<boardCall, savedAs>>
        /\ editor' = IF Editing /\ q.data # boardQuery.data THEN FillEditor(q.data) ELSE editor
    BY <1>3 DEF Opened
  <2>2. editor' \in Editor
    <3>1. CASE q.data \in Board
      BY <1>1, <2>1, <3>1, FilledType
    <3>2. CASE q.data = boardQuery.data
      BY <1>1, <2>1, <3>2
    <3> QED
      BY <3>1, <3>2
  <2> QED
    BY <1>1, <2>1, <2>2
<1> QED
  BY <1>2, <1>3

LEMMA BoardFailed ==
    ASSUME BoardInv, FailBoard
    PROVE  BoardInv' /\ BoardCopied
<1>1. /\ Fail(boardQuery) \in Entry(Board) /\ EntryInOrder(Fail(boardQuery), boardWrites)
      /\ Fail(boardQuery).data = boardQuery.data
  BY BoardFacts, FailEntry
<1>2. UNCHANGED <<board, boardWrites>> /\ Opened(Fail(boardQuery))
  BY DEF FailBoard
<1> QED
  BY <1>1, <1>2, BoardOpened, BoardAskedFor DEF BoardInv, BoardTypeOK, SavedAs

\* The only step that changes the copy.
LEMMA BoardDelivered ==
    ASSUME BoardInv, DeliverBoard
    PROVE  BoardInv' /\ BoardCopied
<1>1. /\ board \in Board \cup {Gone} /\ (board # Gone => board.rev = boardWrites)
      /\ boardWrites \in Rev
  BY DEF BoardInv, BoardTypeOK, SavedAs
<1>2. UNCHANGED <<board, boardWrites>> /\ Opened(Deliver(boardQuery))
  BY DEF DeliverBoard
<1>3. /\ Deliver(boardQuery) \in Entry(Board)
      /\ EntryInOrder(Deliver(boardQuery), boardWrites)
      /\ Version(Deliver(boardQuery).data) \in Version(boardQuery.data) .. boardWrites
      /\ boardQuery.answer \in Board
  BY BoardFacts, BoardRows, DeliverEntry DEF DeliverBoard
<1>4. Deliver(boardQuery).data = boardQuery.answer
  BY DEF Deliver
<1>5. /\ editor' \in Editor /\ boardCall' \in BoardCall /\ savedAs' \in SavedAs
      /\ boardQuery' \in Entry(Board) /\ EntryInOrder(boardQuery', boardWrites)
      /\ boardQuery'.data = Deliver(boardQuery).data
  BY <1>2, <1>3, <1>4, BoardOpened
<1> QED
  BY <1>1, <1>2, <1>3, <1>5 DEF BoardInv, BoardTypeOK, BoardCopied, Version, SavedAs

LEMMA BoardSteps ==
    ASSUME BoardInv, [BoardNext]_boardVars
    PROVE  BoardInv' /\ BoardCopied
BY BoardEditSteps, BoardWrites, BoardAsks, BoardFailed, BoardDelivered DEF BoardNext

LEMMA BoardStart ==
    ASSUME BoardInit
    PROVE  BoardInv
<1>1. /\ board = [widgets |-> NoWidgets, ids |-> 0, rev |-> 0] /\ boardWrites = 0
      /\ boardQuery = Empty /\ editor = ClosedEditor /\ boardCall = NoSave
      /\ savedAs = NotSaved
  BY DEF BoardInit
<1>2. board \in Board /\ board.rev = 0 /\ 0 \in Rev
  BY <1>1, BoardRows DEF Board, Widgets, NoWidgets, Rev
<1> QED
  BY <1>1, <1>2, EmptyEntry, ClosedType, BoardCallTypes, NotSavedType
     DEF BoardInv, BoardTypeOK, SavedAs

\* The editor, its sheet, the save in flight, the tables and the cache entry keep
\* their types.
THEOREM BoardTypes == BoardSpec => []BoardTypeOK
<1>1. BoardInit => BoardInv
  BY BoardStart
<1>2. BoardInv /\ [BoardNext]_boardVars => BoardInv'
  BY BoardSteps
<1>3. BoardInv => BoardTypeOK
  BY DEF BoardInv
<1> QED
  BY <1>1, <1>2, <1>3, PTL DEF BoardSpec

\* The copy the editor and the view of a dashboard are filled from never goes back to
\* an older version: the two pages implement CachedCopy.
THEOREM BoardCopiesAreCached == BoardSpec => BoardCopyNeverGoesBack
<1>1. BoardInit => BoardInv /\ BoardCopy!Init
  BY BoardStart, EmptyEntry DEF BoardInit, BoardCopy!Init, BoardCopy!NoCopy, Version
<1>2. BoardInv /\ [BoardNext]_boardVars => BoardInv'
  BY BoardSteps
<1>3. BoardInv /\ [BoardNext]_boardVars =>
        [BoardCopy!Next]_<<boardWrites, IF boardQuery.data = NoData THEN -1
                                        ELSE boardQuery.data.rev>>
  <2> SUFFICES ASSUME BoardInv, [BoardNext]_boardVars
      PROVE [BoardCopy!Next]_<<boardWrites, IF boardQuery.data = NoData THEN -1
                                            ELSE boardQuery.data.rev>>
    OBVIOUS
  <2>1. BoardCopied
    BY BoardSteps
  <2>2. boardWrites \in Nat /\ Version(boardQuery.data) \in -1 .. boardWrites
    BY BoardFacts
  <2>3. CASE boardWrites' = boardWrites + 1 /\ boardQuery' = boardQuery
    BY <2>3 DEF BoardCopy!Next, BoardCopy!Write
  <2>4. CASE /\ boardWrites' = boardWrites
             /\ Version(boardQuery.data)' \in Version(boardQuery.data) .. boardWrites
    BY <2>2, <2>4 DEF BoardCopy!Next, BoardCopy!Refresh, Version
  <2> QED
    BY <2>1, <2>3, <2>4 DEF BoardCopied
<1> QED
  BY <1>1, <1>2, <1>3, PTL DEF BoardSpec, BoardCopyNeverGoesBack, BoardCopy!Spec

-----------------------------------------------------------------------------
(* DashboardEditor. *)

\* A save that was applied is one of the versions.  While the page waits for the refetch,
\* what was read for the fetch in flight was read after the save.
SaveAwaited ==
    /\ boardCall.stage = "done" => boardCall.rev <= boardWrites
    /\ boardCall.stage = "refused" => boardCall.rev = 0
    /\ boardCall.stage = "settling" /\ boardCall.rev > 0 =>
        /\ boardCall.rev <= boardWrites
        /\ boardQuery.answer # NoData => boardCall.rev <= boardQuery.answer.rev

\* After a refetch that failed, the save is in what the next one to arrive brings.
SaveIsInCopy ==
    savedAs.rev > 0 =>
        /\ savedAs.rev <= boardWrites
        /\ ~savedAs.missed \/ boardQuery.fetch = "idle" =>
            boardQuery.data # NoData /\ boardQuery.data.rev >= savedAs.rev
        /\ savedAs.missed /\ boardQuery.answer # NoData =>
            savedAs.rev <= boardQuery.answer.rev

ViewInv == BoardInv /\ SaveAwaited /\ SaveIsInCopy

LEMMA ViewFacts ==
    ASSUME ViewInv
    PROVE  /\ boardWrites \in Nat /\ boardQuery \in Entry(Board)
           /\ savedAs.rev \in Nat /\ savedAs.missed \in BOOLEAN
           /\ boardCall.stage \in {"done", "refused", "settling"} => boardCall.rev \in Nat
           /\ boardQuery.data # NoData => /\ boardQuery.data.rev \in Nat
                                          /\ Version(boardQuery.data) = boardQuery.data.rev
           /\ boardQuery.answer # NoData => /\ boardQuery.answer \in Board
                                            /\ boardQuery.answer.rev \in Nat
                                            /\ Version(boardQuery.data) <= boardQuery.answer.rev
           /\ boardQuery.fetch = "answered" => boardQuery.answer # NoData
           /\ AtRest(boardQuery) => boardQuery.answer = NoData
           /\ board # Gone => board.rev = boardWrites /\ board \in Board
           /\ NoData \notin Board
<1>1. BoardInv
  BY DEF ViewInv
<1>2. /\ boardWrites \in Rev /\ savedAs \in SavedAs /\ boardCall \in BoardCall
      /\ board \in Board \cup {Gone} /\ (board # Gone => board.rev = boardWrites)
  BY <1>1 DEF BoardInv, BoardTypeOK, SavedAs
<1>3. boardWrites \in Nat /\ savedAs.rev \in Nat /\ savedAs.missed \in BOOLEAN
  BY <1>2, BoardRows DEF Rev, SavedAs
<1>4. boardCall.stage \in {"done", "refused", "settling"} => boardCall.rev \in Nat
  BY <1>2, BoardRows, BoardCallFields DEF Rev
<1>5. /\ boardQuery \in Entry(Board) /\ boardQuery.data \in Board \cup {NoData}
      /\ EntryInOrder(boardQuery, boardWrites)
  BY <1>1, BoardFacts
<1>6. boardQuery.answer # NoData => boardQuery.answer \in Board
  BY <1>5 DEF Entry
<1> QED
  BY <1>2, <1>3, <1>4, <1>5, <1>6, BoardRows, Versions DEF Versioned, EntryInOrder

\* Steps that change neither the cache entry nor a save that waits for it.
LEMMA ViewKept ==
    ASSUME ViewInv, boardQuery' = boardQuery,
           \/ boardWrites' = boardWrites \/ boardWrites' = boardWrites + 1,
           savedAs' = savedAs \/ savedAs' = NotSaved,
           \/ boardCall' = boardCall
           \/ boardCall'.stage \in {"none", "sent"}
           \/ boardCall'.stage = "refused" /\ boardCall'.rev = 0
           \/ boardCall'.stage = "done" /\ boardCall'.rev = boardWrites'
    PROVE  SaveAwaited' /\ SaveIsInCopy'
<1>1. boardWrites' >= boardWrites /\ boardWrites' \in Nat
  BY ViewFacts
<1>2. SaveAwaited'
  BY <1>1, ViewFacts DEF ViewInv, SaveAwaited
<1>3. SaveIsInCopy'
  BY <1>1, ViewFacts, NotSavedType DEF ViewInv, SaveIsInCopy
<1> QED
  BY <1>2, <1>3

LEMMA ViewPageSteps ==
    ASSUME ViewInv,
           \/ LeaveEditor \/ CloseSheet \/ SaveBoard \/ RefuseSave \/ SaveLost
           \/ \E s \in Slot :
                \/ AddWidget(s) \/ RemoveWidget(s) \/ OpenSheet(s)
                \/ \E c \in Content : MoveWidget(s, c)
           \/ \E c \in Content : SaveSheet(c)
           \/ UNCHANGED boardVars
    PROVE  SaveAwaited' /\ SaveIsInCopy'
<1>1. boardQuery' = boardQuery /\ boardWrites' = boardWrites
  BY DEF LeaveEditor, CloseSheet, SaveBoard, RefuseSave, SaveLost, AddWidget, RemoveWidget,
         OpenSheet, MoveWidget, SaveSheet, EditorOnly, boardVars
<1>2. savedAs' = savedAs \/ savedAs' = NotSaved
  BY DEF LeaveEditor, CloseSheet, SaveBoard, RefuseSave, SaveLost, AddWidget, RemoveWidget,
         OpenSheet, MoveWidget, SaveSheet, EditorOnly, boardVars
<1>3. \/ boardCall' = boardCall
      \/ boardCall'.stage \in {"none", "sent"}
      \/ boardCall'.stage = "refused" /\ boardCall'.rev = 0
  <2>1. CASE LeaveEditor \/ SaveLost
    BY <2>1 DEF LeaveEditor, SaveLost, NoSave
  <2>2. CASE SaveBoard
    BY <2>2 DEF SaveBoard
  <2>3. CASE RefuseSave
    BY <2>3 DEF RefuseSave
  <2>4. CASE ~(LeaveEditor \/ SaveLost \/ SaveBoard \/ RefuseSave)
    BY <2>4 DEF CloseSheet, AddWidget, RemoveWidget, OpenSheet, MoveWidget, SaveSheet,
                EditorOnly, boardVars
  <2> QED
    BY <2>1, <2>2, <2>3, <2>4
<1> QED
  BY <1>1, <1>2, <1>3, ViewKept

LEMMA ViewWrites ==
    ASSUME ViewInv,
           \/ ApplySave \/ OthersRename \/ OthersRemove
           \/ \E widgets \in Widgets : OthersSaveWidgets(widgets)
    PROVE  SaveAwaited' /\ SaveIsInCopy'
<1>1. boardQuery' = boardQuery /\ boardWrites' = boardWrites + 1 /\ savedAs' = savedAs
  BY DEF ApplySave, OthersRename, OthersRemove, OthersSaveWidgets, WriteBoard
<1>2. \/ boardCall' = boardCall
      \/ boardCall'.stage = "done" /\ boardCall'.rev = boardWrites'
  BY <1>1 DEF ApplySave, OthersRename, OthersRemove, OthersSaveWidgets
<1> QED
  BY <1>1, <1>2, ViewKept

\* A fetch that is asked for has read nothing yet.
LEMMA ViewAsked ==
    ASSUME ViewInv, UNCHANGED <<boardWrites, boardCall, savedAs>>,
           boardQuery' = Ask(boardQuery) \/ boardQuery' = Invalidate(boardQuery, TRUE)
    PROVE  SaveAwaited' /\ SaveIsInCopy'
<1>1. CASE boardQuery' = boardQuery
  BY <1>1, ViewKept
<1>2. CASE boardQuery' # boardQuery
  <2>1. /\ boardQuery'.data = boardQuery.data /\ boardQuery'.fetch = "asked"
        /\ boardQuery'.answer = NoData
    <3>1. CASE boardQuery' = Ask(boardQuery)
      BY <1>2, <3>1, ViewFacts, AskedEntry DEF Ask
    <3>2. CASE boardQuery' = Invalidate(boardQuery, TRUE)
      BY <1>2, <3>2 DEF Invalidate
    <3> QED
      BY <3>1, <3>2
  <2> QED
    BY <2>1, ViewFacts DEF ViewInv, SaveAwaited, SaveIsInCopy
<1> QED
  BY <1>1, <1>2

LEMMA ViewAsks ==
    ASSUME ViewInv, OpenEditor \/ OpenView \/ RefetchBoard
    PROVE  SaveAwaited' /\ SaveIsInCopy'
<1>1. UNCHANGED <<boardWrites, boardCall, savedAs>>
  BY DEF OpenEditor, OpenView, RefetchBoard
<1>2. boardQuery' = Ask(boardQuery) \/ boardQuery' = Invalidate(boardQuery, TRUE)
  BY DEF OpenEditor, OpenView, RefetchBoard
<1> QED
  BY <1>1, <1>2, ViewAsked

\* The reply drops what is in flight, unless it is the first fetch.
LEMMA ViewReplied ==
    ASSUME ViewInv, SaveReplied
    PROVE  SaveAwaited' /\ SaveIsInCopy'
<1>1. /\ boardQuery' = Invalidate(boardQuery, TRUE)
      /\ UNCHANGED <<board, boardWrites, savedAs>>
      /\ boardCall.stage \in {"done", "refused"}
  BY DEF SaveReplied
<1>2. /\ boardCall'.stage = "settling"
      /\ boardCall'.rev = IF Joins(boardQuery) THEN 0 ELSE boardCall.rev
  BY DEF SaveReplied
<1>3. CASE Joins(boardQuery)
  <2>1. boardQuery' = boardQuery /\ boardCall'.rev = 0
    BY <1>1, <1>2, <1>3 DEF Invalidate
  <2>2. SaveAwaited'
    BY <1>2, <2>1 DEF SaveAwaited
  <2>3. SaveIsInCopy'
    BY <1>1, <2>1 DEF ViewInv, SaveIsInCopy
  <2> QED
    BY <2>2, <2>3
<1>4. CASE ~Joins(boardQuery)
  <2>1. /\ boardQuery'.data = boardQuery.data /\ boardQuery'.fetch = "asked"
        /\ boardQuery'.answer = NoData
    BY <1>1, <1>4 DEF Invalidate
  <2>2. boardCall.rev \in Nat /\ boardCall.rev <= boardWrites
    BY <1>1, ViewFacts DEF ViewInv, SaveAwaited
  <2> QED
    BY <1>1, <1>2, <1>4, <2>1, <2>2, ViewFacts DEF ViewInv, SaveAwaited, SaveIsInCopy
<1> QED
  BY <1>3, <1>4

\* The first statement reads the newest version, the second one changes no version.
LEMMA ViewRead ==
    ASSUME ViewInv, ReadBoard \/ AnswerBoard
    PROVE  SaveAwaited' /\ SaveIsInCopy'
<1>1. UNCHANGED <<boardWrites, boardCall, savedAs>>
  BY DEF ReadBoard, AnswerBoard
<1>2. CASE ReadBoard
  <2>1. /\ boardQuery'.data = boardQuery.data /\ boardQuery'.fetch = boardQuery.fetch
        /\ boardQuery'.answer.rev = boardWrites
    BY <1>2, ViewFacts DEF ReadBoard, ReadFirst, Entry
  <2> QED
    BY <1>1, <2>1, ViewFacts DEF ViewInv, SaveAwaited, SaveIsInCopy
<1>3. CASE AnswerBoard
  <2>1. /\ boardQuery'.data = boardQuery.data /\ boardQuery'.fetch = "answered"
        /\ boardQuery.fetch = "asked" /\ boardQuery.answer # NoData
        /\ boardQuery'.answer.rev = boardQuery.answer.rev
    BY <1>3, BoardWidgetsOf DEF AnswerBoard, Answer, ViewInv
  <2> QED
    BY <1>1, <2>1, ViewFacts DEF ViewInv, SaveAwaited, SaveIsInCopy
<1> QED
  BY <1>2, <1>3

\* After a fetch that failed the view's own one starts anew.
LEMMA ViewFailed ==
    ASSUME ViewInv, FailBoard
    PROVE  SaveAwaited' /\ SaveIsInCopy'
<1>1. boardWrites' = boardWrites /\ Opened(Fail(boardQuery))
  BY DEF FailBoard
<1>2. /\ Fail(boardQuery) = [data |-> boardQuery.data, answer |-> NoData, fetch |-> "failed"]
      /\ Fail(boardQuery).fetch = "failed"
  BY DEF Fail
<1>3. CASE boardCall.stage = "settling"
  <2>1. /\ boardQuery' = Ask(Fail(boardQuery)) /\ boardCall' = NoSave
        /\ savedAs' = [rev |-> boardCall.rev, missed |-> TRUE]
    BY <1>1, <1>2, <1>3 DEF Opened
  <2>2. boardQuery'.answer = NoData /\ boardQuery'.fetch = "asked"
    BY <1>2, <2>1 DEF Ask, AtRest
  <2> QED
    BY <1>1, <1>3, <2>1, <2>2 DEF ViewInv, SaveAwaited, SaveIsInCopy, NoSave
<1>4. CASE boardCall.stage # "settling"
  <2>1. boardQuery' = Fail(boardQuery) /\ UNCHANGED <<boardCall, savedAs>>
    BY <1>1, <1>4 DEF Opened
  <2>2. /\ boardQuery'.data = boardQuery.data /\ boardQuery'.answer = NoData
        /\ boardQuery'.fetch = "failed"
    BY <1>2, <2>1
  <2> QED
    BY <1>1, <2>1, <2>2, ViewFacts DEF ViewInv, SaveAwaited, SaveIsInCopy
<1> QED
  BY <1>3, <1>4

LEMMA ViewDelivered ==
    ASSUME ViewInv, DeliverBoard
    PROVE  SaveAwaited' /\ SaveIsInCopy'
<1>1. boardWrites' = boardWrites /\ Opened(Deliver(boardQuery)) /\ boardQuery.fetch = "answered"
  BY DEF DeliverBoard
<1>2. /\ boardQuery.answer # NoData /\ boardQuery.answer.rev \in Nat
      /\ Version(boardQuery.data) <= boardQuery.answer.rev
  BY <1>1, ViewFacts
<1>3. Deliver(boardQuery) = [data |-> boardQuery.answer, answer |-> NoData, fetch |-> "idle"]
  BY DEF Deliver
<1>4. CASE boardCall.stage = "settling"
  <2>1. /\ boardQuery' = Ask(Deliver(boardQuery)) /\ boardCall' = NoSave
        /\ savedAs' = [rev |-> boardCall.rev, missed |-> Deliver(boardQuery).fetch = "failed"]
    BY <1>1, <1>4 DEF Opened
  <2>2. ~savedAs'.missed
    <3>1. Deliver(boardQuery).fetch = "idle"
      BY <1>3
    <3>2. (Deliver(boardQuery).fetch = "failed") = FALSE
      BY <3>1
    <3> QED
      BY <2>1, <3>2
  <2>3. boardQuery'.data = boardQuery.answer
    BY <1>3, <2>1 DEF Ask
  <2>4. boardCall.rev > 0 => /\ boardCall.rev <= boardQuery.answer.rev
                             /\ boardCall.rev <= boardWrites
    BY <1>2, <1>4 DEF ViewInv, SaveAwaited
  <2> QED
    BY <1>1, <1>2, <2>1, <2>3, <2>4, <2>2 DEF SaveAwaited, SaveIsInCopy, NoSave
<1>5. CASE boardCall.stage # "settling"
  <2>1. boardQuery' = Deliver(boardQuery) /\ UNCHANGED <<boardCall, savedAs>>
    BY <1>1, <1>5 DEF Opened
  <2>2. boardQuery'.data = boardQuery.answer /\ boardQuery'.answer = NoData
    BY <1>3, <2>1
  <2>3. SaveAwaited'
    BY <1>1, <1>5, <2>1 DEF ViewInv, SaveAwaited
  <2>4. SaveIsInCopy'
    BY <1>1, <1>2, <2>1, <2>2, ViewFacts DEF ViewInv, SaveIsInCopy
  <2> QED
    BY <2>3, <2>4
<1> QED
  BY <1>4, <1>5

LEMMA ViewSteps ==
    ASSUME ViewInv, [BoardNext]_boardVars
    PROVE  ViewInv'
<1>1. BoardInv'
  BY BoardSteps DEF ViewInv
<1>2. SaveAwaited' /\ SaveIsInCopy'
  BY ViewPageSteps, ViewWrites, ViewAsks, ViewReplied, ViewRead, ViewFailed, ViewDelivered
     DEF BoardNext
<1> QED
  BY <1>1, <1>2 DEF ViewInv

\* The view that a save opens shows that save or a later one from its first frame on,
\* for any number of writes by others and however often the editor fetched; if the
\* refetch it waited for failed, it does from the first fetch that arrives.
THEOREM SavesAreViewed == BoardSpec => []ViewShowsOwnSave
<1>1. BoardInit => ViewInv
  <2> SUFFICES ASSUME BoardInit PROVE ViewInv
    OBVIOUS
  <2>1. boardCall = NoSave /\ savedAs = NotSaved
    BY DEF BoardInit
  <2>2. SaveAwaited /\ SaveIsInCopy
    BY <2>1, NotSavedType DEF SaveAwaited, SaveIsInCopy, NoSave
  <2> QED
    BY <2>2, BoardStart DEF ViewInv
<1>2. ViewInv /\ [BoardNext]_boardVars => ViewInv'
  BY ViewSteps
<1>3. ViewInv => ViewShowsOwnSave
  BY ViewFacts DEF ViewInv, SaveIsInCopy, ViewShowsOwnSave
<1> QED
  BY <1>1, <1>2, <1>3, PTL DEF BoardSpec

-----------------------------------------------------------------------------
(* ConfigEditor. *)

\* Nothing is cached before there is a configuration, nor on the page of a new one.
AskedInOrder ==
    /\ configWrites = 0 \/ form.state = "new" => configQuery = Empty
    /\ Mounted \/ basicCall.stage = "done" => configWrites > 0

\* A save is sent from the page it belongs to, and that page waits for it.
Saving == \/ basicCall # NoCall /\ ~basicCall.create
          \/ machinesCall # NoCall
SavesInOrder ==
    /\ basicCall # NoCall /\ basicCall.create => form.state = "new"
    /\ Saving => Mounted

\* Of a write that is acknowledged, the copy, or what was read for the fetch in flight,
\* is the row.
AckInCopy ==
    /\ lastWrite # "others" => config # None
    /\ lastWrite = "shown" =>
        /\ configQuery.fetch = "idle" => configQuery.data = config
        /\ configQuery.fetch = "asked" => configQuery.answer \in {NoData, config}
        /\ configQuery.fetch = "answered" => configQuery.answer = config

AckInv == ConfigInv /\ AskedInOrder /\ SavesInOrder /\ AckInCopy

LEMMA AckFacts ==
    ASSUME AckInv
    PROVE  /\ configWrites \in Nat /\ configQuery \in Entry(Config)
           /\ configQuery.fetch \in {"idle", "asked", "answered", "failed"}
           /\ AtRest(configQuery) => configQuery.answer = NoData
           /\ form \in Form /\ config \in Config \cup {None}
           /\ basicCall \in BasicCall /\ machinesCall \in MachinesCall
           /\ NoData \notin Config /\ None \notin Config
<1>1. ConfigInv
  BY DEF AckInv
<1>2. /\ configWrites \in Nat /\ configQuery \in Entry(Config)
      /\ EntryInOrder(configQuery, configWrites)
  BY <1>1, ConfigFacts
<1>3. /\ configQuery.fetch \in {"idle", "asked", "answered", "failed"}
      /\ AtRest(configQuery) => configQuery.answer = NoData
  BY <1>2 DEF Entry, EntryInOrder
<1> QED
  BY <1>1, <1>2, <1>3, NoConfigIsUndefined DEF ConfigInv, ConfigTypeOK

LEMMA CallStages ==
    /\ \A call \in BasicCall :
        /\ call # NoCall <=> call.stage \in {"sent", "done"}
        /\ call # NoCall => call.create \in BOOLEAN
    /\ \A call \in MachinesCall : call # NoCall <=> call.stage \in {"sent", "done", "settling"}
    /\ NoCall.stage = "none"
BY DEF NoCall, BasicCall, MachinesCall

\* The form and the requests.
LEMMA AckFormSteps ==
    ASSUME AckInv,
           \/ OpenNewConfig \/ LeaveConfig \/ SaveBasic \/ SaveMachines
           \/ BasicFails \/ MachinesFail
           \/ \E basic \in Complete : EditBasic(basic)
           \/ \E m \in Machine : ToggleMachine(m) \/ \E host \in Host : EditConnection(m, host)
           \/ UNCHANGED configVars
    PROVE  AskedInOrder' /\ SavesInOrder' /\ AckInCopy'
<1>1. UNCHANGED <<config, configWrites, configQuery>> /\ lastWrite' \in {lastWrite, "others"}
  BY DEF OpenNewConfig, LeaveConfig, SaveBasic, SaveMachines, BasicFails, MachinesFail,
         EditBasic, ToggleMachine, EditConnection, configVars
<1>2. AckInCopy'
  BY <1>1 DEF AckInv, AckInCopy
<1>3. CASE OpenNewConfig
  <2>1. /\ form.state = "closed" /\ configWrites = 0 /\ basicCall' = basicCall
        /\ machinesCall' = machinesCall /\ basicCall = NoCall
    BY <1>3 DEF OpenNewConfig
  <2>2. form'.state = "new"
    BY <1>3, AckFacts DEF OpenNewConfig, Form
  <2>3. machinesCall = NoCall
    BY <2>1 DEF AckInv, SavesInOrder, Saving, Mounted
  <2> QED
    BY <1>1, <1>2, <2>1, <2>2, <2>3, CallStages
       DEF AckInv, AskedInOrder, SavesInOrder, Saving, Mounted
<1>4. CASE LeaveConfig
  <2>1. form'.state = "closed" /\ basicCall' = NoCall /\ machinesCall' = NoCall
    BY <1>4 DEF LeaveConfig, ClosedForm
  <2> QED
    BY <1>1, <1>2, <2>1, CallStages DEF AckInv, AskedInOrder, SavesInOrder, Saving, Mounted
<1>5. CASE SaveBasic
  <2>1. /\ form' = form /\ machinesCall' = machinesCall /\ Editable
        /\ basicCall' = [stage |-> "sent", create |-> form.state = "new", body |-> form.basic]
    BY <1>5 DEF SaveBasic
  <2>2. basicCall'.stage = "sent" /\ (basicCall'.create <=> form.state = "new")
    BY <2>1
  <2>3. form.state = "new" \/ Mounted
    BY <2>1 DEF Editable
  <2> QED
    BY <1>1, <1>2, <2>1, <2>2, <2>3 DEF AckInv, AskedInOrder, SavesInOrder, Saving, Mounted
<1>6. CASE SaveMachines
  <2>1. /\ form' = form /\ basicCall' = basicCall /\ Mounted
    BY <1>6 DEF SaveMachines, MachinesStep
  <2> QED
    BY <1>1, <1>2, <2>1 DEF AckInv, AskedInOrder, SavesInOrder, Saving, Mounted
<1>7. CASE BasicFails \/ MachinesFail
  <2>1. /\ form' = form
        /\ \/ basicCall' = NoCall /\ machinesCall' = machinesCall
           \/ basicCall' = basicCall /\ machinesCall' = NoCall
    BY <1>7 DEF BasicFails, MachinesFail
  <2> QED
    BY <1>1, <1>2, <2>1, CallStages
       DEF AckInv, AskedInOrder, SavesInOrder, Saving, Mounted
<1>8. CASE \/ \E basic \in Complete : EditBasic(basic)
           \/ \E m \in Machine : ToggleMachine(m) \/ \E host \in Host : EditConnection(m, host)
           \/ UNCHANGED configVars
  <2>1. UNCHANGED <<basicCall, machinesCall>>
    BY <1>8 DEF EditBasic, ToggleMachine, EditConnection, configVars
  <2>2. form'.state = form.state
    BY <1>8, AckFacts DEF EditBasic, ToggleMachine, EditConnection, configVars, Form
  <2> QED
    BY <1>1, <1>2, <2>1, <2>2 DEF AckInv, AskedInOrder, SavesInOrder, Saving, Mounted
<1> QED
  BY <1>3, <1>4, <1>5, <1>6, <1>7, <1>8

\* The writes: none is acknowledged yet.
LEMMA AckWrites ==
    ASSUME AckInv,
           \/ ApplyCreate \/ ApplyUpdate \/ ApplyMachines \/ OthersDelete
           \/ \E basic \in Complete : OthersCreate(basic) \/ OthersUpdate(basic)
           \/ \E machines \in Selection : OthersSetMachines(machines)
    PROVE  AskedInOrder' /\ SavesInOrder' /\ AckInCopy'
<1>1. /\ UNCHANGED <<configQuery, form>> /\ configWrites' = configWrites + 1
      /\ configWrites < MaxConfigWrites
      /\ lastWrite' \in {"others", "basic", "machines"}
      /\ lastWrite' # "others" => ApplyCreate \/ ApplyUpdate \/ ApplyMachines
      /\ config # None \/ configWrites = 0
  BY DEF ApplyCreate, ApplyUpdate, ApplyMachines, OthersDelete, OthersCreate, OthersUpdate,
         OthersSetMachines, WriteConfig
<1>2. configWrites' > 0 /\ configWrites + 1 \in 1 .. MaxConfigWrites
  BY <1>1, AckFacts, ConfigRows
<1>3. ApplyCreate \/ ApplyUpdate \/ ApplyMachines => config' # None
  <2> SUFFICES ASSUME ApplyCreate \/ ApplyUpdate \/ ApplyMachines
      PROVE config' # None
    OBVIOUS
  <2>1. /\ \A b \in Complete : CreatedRow(b) \in Config
        /\ \A b \in Complete : config # None => UpdatedRow(b) \in Config
        /\ \A ms \in Selection : config # None => [config EXCEPT !.machines = ms] \in Config
    BY <1>2, AckFacts, ConfigRowTypes
  <2>2. \E row \in Config : \E by : WriteConfig(row, by)
    BY <2>1, AckFacts, CallBodies DEF ApplyCreate, ApplyUpdate, ApplyMachines
  <2>3. PICK row \in Config : config' = [row EXCEPT !.rev = configWrites + 1]
    BY <2>2, AckFacts DEF WriteConfig
  <2>4. config' \in Config
    BY <1>2, <2>3 DEF Config
  <2> QED
    BY <2>4, AckFacts
<1>4. AskedInOrder'
  <2>1. configWrites = 0 => configQuery = Empty
    BY DEF AckInv, AskedInOrder
  <2> QED
    BY <1>1, <1>2, <2>1 DEF AckInv, AskedInOrder, Mounted
<1>5. SavesInOrder'
  <2>1. CASE ApplyCreate
    <3>1. basicCall.stage = "sent" /\ basicCall.create /\ UNCHANGED machinesCall
          /\ basicCall' = [stage |-> "done", create |-> TRUE]
      BY <2>1 DEF ApplyCreate
    <3>2. basicCall # NoCall /\ basicCall'.create
      BY <3>1, AckFacts, CallStages
    <3> QED
      BY <1>1, <3>1, <3>2 DEF AckInv, SavesInOrder, Saving, Mounted
  <2>2. CASE ApplyUpdate
    <3>1. basicCall.stage = "sent" /\ ~basicCall.create /\ UNCHANGED machinesCall
          /\ basicCall' = [stage |-> "done", create |-> FALSE]
      BY <2>2 DEF ApplyUpdate
    <3>2. basicCall # NoCall /\ ~basicCall'.create
      BY <3>1, AckFacts, CallStages
    <3> QED
      BY <1>1, <3>1, <3>2 DEF AckInv, SavesInOrder, Saving, Mounted
  <2>3. CASE ApplyMachines
    <3>1. machinesCall.stage = "sent" /\ UNCHANGED basicCall
      BY <2>3 DEF ApplyMachines
    <3>2. machinesCall # NoCall
      BY <3>1, AckFacts, CallStages
    <3> QED
      BY <1>1, <3>1, <3>2 DEF AckInv, SavesInOrder, Saving, Mounted
  <2>4. CASE ~(ApplyCreate \/ ApplyUpdate \/ ApplyMachines)
    <3>1. UNCHANGED <<basicCall, machinesCall>>
      BY <2>4 DEF OthersDelete, OthersCreate, OthersUpdate, OthersSetMachines
    <3> QED
      BY <1>1, <3>1 DEF AckInv, SavesInOrder, Saving, Mounted
  <2> QED
    BY <2>1, <2>2, <2>3, <2>4
<1> QED
  BY <1>1, <1>3, <1>4, <1>5 DEF AckInCopy

LEMMA AckAsks ==
    ASSUME AckInv, OpenConfig \/ RefetchConfig
    PROVE  AskedInOrder' /\ SavesInOrder' /\ AckInCopy'
<1>1. /\ configQuery' = Ask(configQuery)
      /\ UNCHANGED <<config, configWrites, basicCall, machinesCall, lastWrite>>
  BY DEF OpenConfig, RefetchConfig
<1>2. /\ configQuery'.data = configQuery.data /\ configQuery'.answer = configQuery.answer
      /\ configQuery'.fetch = IF AtRest(configQuery) THEN "asked" ELSE configQuery.fetch
  BY <1>1, AckFacts, AskedEntry
<1>3. AckInCopy'
  BY <1>1, <1>2, AckFacts DEF AckInv, AckInCopy, AtRest
<1>4. configWrites > 0 /\ form'.state = "edit" /\ form.state # "new"
  <2>1. CASE OpenConfig
    <3>1. form' = [ClosedForm EXCEPT !.state = "edit"] \/ form' = FillForm(configQuery.data)
      BY <2>1 DEF OpenConfig
    <3>2. form'.state = "edit"
      BY <3>1 DEF ClosedForm, FillForm
    <3> QED
      BY <2>1, <3>2 DEF OpenConfig
  <2>2. CASE RefetchConfig
    BY <2>2 DEF RefetchConfig, Mounted, AckInv, AskedInOrder
  <2> QED
    BY <2>1, <2>2
<1>5. AskedInOrder'
  BY <1>1, <1>4, AckFacts DEF AskedInOrder, Mounted
<1>6. SavesInOrder'
  <2>1. basicCall # NoCall /\ basicCall.create => FALSE
    BY <1>4 DEF AckInv, SavesInOrder
  <2> QED
    BY <1>1, <1>4, <2>1 DEF AckInv, SavesInOrder, Saving, Mounted
<1> QED
  BY <1>3, <1>5, <1>6

\* The first statement reads the row, the second one its machines: of a row that was
\* not written in between, what it is.
LEMMA AckFetched ==
    ASSUME AckInv, ReadConfig \/ AnswerConfig \/ FailConfig \/ DeliverConfig
    PROVE  AskedInOrder' /\ SavesInOrder' /\ AckInCopy'
<1>1. /\ UNCHANGED <<config, configWrites, basicCall, lastWrite>>
      /\ configQuery.fetch \in {"asked", "answered"}
      /\ machinesCall' = machinesCall \/ machinesCall' = Settled(machinesCall)
  BY DEF ReadConfig, AnswerConfig, FailConfig, DeliverConfig
<1>2. configWrites > 0 /\ form.state # "new"
  <2>1. configQuery # Empty
    BY <1>1 DEF Empty
  <2> QED
    BY <2>1, AckFacts DEF AckInv, AskedInOrder
<1>3. form'.state = form.state
  BY DEF ReadConfig, AnswerConfig, FailConfig, DeliverConfig, Filled, FillForm, Mounted
<1>4. machinesCall' = machinesCall \/ machinesCall' = NoCall
  BY <1>1 DEF Settled
<1>5. AskedInOrder'
  BY <1>1, <1>2, <1>3, AckFacts DEF AskedInOrder, Mounted
<1>6. SavesInOrder'
  BY <1>1, <1>3, <1>4 DEF AckInv, SavesInOrder, Saving, Mounted
<1>7. AckInCopy'
  <2>1. CASE ReadConfig
    <3>1. configQuery'.answer = config /\ configQuery'.fetch = "asked"
      BY <2>1, AckFacts DEF ReadConfig, ReadFirst, Entry
    <3> QED
      BY <1>1, <3>1 DEF AckInv, AckInCopy
  <2>2. CASE AnswerConfig
    <3>1. configQuery'.answer = ReadTogether(configQuery.answer)
          /\ configQuery'.fetch = "answered"
          /\ configQuery.fetch = "asked" /\ configQuery.answer # NoData
      BY <2>2 DEF AnswerConfig, Answer
    <3>2. config # None => ReadTogether(config) = config
      BY DEF ReadTogether
    <3> QED
      BY <1>1, <3>1, <3>2 DEF AckInv, AckInCopy
  <2>3. CASE FailConfig
    <3>1. configQuery'.fetch = "failed"
      BY <2>3 DEF FailConfig, Fail
    <3> QED
      BY <1>1, <3>1 DEF AckInv, AckInCopy
  <2>4. CASE DeliverConfig
    <3>1. configQuery'.data = configQuery.answer /\ configQuery'.fetch = "idle"
          /\ configQuery.fetch = "answered"
      BY <2>4 DEF DeliverConfig, Deliver
    <3> QED
      BY <1>1, <3>1 DEF AckInv, AckInCopy
  <2> QED
    BY <2>1, <2>2, <2>3, <2>4
<1> QED
  BY <1>5, <1>6, <1>7

\* The reply to a create finds no entry; the page asks for the first time.
LEMMA AckCreated ==
    ASSUME AckInv, CreateReplied
    PROVE  AskedInOrder' /\ SavesInOrder' /\ AckInCopy'
<1>1. /\ UNCHANGED <<config, configWrites, machinesCall>>
      /\ basicCall.stage = "done" /\ basicCall.create /\ basicCall' = NoCall
      /\ configQuery' = Ask(configQuery)
      /\ form' = [form EXCEPT !.state = "edit"]
      /\ lastWrite' = Shown("basic")
  BY DEF CreateReplied
<1>2. form.state = "new" /\ machinesCall = NoCall
  BY <1>1, AckFacts, CallStages DEF AckInv, SavesInOrder, Saving, Mounted
<1>3. configQuery = Empty /\ configQuery' = [data |-> NoData, answer |-> NoData, fetch |-> "asked"]
  BY <1>1, <1>2 DEF AckInv, AskedInOrder, Ask, Empty, AtRest
<1>4. form'.state = "edit"
  BY <1>1, AckFacts DEF Form
<1>5. configWrites > 0
  BY <1>1 DEF AckInv, AskedInOrder
<1>6. AskedInOrder'
  BY <1>1, <1>4, <1>5, AckFacts DEF AskedInOrder, Mounted
<1>7. SavesInOrder'
  BY <1>1, <1>2 DEF SavesInOrder, Saving
<1>8. AckInCopy'
  <2>1. lastWrite' # "others" => lastWrite # "others"
    BY <1>1 DEF Shown
  <2> QED
    BY <1>1, <1>3, <2>1 DEF AckInv, AckInCopy
<1> QED
  BY <1>6, <1>7, <1>8

\* The other replies find the page mounted: what is in flight is dropped, unless it is
\* the first fetch, and then the write is not taken for shown.
LEMMA AckRepliedStep ==
    ASSUME AckInv, UpdateReplied \/ MachinesReplied
    PROVE  AskedInOrder' /\ SavesInOrder' /\ AckInCopy'
<1>1. /\ UNCHANGED <<config, configWrites, form>>
      /\ configQuery' = Invalidate(configQuery, Mounted)
      /\ \E by \in {"basic", "machines"} : lastWrite' = Shown(by)
  BY DEF UpdateReplied, MachinesReplied
<1>2. Saving
  BY AckFacts, CallStages DEF UpdateReplied, MachinesReplied, Saving
<1>3. Mounted /\ configWrites > 0
  BY <1>2 DEF AckInv, SavesInOrder, AskedInOrder
<1>4. \/ basicCall' = NoCall /\ machinesCall' = machinesCall
      \/ basicCall' = basicCall /\ machinesCall' = [stage |-> "settling"]
  BY DEF UpdateReplied, MachinesReplied
<1>5. form.state = "edit"
  BY <1>3 DEF Mounted
<1>6. AskedInOrder'
  BY <1>1, <1>3, <1>5, AckFacts DEF AskedInOrder, Mounted
<1>7. basicCall = NoCall \/ ~basicCall.create
  BY <1>5 DEF AckInv, SavesInOrder
<1>8. SavesInOrder'
  BY <1>1, <1>4, <1>5, <1>7 DEF SavesInOrder, Saving, Mounted
<1>9. AckInCopy'
  <2>1. lastWrite' # "others" => lastWrite # "others"
    BY <1>1 DEF Shown
  <2>2. CASE Joins(configQuery)
    <3>1. configQuery' = configQuery /\ lastWrite' = lastWrite
      BY <1>1, <2>2 DEF Invalidate, Shown
    <3> QED
      BY <1>1, <3>1 DEF AckInv, AckInCopy
  <2>3. CASE ~Joins(configQuery)
    <3>1. configQuery'.fetch = "asked" /\ configQuery'.answer = NoData
      BY <1>1, <1>3, <2>3 DEF Invalidate
    <3> QED
      BY <1>1, <2>1, <3>1 DEF AckInv, AckInCopy
  <2> QED
    BY <2>2, <2>3
<1> QED
  BY <1>6, <1>8, <1>9

LEMMA AckSteps ==
    ASSUME AckInv, [ConfigNext]_configVars
    PROVE  AckInv'
<1>1. ConfigInv'
  BY ConfigSteps DEF AckInv
<1>2. AskedInOrder' /\ SavesInOrder' /\ AckInCopy'
  BY AckFormSteps, AckWrites, AckAsks, AckFetched, AckCreated, AckRepliedStep DEF ConfigNext
<1> QED
  BY <1>1, <1>2 DEF AckInv

\* A page that is told that its save succeeded does not settle on a copy from before
\* it, however the fetches, its two saves and other administrators' overlap, unless
\* the last fetch failed.
THEOREM AckedSavesAreShown == ConfigSpec => []AckedSaveIsShown
<1>1. ConfigInit => AckInv
  <2> SUFFICES ASSUME ConfigInit PROVE AckInv
    OBVIOUS
  <2>1. /\ configQuery = Empty /\ form.state = "closed" /\ lastWrite = "others"
        /\ basicCall = NoCall /\ machinesCall = NoCall
    BY DEF ConfigInit, ClosedForm
  <2>2. AskedInOrder /\ SavesInOrder /\ AckInCopy
    BY <2>1, CallStages DEF AskedInOrder, SavesInOrder, Saving, AckInCopy, Mounted
  <2> QED
    BY <2>2, ConfigStart DEF AckInv
<1>2. AckInv /\ [ConfigNext]_configVars => AckInv'
  BY AckSteps
<1>3. AckInv => AckedSaveIsShown
  BY DEF AckInv, AckInCopy, AckedSaveIsShown
<1> QED
  BY <1>1, <1>2, <1>3, PTL DEF ConfigSpec
=============================================================================
