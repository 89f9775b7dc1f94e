---------------------------- MODULE ConfigEditor ----------------------------
(***************************************************************************)
(* WorkerConfigEditPage: the form in which an administrator edits one      *)
(* worker configuration, the two requests that save it, the cached copy    *)
(* the form is filled from, and the tables worker_configs and              *)
(* worker_config_machines, which other administrators write too.           *)
(*                                                                         *)
(* The basic settings and the machines are edited in one form and saved by *)
(* two requests.  Each reply invalidates the cached copy, and each copy    *)
(* that arrives and says something new fills both parts of the form again. *)
(***************************************************************************)
EXTENDS Integers, QueryCache

CONSTANTS
    Name,            \* names a configuration may be given
    Site,            \* sites
    Machine,         \* machines
    SiteOf,          \* the site whose line the machine is on
    Host,            \* host addresses, NoHost (the empty string) among them
    NoHost,
    HostOf,          \* the machine's own connection, as /sites/{id}/detail tells
    Out,             \* in place of a host: the machine is not selected
    None,            \* an empty field, no row
    MaxConfigWrites  \* bound: writes to the tables

ASSUME ConfigConstants ==
    /\ SiteOf \in [Machine -> Site]
    /\ HostOf \in [Machine -> Host]
    /\ NoHost \in Host
    /\ Out \notin Host
    /\ None \notin Name
    /\ None \notin Site
    /\ MaxConfigWrites \in Nat

VARIABLES
    config,       \* the row of worker_configs with its machines
    configWrites, \* how often it was written, which is the row's rev
    configQuery,  \* the cache entry ['worker-config', id]
    form,         \* what the page shows
    basicCall,    \* the POST or PUT of the basic settings in flight
    machinesCall, \* the PUT of the machines in flight
    lastWrite     \* history: whose the last write is, "shown" once the page has
                  \* the reply to it, unless a first fetch was in flight by then

configVars == <<config, configWrites, configQuery, form, basicCall, machinesCall, lastWrite>>

Basic     == [name : Name \cup {None}, site : Site \cup {None}]
Complete  == [name : Name, site : Site]
Selection == [Machine -> Host \cup {Out}]
\* rev counts all writes of the configuration; updated is updated_at, that of the last
\* write of its row.
Config    == [basic : Complete, machines : Selection, updated : 0 .. MaxConfigWrites,
              rev : 0 .. MaxConfigWrites]

ASSUME NoConfigIsUndefined == NoData \notin Config /\ None \notin Config

NoMachines == [m \in Machine |-> Out]
Selected(machines) == {m \in Machine : machines[m] # Out}

\* A request in flight: sent, applied with its reply on the way, or settling: the
\* hook of the machines' request waits for the refetch its reply caused.
NoCall == [stage |-> "none"]
BasicCall == {NoCall} \cup [stage : {"sent"}, create : BOOLEAN, body : Complete]
                      \cup [stage : {"done"}, create : BOOLEAN]
MachinesCall == {NoCall} \cup [stage : {"sent"}, body : Selection]
                         \cup [stage : {"done", "settling"}]

Form == [state : {"closed", "new", "edit"},
         basic : [name : Name \cup {None}, site : Site \cup {None}],
         machines : Selection]
ClosedForm == [state |-> "closed", basic |-> [name |-> None, site |-> None],
               machines |-> NoMachines]

ConfigInit ==
    /\ config = None
    /\ configWrites = 0
    /\ configQuery = Empty
    /\ form = ClosedForm
    /\ basicCall = NoCall
    /\ machinesCall = NoCall
    /\ lastWrite = "others"

Mounted == form.state = "edit"

-----------------------------------------------------------------------------
(* The form. *)

\* The two effects on [config]: the data fill both parts of the form.
FillForm(data) == [state |-> "edit", basic |-> data.basic, machines |-> data.machines]

\* A mount with a cached copy shows it at once and asks for a new one.
OpenConfig ==
    /\ form.state = "closed"
    /\ configWrites > 0
    /\ form' = IF configQuery.data = NoData THEN [ClosedForm EXCEPT !.state = "edit"]
               ELSE FillForm(configQuery.data)
    /\ configQuery' = Ask(configQuery)
    /\ UNCHANGED <<config, configWrites, basicCall, machinesCall, lastWrite>>

OpenNewConfig ==
    /\ form.state = "closed"
    /\ configWrites = 0
    /\ basicCall = NoCall
    /\ form' = [form EXCEPT !.state = "new"]
    /\ UNCHANGED <<config, configWrites, configQuery, basicCall, machinesCall, lastWrite>>

\* The form's state goes, the cache entry stays.  A request still in flight is
\* from now on one of the others' requests, and the refetch it causes one of
\* RefetchConfig's: the next mount does not know of it.  (The reply to a create
\* still opens the page: that is OpenConfig.)
LeaveConfig ==
    /\ form.state # "closed"
    /\ form' = ClosedForm
    /\ basicCall' = NoCall
    /\ machinesCall' = NoCall
    /\ lastWrite' = "others"
    /\ UNCHANGED <<config, configWrites, configQuery>>

\* While the first copy is on its way the page shows that it is loading.
\* A page whose first fetch failed shows the empty form.
Editable ==
    \/ form.state = "new"
    \/ Mounted /\ (configQuery.data # NoData \/ AtRest(configQuery))

EditBasic(basic) ==
    /\ Editable
    /\ form' = [form EXCEPT !.basic = basic]
    /\ UNCHANGED <<config, configWrites, configQuery, basicCall, machinesCall, lastWrite>>

\* The steps after the first one open when the configuration exists.
MachinesStep == Mounted /\ Editable

\* The step lists the machines of the site chosen in the form, saved or not.
ToggleMachine(m) ==
    /\ MachinesStep
    /\ SiteOf[m] = form.basic.site
    /\ form' = [form EXCEPT !.machines[m] = IF @ = Out THEN HostOf[m] ELSE Out]
    /\ UNCHANGED <<config, configWrites, configQuery, basicCall, machinesCall, lastWrite>>

EditConnection(m, host) ==
    /\ MachinesStep
    /\ SiteOf[m] = form.basic.site
    /\ form.machines[m] # Out
    /\ form' = [form EXCEPT !.machines[m] = host]
    /\ UNCHANGED <<config, configWrites, configQuery, basicCall, machinesCall, lastWrite>>

SaveBasic ==
    /\ Editable
    /\ basicCall = NoCall
    /\ form.basic \in Complete
    /\ basicCall' = [stage |-> "sent", create |-> form.state = "new", body |-> form.basic]
    /\ UNCHANGED <<config, configWrites, configQuery, form, machinesCall, lastWrite>>

SaveMachines ==
    /\ MachinesStep
    /\ machinesCall = NoCall
    /\ Selected(form.machines) # {}
    /\ machinesCall' = [stage |-> "sent", body |-> form.machines]
    /\ UNCHANGED <<config, configWrites, configQuery, form, basicCall, lastWrite>>

-----------------------------------------------------------------------------
(* The server. *)

\* Every write is news to the copies handed out before it: updated_at differs, or
\* the ids of the machines' rows do, which are deleted and inserted again.
WriteConfig(row, by) ==
    /\ configWrites < MaxConfigWrites
    /\ configWrites' = configWrites + 1
    /\ config' = IF row = None THEN None ELSE [row EXCEPT !.rev = configWrites + 1]
    /\ lastWrite' = by

CreatedRow(basic) == [basic |-> basic, machines |-> NoMachines, updated |-> 1, rev |-> 0]
UpdatedRow(basic) == [config EXCEPT !.basic = basic, !.updated = configWrites + 1]

\* CreateConfig: refused if the name is taken at the site.
ApplyCreate ==
    /\ basicCall.stage = "sent" /\ basicCall.create
    /\ configWrites = 0
    /\ WriteConfig(CreatedRow(basicCall.body), "basic")
    /\ basicCall' = [stage |-> "done", create |-> TRUE]
    /\ UNCHANGED <<configQuery, form, machinesCall>>

\* UpdateConfig sets the site whatever the machines are.
ApplyUpdate ==
    /\ basicCall.stage = "sent" /\ ~basicCall.create
    /\ config # None
    /\ WriteConfig(UpdatedRow(basicCall.body), "basic")
    /\ basicCall' = [stage |-> "done", create |-> FALSE]
    /\ UNCHANGED <<configQuery, form, machinesCall>>

\* SetConfigMachines replaces them in one transaction.  An empty host is refused.
ApplyMachines ==
    /\ machinesCall.stage = "sent"
    /\ config # None
    /\ \A m \in Machine : machinesCall.body[m] # NoHost
    /\ WriteConfig([config EXCEPT !.machines = machinesCall.body], "machines")
    /\ machinesCall' = [stage |-> "done"]
    /\ UNCHANGED <<configQuery, form, basicCall>>

\* Another administrator, or a request of a page that was left, saves or deletes.
\* These keep a configuration within one site, so that only this page may not.
OneSite(row) == \A m \in Selected(row.machines) : SiteOf[m] = row.basic.site

OthersCreate(basic) ==
    /\ configWrites = 0
    /\ WriteConfig(CreatedRow(basic), "others")
    /\ UNCHANGED <<configQuery, form, basicCall, machinesCall>>

OthersUpdate(basic) ==
    /\ config # None
    /\ OneSite(UpdatedRow(basic))
    /\ WriteConfig(UpdatedRow(basic), "others")
    /\ UNCHANGED <<configQuery, form, basicCall, machinesCall>>

OthersSetMachines(machines) ==
    /\ config # None
    /\ Selected(machines) # {}
    /\ OneSite([config EXCEPT !.machines = machines])
    /\ \A m \in Machine : machines[m] # NoHost
    /\ WriteConfig([config EXCEPT !.machines = machines], "others")
    /\ UNCHANGED <<configQuery, form, basicCall, machinesCall>>

OthersDelete ==
    /\ config # None
    /\ WriteConfig(None, "others")
    /\ UNCHANGED <<configQuery, form, basicCall, machinesCall>>

-----------------------------------------------------------------------------
(* The replies. *)

\* A refetch on focus, on reconnection or by another user of the entry.
RefetchConfig ==
    /\ Mounted
    /\ AtRest(configQuery)
    /\ configQuery' = Ask(configQuery)
    /\ UNCHANGED <<config, configWrites, form, basicCall, machinesCall, lastWrite>>

Settled(call) == IF call.stage = "settling" THEN NoCall ELSE call

\* GetConfig reads the row, then in a statement of its own the machines.
ReadConfig ==
    /\ configQuery.fetch = "asked"
    /\ configQuery.answer = NoData
    /\ config # None
    /\ configQuery' = ReadFirst(configQuery, config)
    /\ UNCHANGED <<config, configWrites, form, basicCall, machinesCall, lastWrite>>

\* The answer is the configuration as it is if its row has not changed since, and
\* else the row as it was with the machines as they are.
ReadTogether(row) ==
    IF config = None THEN [row EXCEPT !.machines = NoMachines]
    ELSE IF config.updated = row.updated THEN config
    ELSE [row EXCEPT !.machines = config.machines]

AnswerConfig ==
    /\ configQuery.fetch = "asked"
    /\ configQuery.answer # NoData
    /\ configQuery' = Answer(configQuery, ReadTogether(configQuery.answer))
    /\ UNCHANGED <<config, configWrites, form, basicCall, machinesCall, lastWrite>>

\* 404 when the row is gone, any other error, or no answer: also with the fetch that
\* a save waits for.
FailConfig ==
    /\ configQuery.fetch = "asked"
    /\ configQuery' = Fail(configQuery)
    /\ machinesCall' = Settled(machinesCall)
    /\ UNCHANGED <<config, configWrites, form, basicCall, lastWrite>>

\* The effects run when the data are news, and the page is there to run them.
Filled == IF Mounted /\ configQuery.answer # configQuery.data
          THEN FillForm(configQuery.answer) ELSE form

DeliverConfig ==
    /\ configQuery.fetch = "answered"
    /\ configQuery' = Deliver(configQuery)
    /\ form' = Filled
    /\ machinesCall' = Settled(machinesCall)
    /\ UNCHANGED <<config, configWrites, basicCall, lastWrite>>

Shown(by) == IF lastWrite = by /\ ~Joins(configQuery) THEN "shown" ELSE lastWrite

\* navigate with replace: the page stays mounted with its form, and asks for the
\* configuration it now has the id of.
CreateReplied ==
    /\ basicCall.stage = "done" /\ basicCall.create
    /\ basicCall' = NoCall
    /\ form' = [form EXCEPT !.state = "edit"]
    /\ configQuery' = Ask(configQuery)
    /\ lastWrite' = Shown("basic")
    /\ UNCHANGED <<config, configWrites, machinesCall>>

\* Mutant of UpdateReplied: the reply's row is written into the cache instead.
UpdateRepliedWithRow ==
    /\ basicCall.stage = "done" /\ ~basicCall.create
    /\ basicCall' = NoCall
    /\ configQuery' = IF config = None THEN configQuery ELSE [configQuery EXCEPT !.data = config]
    /\ lastWrite' = Shown("basic")
    /\ UNCHANGED <<config, configWrites, form, machinesCall>>

UpdateReplied ==
    /\ basicCall.stage = "done" /\ ~basicCall.create
    /\ basicCall' = NoCall
    /\ configQuery' = Invalidate(configQuery, Mounted)
    /\ lastWrite' = Shown("basic")
    /\ UNCHANGED <<config, configWrites, form, machinesCall>>

\* Mutant of MachinesReplied: the hook forgets to invalidate.
MachinesRepliedQuietly ==
    /\ machinesCall.stage = "done"
    /\ machinesCall' = NoCall
    /\ lastWrite' = Shown("machines")
    /\ UNCHANGED <<config, configWrites, configQuery, form, basicCall>>

MachinesReplied ==
    /\ machinesCall.stage = "done"
    /\ machinesCall' = [stage |-> "settling"]
    /\ configQuery' = Invalidate(configQuery, Mounted)
    /\ lastWrite' = Shown("machines")
    /\ UNCHANGED <<config, configWrites, form, basicCall>>

\* The request is refused, or it or its reply is lost: the page shows an error,
\* and it does not ask for the configuration again.
BasicFails ==
    /\ basicCall # NoCall
    /\ basicCall' = NoCall
    /\ UNCHANGED <<config, configWrites, configQuery, form, machinesCall, lastWrite>>

MachinesFail ==
    /\ machinesCall.stage \in {"sent", "done"}
    /\ machinesCall' = NoCall
    /\ UNCHANGED <<config, configWrites, configQuery, form, basicCall, lastWrite>>

ConfigNext ==
    \/ OpenConfig \/ OpenNewConfig \/ LeaveConfig
    \/ \E basic \in Complete : EditBasic(basic) \/ OthersCreate(basic) \/ OthersUpdate(basic)
    \/ \E m \in Machine : ToggleMachine(m) \/ \E host \in Host : EditConnection(m, host)
    \/ SaveBasic \/ ApplyCreate \/ ApplyUpdate \/ CreateReplied \/ UpdateReplied \/ BasicFails
    \/ SaveMachines \/ ApplyMachines \/ MachinesReplied \/ MachinesFail
    \/ \E machines \in Selection : OthersSetMachines(machines)
    \/ OthersDelete
    \/ RefetchConfig \/ ReadConfig \/ AnswerConfig \/ DeliverConfig \/ FailConfig

ConfigSpec == ConfigInit /\ [][ConfigNext]_configVars

-----------------------------------------------------------------------------
(* Properties. *)

ConfigTypeOK ==
    /\ config \in Config \cup {None}
    /\ configWrites \in 0 .. MaxConfigWrites
    /\ configQuery \in Entry(Config)
    /\ form \in Form
    /\ basicCall \in BasicCall
    /\ machinesCall \in MachinesCall
    /\ lastWrite \in {"others", "basic", "machines", "shown"}

\* What the page is filled from holds all that was written up to some version, and
\* that version never goes back, however fetches, saves and other administrators
\* overlap, also within the two statements of a fetch, and whichever fetches fail.
ConfigCopy == INSTANCE CachedCopy WITH
    version <- configWrites,
    copy <- IF configQuery.data = NoData THEN -1 ELSE configQuery.data.rev
ConfigCopyNeverGoesBack == ConfigCopy!Spec

\* A page that is told that its save succeeded does not settle on a copy from
\* before it: however the fetches and the two saves overlap, once the page has
\* the reply to the last write, nothing is on its way and the last fetch arrived,
\* what it is filled from is what the tables hold.  (A fetch that failed leaves the
\* copy of before, with an error.)
AckedSaveIsShown ==
    lastWrite = "shown" /\ configQuery.fetch = "idle" => configQuery.data = config
=============================================================================
