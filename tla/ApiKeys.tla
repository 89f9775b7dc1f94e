------------------------------- MODULE ApiKeys -------------------------------
(***************************************************************************)
(* ApiKeysPage: the keys of the query interface, the dialog that makes one *)
(* and shows it in full this once, and the confirmation that revokes one.  *)
(*                                                                         *)
(* Enter in the dialog makes a key also while another is being made: the   *)
(* page then has the reply to the last request only, and of the others the *)
(* key is never shown.                                                     *)
(***************************************************************************)
EXTENDS Integers, QueryCache

CONSTANTS
    ApiKey,        \* keys, in the order they are made
    NoKey,
    MaxKeyWrites   \* bound: writes to the table

ASSUME KeyConstants ==
    /\ ApiKey = 1 .. MaxKeyWrites
    /\ NoKey \notin ApiKey
    /\ MaxKeyWrites \in Nat

VARIABLES
    keys,       \* the table llm_api_keys
    keyWrites,
    keysQuery,  \* the cache entry ['api-keys']
    keyPage,    \* the two dialogs
    createCall, \* the last create in flight; "settling" until the refetch is over
    revokeCall,
    keyShown    \* history: the keys a dialog has shown and was closed on

keyVars == <<keys, keyWrites, keysQuery, keyPage, createCall, revokeCall, keyShown>>

KeyTable == [made : SUBSET ApiKey, revoked : SUBSET ApiKey]
ASSUME NoKeysAreUndefined == NoData \notin KeyTable

KeyPage  == [creating : BOOLEAN, named : BOOLEAN, created : ApiKey \cup {NoKey},
             revoking : ApiKey \cup {NoKey}]
NoKeyCall == [stage |-> "none", key |-> NoKey]
KeyCall   == [stage : {"none", "sent", "done", "settling"}, key : ApiKey \cup {NoKey}]

\* The page once its list has arrived: a key made before that may be missing from
\* the first answer.
KeyInit ==
    /\ keys = [made |-> {}, revoked |-> {}]
    /\ keyWrites = 0
    /\ keysQuery = [Empty EXCEPT !.data = keys]
    /\ keyPage = [creating |-> FALSE, named |-> FALSE, created |-> NoKey, revoking |-> NoKey]
    /\ createCall = NoKeyCall
    /\ revokeCall = NoKeyCall
    /\ keyShown = {}

-----------------------------------------------------------------------------
(* The page. *)

KeyPageOnly == UNCHANGED <<keys, keyWrites, keysQuery, createCall, revokeCall>>

OpenCreate ==
    /\ ~keyPage.creating /\ keyPage.revoking = NoKey
    /\ keyPage' = [keyPage EXCEPT !.creating = TRUE]
    /\ KeyPageOnly /\ UNCHANGED keyShown

TypeName ==
    /\ keyPage.creating /\ keyPage.created = NoKey
    /\ keyPage' = [keyPage EXCEPT !.named = TRUE]
    /\ KeyPageOnly /\ UNCHANGED keyShown

CreateKey ==
    /\ keyPage.creating /\ keyPage.created = NoKey
    /\ keyPage.named
    /\ createCall' = [stage |-> "sent", key |-> NoKey]
    /\ UNCHANGED <<keys, keyWrites, keysQuery, keyPage, revokeCall, keyShown>>

\* (Its mutant leaves the key in the dialog.)
ClosedKeepingKey == [keyPage EXCEPT !.creating = FALSE, !.named = FALSE]
ClosedCreate == [keyPage EXCEPT !.creating = FALSE, !.created = NoKey, !.named = FALSE]
CloseCreate ==
    /\ keyPage.creating
    /\ keyPage' = ClosedCreate
    /\ keyShown' = keyShown \cup ({keyPage.created} \ {NoKey})
    /\ KeyPageOnly

AskRevoke(k) ==
    /\ ~keyPage.creating /\ keyPage.revoking = NoKey
    /\ k \in keysQuery.data.made \ keysQuery.data.revoked
    /\ keyPage' = [keyPage EXCEPT !.revoking = k]
    /\ KeyPageOnly /\ UNCHANGED keyShown

CancelRevoke ==
    /\ keyPage.revoking # NoKey
    /\ keyPage' = [keyPage EXCEPT !.revoking = NoKey]
    /\ KeyPageOnly /\ UNCHANGED keyShown

RevokeKey ==
    /\ keyPage.revoking # NoKey
    /\ revokeCall = NoKeyCall
    /\ revokeCall' = [stage |-> "sent", key |-> keyPage.revoking]
    /\ UNCHANGED <<keys, keyWrites, keysQuery, keyPage, createCall, keyShown>>

-----------------------------------------------------------------------------
(* The server. *)

WriteKeys(new) ==
    /\ keyWrites < MaxKeyWrites
    /\ keyWrites' = keyWrites + 1
    /\ keys' = new
    /\ UNCHANGED <<keysQuery, keyPage, keyShown>>

NextKey == keyWrites + 1
WithKey == [keys EXCEPT !.made = @ \cup {NextKey}]

ApplyCreateKey ==
    /\ createCall.stage = "sent"
    /\ WriteKeys(WithKey)
    /\ createCall' = [stage |-> "done", key |-> NextKey]
    /\ UNCHANGED revokeCall

ApplyRevoke ==
    /\ revokeCall.stage = "sent"
    /\ WriteKeys([keys EXCEPT !.revoked = @ \cup {revokeCall.key}])
    /\ revokeCall' = [revokeCall EXCEPT !.stage = "done"]
    /\ UNCHANGED createCall

\* Other administrators, and this page's requests that were overtaken.
OthersWriteKeys(new) ==
    /\ new \in {WithKey} \cup {[keys EXCEPT !.revoked = @ \cup {k}] : k \in keys.made}
    /\ WriteKeys(new)
    /\ UNCHANGED <<createCall, revokeCall>>

-----------------------------------------------------------------------------
(* The replies. *)

RefetchKeys ==
    /\ AtRest(keysQuery)
    /\ keysQuery' = Ask(keysQuery)
    /\ UNCHANGED <<keys, keyWrites, keyPage, createCall, revokeCall, keyShown>>

AnswerKeys ==
    /\ keysQuery.fetch = "asked"
    /\ keysQuery' = Answer(keysQuery, keys)
    /\ UNCHANGED <<keys, keyWrites, keyPage, createCall, revokeCall, keyShown>>

\* The mutate's own onSuccess run when the refetch the hook's waited for is over,
\* also if it failed: whatever dialog is open by then.
KeysSettled ==
    /\ keyPage' = [keyPage EXCEPT
            !.created = IF createCall.stage = "settling" THEN createCall.key ELSE @,
            !.named = @ /\ createCall.stage # "settling",
            !.revoking = IF revokeCall.stage = "settling" THEN NoKey ELSE @]
    /\ createCall' = IF createCall.stage = "settling" THEN NoKeyCall ELSE createCall
    /\ revokeCall' = IF revokeCall.stage = "settling" THEN NoKeyCall ELSE revokeCall
    /\ UNCHANGED <<keys, keyWrites, keyShown>>

DeliverKeys ==
    /\ keysQuery.fetch = "answered"
    /\ keysQuery' = Deliver(keysQuery)
    /\ KeysSettled

\* Any error, or no answer.
FailKeys ==
    /\ keysQuery.fetch = "asked"
    /\ keysQuery' = Fail(keysQuery)
    /\ KeysSettled

KeyCreated ==
    /\ createCall.stage = "done"
    /\ createCall' = [createCall EXCEPT !.stage = "settling"]
    /\ keysQuery' = Invalidate(keysQuery, TRUE)
    /\ UNCHANGED <<keys, keyWrites, keyPage, revokeCall, keyShown>>

RevokeReplied ==
    /\ revokeCall.stage = "done"
    /\ revokeCall' = [revokeCall EXCEPT !.stage = "settling"]
    /\ keysQuery' = Invalidate(keysQuery, TRUE)
    /\ UNCHANGED <<keys, keyWrites, keyPage, createCall, keyShown>>

\* Refused or lost: the dialog stays as it is.
KeyCallFails ==
    /\ \/ createCall.stage \in {"sent", "done"} /\ createCall' = NoKeyCall /\ UNCHANGED revokeCall
       \/ revokeCall.stage \in {"sent", "done"} /\ revokeCall' = NoKeyCall /\ UNCHANGED createCall
    /\ UNCHANGED <<keys, keyWrites, keysQuery, keyPage, keyShown>>

KeyNext ==
    \/ OpenCreate \/ TypeName \/ CreateKey \/ CloseCreate
    \/ \E k \in ApiKey : AskRevoke(k)
    \/ CancelRevoke \/ RevokeKey
    \/ ApplyCreateKey \/ ApplyRevoke
    \/ \E new \in KeyTable : OthersWriteKeys(new)
    \/ RefetchKeys \/ AnswerKeys \/ DeliverKeys \/ FailKeys
    \/ KeyCreated \/ RevokeReplied \/ KeyCallFails

KeySpec == KeyInit /\ [][KeyNext]_keyVars

-----------------------------------------------------------------------------
(* Properties. *)

KeyTypeOK ==
    /\ keys \in KeyTable
    /\ keyWrites \in 0 .. MaxKeyWrites
    /\ keysQuery \in Entry(KeyTable)
    /\ keyPage \in KeyPage
    /\ createCall \in KeyCall /\ revokeCall \in KeyCall
    /\ keyShown \subseteq ApiKey

\* A key that a dialog was closed on is never shown again, also when replies come
\* late and fetches fail, and while one is shown in full the list behind the dialog
\* has it once nothing is on its way, unless the last fetch of the list failed.
KeyIsShownOnce ==
    keyPage.created # NoKey =>
        /\ keyPage.created \notin keyShown
        /\ keysQuery.fetch = "idle" => keyPage.created \in keysQuery.data.made
=============================================================================
