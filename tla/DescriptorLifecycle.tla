------------------------- MODULE DescriptorLifecycle -------------------------
(***************************************************************************)
(* The life of the versions of one product definition, from upload to      *)
(* purge (api-gateway, routes/descriptors.routes.js), and the registry     *)
(* that discovery and polling read: the active pointer, the parameter and  *)
(* fingerprint entries and the definition record.  The registry has one    *)
(* entry per PRODUCT, its versions share it.                               *)
(*                                                                         *)
(* A handler reads the document, looks at its state, and then makes one    *)
(* database call after the other; other handlers run in between.  Nothing  *)
(* is compared when a document is saved (versionKey: false): the last save *)
(* wins, and only the save of a deleted document fails.                    *)
(***************************************************************************)
EXTENDS Naturals, FiniteSets

CONSTANTS Doc,          \* the documents, one per uploaded version
          User, Nobody,
          Nothing,      \* an absent entry of the registry
          Request,      \* the handlers that may run at the same time
          WithParams,   \* the documents that define parameters
          WithRules,    \* the documents that define match rules
          MaxFailures,  \* bounds, for model checking only
          MaxOverlaps

ASSUME LifecycleAssumption ==
  /\ Nothing \notin Doc
  /\ Nobody \notin User
  /\ WithParams \subseteq Doc
  /\ WithRules \subseteq Doc
  /\ {MaxFailures, MaxOverlaps} \subseteq Nat

VARIABLES state,       \* state[d]: the lifecycle state of d
          uploader, approver, deprecator, retirer,   \* who took d there last
          aged,        \* the documents retired for longer than the retention
          pointer,     \* product_definition_active_versions
          params,      \* parameter_registry_entries: their version
          prints,      \* fingerprint_registry_entries: their version
          record,      \* product_definition_versions
          at,          \* at[r]: the call handler r makes next
          on, by,      \* the document and the user of its request
          rest,        \* rest[r]: the Active documents r has to supersede
          failures,
          overlaps      \* how many handlers began while another was at work

docs == <<state, uploader, approver, deprecator, retirer, aged>>
registry == <<pointer, params, prints, record>>
handlers == <<at, on, by, rest>>
vars == <<docs, registry, handlers, failures, overlaps>>

State == {"Absent", "Draft", "Validating", "Valid", "Invalid", "Approved",
          "Active", "Deprecated", "Retired", "Purged"}

\* The calls of the handlers, in their order.
ActivateSteps == {"point", "clearParams", "fillParams", "clearPrints",
                  "fillPrints", "define", "findOthers", "supersede"}
PurgeSteps == {"purgeParams", "purgePrints", "purgePointer", "purgeRecord",
               "purge"}
Step == {"idle", "startValidation", "endValidation", "approve", "deprecate",
         "flagPointer", "flagRecord", "countDevices", "retire", "dropPrints",
         "dropPointer", "flagRetired", "delete"}
          \cup ActivateSteps \cup PurgeSteps

Entry == Doc \cup {Nothing}

TypeOK ==
  /\ state \in [Doc -> State]
  /\ uploader \in [Doc -> User \cup {Nobody}]
  /\ approver \in [Doc -> User \cup {Nobody}]
  /\ deprecator \in [Doc -> User \cup {Nobody}]
  /\ retirer \in [Doc -> User \cup {Nobody}]
  /\ aged \in SUBSET Doc
  /\ pointer \in [doc : Entry, status : {"ACTIVE", "DEPRECATED"}]
  /\ params \in Entry
  /\ prints \in Entry
  /\ record \in [doc : Entry, status : {"ACTIVE", "DEPRECATED", "RETIRED"}]
  /\ at \in [Request -> Step]
  /\ on \in [Request -> Entry]
  /\ by \in [Request -> User \cup {Nobody}]
  /\ rest \in [Request -> SUBSET Doc]
  /\ \A r \in Request : at[r] # "idle" => on[r] \in Doc /\ by[r] \in User
  /\ failures \in Nat
  /\ overlaps \in Nat

NoEntry == [doc |-> Nothing, status |-> "ACTIVE"]

Init ==
  /\ state = [d \in Doc |-> "Absent"]
  /\ uploader = [d \in Doc |-> Nobody]
  /\ approver = [d \in Doc |-> Nobody]
  /\ deprecator = [d \in Doc |-> Nobody]
  /\ retirer = [d \in Doc |-> Nobody]
  /\ aged = {}
  /\ pointer = NoEntry
  /\ params = Nothing
  /\ prints = Nothing
  /\ record = NoEntry
  /\ at = [r \in Request |-> "idle"]
  /\ on = [r \in Request |-> Nothing]
  /\ by = [r \in Request |-> Nobody]
  /\ rest = [r \in Request |-> {}]
  /\ failures = 0
  /\ overlaps = 0

-----------------------------------------------------------------------------
(* Handlers *)

InFlight == {r \in Request : at[r] # "idle"}

\* Mutant: the handler does not know who is asking.
BeginAnonymously(r, d, u, step) ==
  /\ at[r] = "idle"
  /\ at' = [at EXCEPT ![r] = step]
  /\ on' = [on EXCEPT ![r] = d]
  /\ UNCHANGED <<by, rest, docs, registry, failures, overlaps>>

\* Handler r has read d for user u and makes its first call next.
Begin(r, d, u, step) ==
  /\ at[r] = "idle"
  /\ at' = [at EXCEPT ![r] = step]
  /\ on' = [on EXCEPT ![r] = d]
  /\ by' = [by EXCEPT ![r] = u]
  /\ rest' = rest
  /\ IF InFlight = {} THEN overlaps' = overlaps
     ELSE overlaps < MaxOverlaps /\ overlaps' = overlaps + 1
  /\ UNCHANGED <<docs, registry, failures>>

GoTo(r, step) ==
  /\ at' = [at EXCEPT ![r] = step]
  /\ UNCHANGED <<on, by, rest>>

\* The handler answers.
Finish(r) ==
  /\ at' = [at EXCEPT ![r] = "idle"]
  /\ on' = [on EXCEPT ![r] = Nothing]
  /\ by' = [by EXCEPT ![r] = Nobody]
  /\ rest' = [rest EXCEPT ![r] = {}]

\* The document of r is gone: its save throws, the answer is an error.
SaveFails(r) ==
  /\ state[on[r]] = "Absent"
  /\ Finish(r)
  /\ UNCHANGED <<docs, registry>>

Saves(r, to) ==
  /\ state[on[r]] # "Absent"
  /\ state' = [state EXCEPT ![on[r]] = to]

-----------------------------------------------------------------------------
(* Upload, validation, approval, deletion *)

\* A new draft.  Refused uploads change nothing; a deleted version that is
\* uploaded again is another document.
Upload(d, u) ==
  /\ state[d] = "Absent"
  /\ uploader[d] = Nobody
  /\ state' = [state EXCEPT ![d] = "Draft"]
  /\ uploader' = [uploader EXCEPT ![d] = u]
  /\ UNCHANGED <<approver, deprecator, retirer, aged, registry, handlers,
                 failures, overlaps>>

BeginValidate(r, d, u) ==
  /\ state[d] \in {"Draft", "Invalid"}
  /\ Begin(r, d, u, "startValidation")

StartValidation(r) ==
  /\ at[r] = "startValidation"
  /\ \/ SaveFails(r)
     \/ /\ Saves(r, "Validating")
        /\ GoTo(r, "endValidation")
        /\ UNCHANGED <<uploader, approver, deprecator, retirer, aged,
                       registry>>
  /\ UNCHANGED <<failures, overlaps>>

EndValidation(r) ==
  /\ at[r] = "endValidation"
  /\ \/ SaveFails(r)
     \/ /\ \E verdict \in {"Valid", "Invalid"} : Saves(r, verdict)
        /\ Finish(r)
        /\ UNCHANGED <<uploader, approver, deprecator, retirer, aged,
                       registry>>
  /\ UNCHANGED <<failures, overlaps>>

\* Mutant: whoever uploaded the version may approve it.
BeginApproveAnyone(r, d, u) ==
  /\ state[d] = "Valid"
  /\ Begin(r, d, u, "approve")

\* Maker and checker: the approver is not the uploader.
BeginApprove(r, d, u) ==
  /\ state[d] = "Valid"
  /\ u # uploader[d]
  /\ Begin(r, d, u, "approve")

Approve(r) ==
  /\ at[r] = "approve"
  /\ \/ SaveFails(r)
     \/ /\ Saves(r, "Approved")
        /\ approver' = [approver EXCEPT ![on[r]] = by[r]]
        /\ Finish(r)
        /\ UNCHANGED <<uploader, deprecator, retirer, aged, registry>>
  /\ UNCHANGED <<failures, overlaps>>

BeginDelete(r, d, u) ==
  /\ state[d] \in {"Draft", "Invalid"}
  /\ Begin(r, d, u, "delete")

\* The audit entry that is saved before goes with the document.
Delete(r) ==
  /\ at[r] = "delete"
  /\ state' = [state EXCEPT ![on[r]] = "Absent"]
  /\ Finish(r)
  /\ UNCHANGED <<uploader, approver, deprecator, retirer, aged, registry,
                 failures, overlaps>>

-----------------------------------------------------------------------------
(* Activation *)

BeginActivate(r, d, u) ==
  /\ state[d] = "Approved"
  /\ Begin(r, d, u, "point")

Point(r) ==
  /\ at[r] = "point"
  /\ pointer' = [doc |-> on[r], status |-> "ACTIVE"]
  /\ GoTo(r, IF on[r] \in WithParams THEN "clearParams"
             ELSE IF on[r] \in WithRules THEN "clearPrints" ELSE "define")
  /\ UNCHANGED <<docs, params, prints, record, failures, overlaps>>

ClearParams(r) ==
  /\ at[r] = "clearParams"
  /\ params' = Nothing
  /\ GoTo(r, "fillParams")
  /\ UNCHANGED <<docs, pointer, prints, record, failures, overlaps>>

FillParams(r) ==
  /\ at[r] = "fillParams"
  /\ params' = on[r]
  /\ GoTo(r, IF on[r] \in WithRules THEN "clearPrints" ELSE "define")
  /\ UNCHANGED <<docs, pointer, prints, record, failures, overlaps>>

ClearPrints(r) ==
  /\ at[r] = "clearPrints"
  /\ prints' = Nothing
  /\ GoTo(r, "fillPrints")
  /\ UNCHANGED <<docs, pointer, params, record, failures, overlaps>>

FillPrints(r) ==
  /\ at[r] = "fillPrints"
  /\ prints' = on[r]
  /\ GoTo(r, "define")
  /\ UNCHANGED <<docs, pointer, params, record, failures, overlaps>>

Define(r) ==
  /\ at[r] = "define"
  /\ record' = [doc |-> on[r], status |-> "ACTIVE"]
  /\ GoTo(r, "findOthers")
  /\ UNCHANGED <<docs, pointer, params, prints, failures, overlaps>>

\* Mutant: only the version the pointer named is superseded, and the pointer
\* already names the new one.
FindOthersByPointer(r) ==
  /\ at[r] = "findOthers"
  /\ rest' = [rest EXCEPT ![r] =
                {d \in Doc \ {on[r]} : state[d] = "Active"
                                       /\ pointer.doc = d}]
  /\ at' = [at EXCEPT ![r] = "supersede"]
  /\ UNCHANGED <<docs, registry, on, by, failures, overlaps>>

FindOthers(r) ==
  /\ at[r] = "findOthers"
  /\ rest' = [rest EXCEPT ![r] = {d \in Doc \ {on[r]} : state[d] = "Active"}]
  /\ at' = [at EXCEPT ![r] = "supersede"]
  /\ UNCHANGED <<docs, registry, on, by, failures, overlaps>>

\* One of the other Active versions, in the order the query returned them.
\* An Active document is never deleted from under it, or its save fails.
Supersede(r) ==
  /\ at[r] = "supersede"
  /\ \E d \in rest[r] :
       IF state[d] = "Absent"
       THEN Finish(r) /\ UNCHANGED <<state, deprecator>>
       ELSE /\ state' = [state EXCEPT ![d] = "Deprecated"]
            /\ deprecator' = [deprecator EXCEPT ![d] = by[r]]
            /\ rest' = [rest EXCEPT ![r] = @ \ {d}]
            /\ UNCHANGED <<at, on, by>>
  /\ UNCHANGED <<uploader, approver, retirer, aged, registry, failures,
                 overlaps>>

\* The document itself is saved last.
Activate(r) ==
  /\ at[r] = "supersede"
  /\ rest[r] = {}
  /\ \/ SaveFails(r)
     \/ /\ Saves(r, "Active")
        /\ Finish(r)
        /\ UNCHANGED <<uploader, approver, deprecator, retirer, aged,
                       registry>>
  /\ UNCHANGED <<failures, overlaps>>

-----------------------------------------------------------------------------
(* Deprecation *)

BeginDeprecate(r, d, u) ==
  /\ state[d] = "Active"
  /\ Begin(r, d, u, "deprecate")

Deprecate(r) ==
  /\ at[r] = "deprecate"
  /\ \/ SaveFails(r)
     \/ /\ Saves(r, "Deprecated")
        /\ deprecator' = [deprecator EXCEPT ![on[r]] = by[r]]
        /\ GoTo(r, "flagPointer")
        /\ UNCHANGED <<uploader, approver, retirer, aged, registry>>
  /\ UNCHANGED <<failures, overlaps>>

\* Mutant: the pointer is marked whatever version it names.
FlagAnyPointer(r) ==
  /\ at[r] = "flagPointer"
  /\ pointer' = IF pointer.doc # Nothing
                THEN [pointer EXCEPT !.status = "DEPRECATED"] ELSE pointer
  /\ GoTo(r, "flagRecord")
  /\ UNCHANGED <<docs, params, prints, record, failures, overlaps>>

\* Only an entry that names this version is marked.
FlagPointer(r) ==
  /\ at[r] = "flagPointer"
  /\ pointer' = IF pointer.doc = on[r]
                THEN [pointer EXCEPT !.status = "DEPRECATED"] ELSE pointer
  /\ GoTo(r, "flagRecord")
  /\ UNCHANGED <<docs, params, prints, record, failures, overlaps>>

FlagRecord(r) ==
  /\ at[r] = "flagRecord"
  /\ record' = IF record.doc = on[r]
               THEN [record EXCEPT !.status = "DEPRECATED"] ELSE record
  /\ Finish(r)
  /\ UNCHANGED <<docs, pointer, params, prints, failures, overlaps>>

-----------------------------------------------------------------------------
(* Retirement and purge *)

BeginRetire(r, d, u) ==
  /\ state[d] = "Deprecated"
  /\ u # deprecator[d]
  /\ Begin(r, d, u, "countDevices")

\* Devices may be bound and deprovisioned at any time; with any of them still
\* bound to the product the request is refused.
CountDevices(r) ==
  /\ at[r] = "countDevices"
  /\ \/ GoTo(r, "retire")
     \/ Finish(r)
  /\ UNCHANGED <<docs, registry, failures, overlaps>>

Retire(r) ==
  /\ at[r] = "retire"
  /\ \/ SaveFails(r)
     \/ /\ Saves(r, "Retired")
        /\ retirer' = [retirer EXCEPT ![on[r]] = by[r]]
        /\ GoTo(r, "dropPrints")
        /\ UNCHANGED <<uploader, approver, deprecator, aged, registry>>
  /\ UNCHANGED <<failures, overlaps>>

\* The entries of the product go, whatever version they are of.
DropPrints(r) ==
  /\ at[r] = "dropPrints"
  /\ prints' = Nothing
  /\ GoTo(r, "dropPointer")
  /\ UNCHANGED <<docs, pointer, params, record, failures, overlaps>>

DropPointer(r) ==
  /\ at[r] = "dropPointer"
  /\ pointer' = NoEntry
  /\ GoTo(r, "flagRetired")
  /\ UNCHANGED <<docs, params, prints, record, failures, overlaps>>

FlagRetired(r) ==
  /\ at[r] = "flagRetired"
  /\ record' = IF record.doc = Nothing THEN record
               ELSE [record EXCEPT !.status = "RETIRED"]
  /\ Finish(r)
  /\ UNCHANGED <<docs, pointer, params, prints, failures, overlaps>>

\* The retention period has passed: ninety days, so whatever was in flight
\* when d was retired has long ended.
RetentionPasses(d) ==
  /\ state[d] = "Retired"
  /\ d \notin aged
  /\ InFlight = {}
  /\ aged' = aged \cup {d}
  /\ UNCHANGED <<state, uploader, approver, deprecator, retirer, registry,
                 handlers, failures, overlaps>>

BeginPurge(r, d, u) ==
  /\ state[d] = "Retired"
  /\ u # retirer[d]
  /\ d \in aged
  /\ Begin(r, d, u, "purgeParams")

\* Mutant: retiring is believed to have removed the parameters.
PurgeKeepsParams(r) ==
  /\ at[r] = "purgeParams"
  /\ GoTo(r, "purgePrints")
  /\ UNCHANGED <<docs, registry, failures, overlaps>>

PurgeParams(r) ==
  /\ at[r] = "purgeParams"
  /\ params' = Nothing
  /\ GoTo(r, "purgePrints")
  /\ UNCHANGED <<docs, pointer, prints, record, failures, overlaps>>

PurgePrints(r) ==
  /\ at[r] = "purgePrints"
  /\ prints' = Nothing
  /\ GoTo(r, "purgePointer")
  /\ UNCHANGED <<docs, pointer, params, record, failures, overlaps>>

PurgePointer(r) ==
  /\ at[r] = "purgePointer"
  /\ pointer' = NoEntry
  /\ GoTo(r, "purgeRecord")
  /\ UNCHANGED <<docs, params, prints, record, failures, overlaps>>

PurgeRecord(r) ==
  /\ at[r] = "purgeRecord"
  /\ record' = NoEntry
  /\ GoTo(r, "purge")
  /\ UNCHANGED <<docs, pointer, params, prints, failures, overlaps>>

Purge(r) ==
  /\ at[r] = "purge"
  /\ Saves(r, "Purged")
  /\ Finish(r)
  /\ UNCHANGED <<uploader, approver, deprecator, retirer, aged, registry,
                 failures, overlaps>>

-----------------------------------------------------------------------------
\* The next call of r throws, or the gateway stops: the rest of the handler
\* is never run.
Fail(r) ==
  /\ failures < MaxFailures
  /\ at[r] # "idle"
  /\ failures' = failures + 1
  /\ Finish(r)
  /\ UNCHANGED <<docs, registry, overlaps>>

BeginSome(r, d, u) ==
  \/ BeginValidate(r, d, u)
  \/ BeginApprove(r, d, u)
  \/ BeginDelete(r, d, u)
  \/ BeginActivate(r, d, u)
  \/ BeginDeprecate(r, d, u)
  \/ BeginRetire(r, d, u)
  \/ BeginPurge(r, d, u)

Continue(r) ==
  \/ StartValidation(r) \/ EndValidation(r) \/ Approve(r) \/ Delete(r)
  \/ Point(r) \/ ClearParams(r) \/ FillParams(r) \/ ClearPrints(r)
  \/ FillPrints(r) \/ Define(r) \/ FindOthers(r) \/ Supersede(r)
  \/ Activate(r) \/ Deprecate(r) \/ FlagPointer(r) \/ FlagRecord(r)
  \/ CountDevices(r) \/ Retire(r) \/ DropPrints(r) \/ DropPointer(r)
  \/ FlagRetired(r) \/ PurgeParams(r) \/ PurgePrints(r) \/ PurgePointer(r)
  \/ PurgeRecord(r) \/ Purge(r) \/ Fail(r)

Next ==
  \/ \E d \in Doc, u \in User : Upload(d, u)
  \/ \E d \in Doc : RetentionPasses(d)
  \/ \E r \in Request :
       \/ \E d \in Doc, u \in User : BeginSome(r, d, u)
       \/ Continue(r)

Spec == Init /\ [][Next]_vars

-----------------------------------------------------------------------------
(* Properties *)

\* A second person has approved d.
Reviewed(d) == approver[d] \notin {Nobody, uploader[d]}

Live == {"Approved", "Active", "Deprecated", "Retired", "Purged"}

\* Whatever handlers run into each other: no version goes live, and none gets
\* into the registry that discovery and polling read, unless somebody other
\* than its uploader approved it.
OnlyReviewedGoesLive ==
  /\ \A d \in Doc : state[d] \in Live => Reviewed(d)
  /\ \A d \in {pointer.doc, params, prints, record.doc} \ {Nothing} :
       Reviewed(d)

\* One definition has one active version, even if handlers die half way; only
\* handlers that overlap can break it.
OneActiveVersion ==
  overlaps = 0 => \A d, e \in Doc :
                   state[d] = "Active" /\ state[e] = "Active" => d = e

\* The pointer is marked as deprecated only on behalf of the version it names,
\* never because an older version was deprecated.
DeprecatedPointerIsHonest ==
  overlaps = 0 /\ pointer.doc # Nothing /\ pointer.status = "DEPRECATED"
    => state[pointer.doc] \in {"Deprecated", "Retired", "Purged"}

\* Nothing that was derived from a purged version is left in the registry or
\* gets back into it.
PurgedLeavesNothing ==
  \A d \in Doc : state[d] = "Purged"
    => d \notin {pointer.doc, params, prints, record.doc}
=============================================================================
