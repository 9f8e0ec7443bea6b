------------------------------ MODULE Wireframes ------------------------------
(***************************************************************************)
(* The layout ("wireframe") that the Node View shows for the devices of    *)
(* ONE product definition (api-gateway: models/nodeViewWireframe.model.js, *)
(* routes/nodeView.routes.js, routes/frameworkProductDefinitions.js,       *)
(* routes/uiBuilder.routes.js and the end of routes/descriptors.routes.js) *)
(*                                                                         *)
(* A layout is built from the registry entries of a version.  It lives in  *)
(* MongoDB, one record per version, and in a Redis cache; six handlers     *)
(* write it, two read it, and each makes one call after the other.  The    *)
(* content of a layout is told apart by the version it was built from.     *)
(***************************************************************************)
EXTENDS Naturals, FiniteSets

CONSTANTS Version,      \* the versions of the definition
          Builder,      \* the version id and content of a published screen
          None,
          Thread,       \* the handlers that may run at the same time
          MaxFailures,  \* bounds, for model checking only
          MaxCrossings

ASSUME WireframeAssumption ==
  /\ None \notin Version
  /\ Builder \notin Version \cup {None}
  /\ {MaxFailures, MaxCrossings} \subseteq Nat

VARIABLES origin,    \* its versions are native uploads, or descriptors (XML)
          listed,    \* how far each version is: product_definition_versions
                     \* of native uploads, the documents of descriptors
          pointer,   \* product_definition_active_versions
          entries,   \* the versions with parameter_registry_entries
          wire,      \* node_view_wireframes, by version id
          cache,     \* nwf:{productDefinitionId} in Redis
          kind, at,  \* kind[t]: the handler t runs; at[t]: its next call
          on,        \* the version of its request
          def,       \* the definition it has loaded
          doc,       \* the layout it has read or built
          crossings, \* how many handlers began while another was at work
                     \* that may disturb it
          failures

registry == <<listed, pointer, entries>>
layouts == <<wire, cache>>
handlers == <<kind, at, on, def, doc>>
vars == <<origin, registry, layouts, handlers, crossings, failures>>

Id == Version \cup {Builder}
Content == Id \cup {None}
Reader == {"get", "resolve"}
NativeKind == {"upload", "activate", "stage"}
DescriptorKind == {"register", "retire", "purge"}
Kind == Reader \cup NativeKind \cup DescriptorKind \cup {"publish", "migrate"}
Step == {"idle", "list", "clear", "fill", "status", "point", "save", "load",
         "entries", "find", "supersede", "put", "peek", "read", "demote",
         "heal", "cache", "drop", "unpoint", "erase", "invalidate"}

\* A record of node_view_wireframes, and a layout as it is read or cached.
Record == [status : {"none", "ACTIVE", "SUPERSEDED"}, content : Content,
           print : Content]
Layout == [id : Content, content : Content, print : Content]
NoRecord == [status |-> "none", content |-> None, print |-> None]
NoLayout == [id |-> None, content |-> None, print |-> None]

TypeOK ==
  /\ origin \in {"native", "descriptor"}
  /\ listed \in [Version -> {"none", "STAGED", "ACTIVE", "RETIRED", "PURGED"}]
  /\ pointer \in Version \cup {None}
  /\ entries \in SUBSET Version
  /\ wire \in [Id -> Record]
  /\ cache \in Layout
  /\ kind \in [Thread -> Kind]
  /\ at \in [Thread -> Step]
  /\ on \in [Thread -> Content]
  /\ \A t \in Thread : at[t] \in {"list", "clear", "fill", "status", "point"}
                        => on[t] \in Version
  /\ def \in [Thread -> Content]
  /\ doc \in [Thread -> Layout]
  /\ crossings \in Nat
  /\ failures \in Nat

Init ==
  /\ origin \in {"native", "descriptor"}
  /\ listed = [v \in Version |-> "none"]
  /\ pointer = None
  /\ entries = {}
  /\ wire = [i \in Id |-> NoRecord]
  /\ cache = NoLayout
  /\ kind = [t \in Thread |-> "get"]
  /\ at = [t \in Thread |-> "idle"]
  /\ on = [t \in Thread |-> None]
  /\ def = [t \in Thread |-> None]
  /\ doc = [t \in Thread |-> NoLayout]
  /\ crossings = 0
  /\ failures = 0

-----------------------------------------------------------------------------
(* Handlers *)

Busy == {t \in Thread : at[t] # "idle"}

\* Reading at the same time as somebody who reads the same way is harmless.
Crosses(k) == \E s \in Busy : kind[s] # k \/ k \notin Reader

Begin(t, k, v, step) ==
  /\ at[t] = "idle"
  /\ kind' = [kind EXCEPT ![t] = k]
  /\ at' = [at EXCEPT ![t] = step]
  /\ on' = [on EXCEPT ![t] = v]
  /\ IF ~Crosses(k) THEN crossings' = crossings
     ELSE crossings < MaxCrossings /\ crossings' = crossings + 1
  /\ UNCHANGED <<origin, registry, layouts, def, doc, failures>>

Goto(t, step) == at' = [at EXCEPT ![t] = step] /\ UNCHANGED <<kind, on>>

Finish(t) ==
  /\ kind' = [kind EXCEPT ![t] = "get"]
  /\ at' = [at EXCEPT ![t] = "idle"]
  /\ on' = [on EXCEPT ![t] = None]
  /\ def' = [def EXCEPT ![t] = None]
  /\ doc' = [doc EXCEPT ![t] = NoLayout]

\* The rest that a call leaves alone, whatever it changes.
Rest == UNCHANGED <<origin, crossings, failures>>

-----------------------------------------------------------------------------
(* Versions get into the registry *)

\* An id that is found nowhere is as good as a new one.
Fresh(v) ==
  /\ listed[v] = "none" /\ pointer # v /\ v \notin entries
  /\ wire[v] = NoRecord
  /\ \A i \in Id : wire[i].content # v /\ wire[i].print # v
  /\ v \notin {cache.id, cache.content, cache.print}
  /\ \A t \in Thread :
       v \notin {on[t], def[t], doc[t].id, doc[t].content, doc[t].print}

BeginUpload(t, v) ==
  origin = "native" /\ Fresh(v) /\ Begin(t, "upload", v, "list")

\* The record of a version that is only staged makes way for the new one.
ListVersion(t) ==
  /\ at[t] = "list"
  /\ IF \E v \in Version : listed[v] = "STAGED"
     THEN \E v \in Version :
            /\ listed[v] = "STAGED"
            /\ listed' = [listed EXCEPT ![v] = "none", ![on[t]] = "STAGED"]
     ELSE listed' = [listed EXCEPT ![on[t]] = "STAGED"]
  /\ Goto(t, "clear")
  /\ UNCHANGED <<pointer, entries, layouts, def, doc>> /\ Rest

\* deleteMany and insertMany: the entries of every version go.
ClearEntries(t) ==
  /\ at[t] = "clear"
  /\ entries' = {}
  /\ Goto(t, "fill")
  /\ UNCHANGED <<listed, pointer, layouts, def, doc>> /\ Rest

FillEntries(t) ==
  /\ at[t] = "fill"
  /\ entries' = entries \cup {on[t]}
  /\ Goto(t, IF kind[t] = "upload" THEN "load" ELSE "save")
  /\ UNCHANGED <<listed, pointer, layouts, def, doc>> /\ Rest

\* Stage and activate, of a version that is listed.
BeginLifecycle(t, k, v) ==
  /\ origin = "native" /\ k \in {"stage", "activate"}
  /\ listed[v] # "none"
  /\ Begin(t, k, v, "status")

\* Mutant: the status is named after the action.
SetStatusByAction(t) ==
  /\ at[t] = "status"
  /\ listed' = [listed EXCEPT ![on[t]] = kind[t]]
  /\ IF kind[t] = "activate"
     THEN Goto(t, "point") /\ UNCHANGED <<def, doc>> ELSE Finish(t)
  /\ UNCHANGED <<pointer, entries, layouts>> /\ Rest

SetStatus(t) ==
  /\ at[t] = "status"
  /\ listed' = IF listed[on[t]] = "none" THEN listed
               ELSE [listed EXCEPT ![on[t]] =
                       IF kind[t] = "activate" THEN "ACTIVE" ELSE "STAGED"]
  /\ IF kind[t] = "activate"
     THEN Goto(t, "point") /\ UNCHANGED <<def, doc>> ELSE Finish(t)
  /\ UNCHANGED <<pointer, entries, layouts>> /\ Rest

\* An approved descriptor is activated (see DescriptorLifecycle).
BeginRegister(t, v) ==
  /\ origin = "descriptor"
  /\ listed[v] = "none"
  /\ Begin(t, "register", v, "point")

Point(t) ==
  /\ at[t] = "point"
  /\ pointer' = on[t]
  /\ Goto(t, IF kind[t] = "activate" THEN "load" ELSE "clear")
  /\ UNCHANGED <<listed, entries, layouts, def, doc>> /\ Rest

\* A descriptor is saved before its layout is built, before its pointer goes
\* when it is retired, and at the end of its purge.
SaveDescriptor(t) ==
  /\ at[t] = "save"
  /\ listed' = [listed EXCEPT ![on[t]] =
                  CASE kind[t] = "register" -> "ACTIVE"
                    [] kind[t] = "retire" -> "RETIRED"
                    [] OTHER -> "PURGED"]
  /\ IF kind[t] = "purge" THEN Finish(t)
     ELSE /\ Goto(t, IF kind[t] = "register" THEN "load" ELSE "unpoint")
          /\ UNCHANGED <<def, doc>>
  /\ UNCHANGED <<pointer, entries, layouts>> /\ Rest

-----------------------------------------------------------------------------
(* loadDefinition: the pointer, then the entries of the version it names *)

\* Without a definition a build ends and a page falls back.
LoadPointer(t) ==
  /\ at[t] = "load"
  /\ def' = [def EXCEPT ![t] = pointer]
  /\ Goto(t, "entries")
  /\ UNCHANGED <<registry, layouts, doc>> /\ Rest

AfterLoad(k) == CASE k = "register" -> "supersede"
                  [] k = "resolve" -> "peek"
                  [] OTHER -> "put"

LoadEntries(t) ==
  /\ at[t] = "entries"
  /\ IF def[t] \in entries
     THEN Goto(t, AfterLoad(kind[t])) /\ UNCHANGED <<def, doc>>
     ELSE IF kind[t] = "resolve"
     THEN /\ Goto(t, "peek")
          /\ def' = [def EXCEPT ![t] = None]
          /\ UNCHANGED doc
     ELSE Finish(t)
  /\ UNCHANGED <<registry, layouts>> /\ Rest

-----------------------------------------------------------------------------
(* Writers of node_view_wireframes *)

Active(i) == wire[i].status = "ACTIVE"

\* A new layout replaces the record of its id.  Only resolve and publish set
\* the fingerprint: for the others the record keeps the one it has.
Written(i, content, print) ==
  [wire EXCEPT ![i] = [status |-> "ACTIVE", content |-> content,
                       print |-> print]]

\* updateMany: whatever is ACTIVE, the layout with id i excepted, no longer is.
Demoted(i) ==
  [j \in Id |-> IF Active(j) /\ j # i
                THEN [wire[j] EXCEPT !.status = "SUPERSEDED"] ELSE wire[j]]

BeginPublish(t) == Begin(t, "publish", Builder, "supersede")

\* Mutant: the layouts of older versions stay ACTIVE.
SupersedeNone(t) ==
  /\ at[t] = "supersede"
  /\ Goto(t, "put")
  /\ UNCHANGED <<registry, layouts, def, doc>> /\ Rest

Supersede(t) ==
  /\ at[t] = "supersede"
  /\ wire' = Demoted(None)
  /\ Goto(t, "put")
  /\ UNCHANGED <<registry, cache, def, doc>> /\ Rest

\* Every one of them keeps older layouts; a publication brings its own
\* fingerprint.
Put(t) ==
  /\ at[t] = "put"
  /\ kind[t] # "activate"
  /\ LET i == IF kind[t] \in {"upload", "publish"} THEN on[t] ELSE def[t]
     IN wire' = IF kind[t] = "publish" THEN Written(i, i, i)
                ELSE Written(i, def[t], wire[i].print)
  /\ Goto(t, "invalidate")
  /\ UNCHANGED <<registry, cache, def, doc>> /\ Rest

\* A native activation asks for a record of the definition, whichever comes
\* first, and turns it into that of the activated version; a version has one
\* record at most (a unique index), or the call throws.
PutAnywhere(t) ==
  /\ at[t] = "put"
  /\ kind[t] = "activate"
  /\ LET kept == {i \in Id : wire[i].status # "none"}
         i == on[t]
     IN \E j \in IF kept = {} THEN {i} ELSE kept :
          IF i \in kept \ {j}
          THEN Finish(t) /\ UNCHANGED wire
          ELSE /\ wire' = [[wire EXCEPT ![j] = NoRecord] EXCEPT ![i] =
                             [status |-> "ACTIVE", content |-> def[t],
                              print |-> wire[j].print]]
               /\ Goto(t, "invalidate") /\ UNCHANGED <<def, doc>>
  /\ UNCHANGED <<registry, cache>> /\ Rest

\* Mutant: the cache is left to expire.
InvalidateNot(t) ==
  /\ at[t] = "invalidate"
  /\ Finish(t)
  /\ UNCHANGED <<registry, layouts>> /\ Rest

\* What every writer ends with; Redis may be down and nobody is told.
Invalidate(t) ==
  /\ at[t] = "invalidate"
  /\ \/ cache' = NoLayout /\ UNCHANGED failures
     \/ /\ failures < MaxFailures
        /\ failures' = failures + 1
        /\ UNCHANGED cache
  /\ IF kind[t] = "purge"
     THEN Goto(t, "save") /\ UNCHANGED <<def, doc>> ELSE Finish(t)
  /\ UNCHANGED <<registry, wire, origin, crossings>>

-----------------------------------------------------------------------------
(* Migration: a definition without a layout gets one *)

BeginMigrate(t) == Begin(t, "migrate", None, "find")

FindActive(t) ==
  /\ at[t] = "find"
  /\ IF \E i \in Id : Active(i)
     THEN Finish(t) ELSE Goto(t, "load") /\ UNCHANGED <<def, doc>>
  /\ UNCHANGED <<registry, layouts>> /\ Rest

-----------------------------------------------------------------------------
(* Retirement and purge of a descriptor (see DescriptorLifecycle) *)

BeginRetire(t, v) ==
  /\ origin = "descriptor"
  /\ listed[v] = "ACTIVE"
  /\ Begin(t, "retire", v, "save")

BeginPurge(t, v) ==
  /\ origin = "descriptor"
  /\ listed[v] = "RETIRED"
  /\ Begin(t, "purge", v, "drop")

DropEntries(t) ==
  /\ at[t] = "drop"
  /\ entries' = {}
  /\ Goto(t, "unpoint")
  /\ UNCHANGED <<listed, pointer, layouts, def, doc>> /\ Rest

DropPointer(t) ==
  /\ at[t] = "unpoint"
  /\ pointer' = None
  /\ IF kind[t] = "retire"
     THEN Finish(t) ELSE Goto(t, "erase") /\ UNCHANGED <<def, doc>>
  /\ UNCHANGED <<listed, entries, layouts>> /\ Rest

EraseLayouts(t) ==
  /\ at[t] = "erase"
  /\ wire' = [i \in Id |-> NoRecord]
  /\ Goto(t, "invalidate")
  /\ UNCHANGED <<registry, cache, def, doc>> /\ Rest

-----------------------------------------------------------------------------
(* Readers: the layout on its own, and the page of a device *)

BeginGet(t) == Begin(t, "get", None, "peek")

BeginResolve(t) == Begin(t, "resolve", None, "load")

\* Mutant: every layout that is complete is taken for current.
AnyComplete(t, layout) == layout.print # None

\* Built from the registry as it is: same version, same fingerprint.
IsCurrent(t, layout) == layout.id = def[t] /\ layout.print = def[t]

Peek(t) ==
  /\ at[t] = "peek"
  /\ IF cache # NoLayout /\ def[t] = None
     THEN Finish(t)
     ELSE IF cache # NoLayout /\ IsCurrent(t, cache)
     THEN /\ doc' = [doc EXCEPT ![t] = cache]
          /\ Goto(t, "cache") /\ UNCHANGED def
     ELSE Goto(t, "read") /\ UNCHANGED <<def, doc>>
  /\ UNCHANGED <<registry, layouts>> /\ Rest

LayoutOf(i) == [id |-> i, content |-> wire[i].content, print |-> wire[i].print]

\* findOne: any ACTIVE record.
ReadLayout(t) ==
  /\ at[t] = "read"
  /\ \/ \E i \in Id :
          /\ Active(i)
          /\ def[t] = None \/ IsCurrent(t, LayoutOf(i))
          /\ doc' = [doc EXCEPT ![t] = LayoutOf(i)]
          /\ Goto(t, "cache") /\ UNCHANGED def
     \/ /\ def[t] # None
        /\ \/ \E i \in Id : Active(i) /\ ~IsCurrent(t, LayoutOf(i))
           \/ ~ \E i \in Id : Active(i)
        /\ doc' = [doc EXCEPT ![t] =
                     [id |-> def[t], content |-> def[t], print |-> def[t]]]
        /\ Goto(t, "demote") /\ UNCHANGED def
     \/ /\ def[t] = None
        /\ ~ \E i \in Id : Active(i)
        /\ Finish(t)
  /\ UNCHANGED <<registry, layouts>> /\ Rest

Demote(t) ==
  /\ at[t] = "demote"
  /\ wire' = Demoted(def[t])
  /\ Goto(t, "heal")
  /\ UNCHANGED <<registry, cache, def, doc>> /\ Rest

Heal(t) ==
  /\ at[t] = "heal"
  /\ wire' = Written(def[t], def[t], def[t])
  /\ Goto(t, "cache")
  /\ UNCHANGED <<registry, cache, def, doc>> /\ Rest

\* Then the page is served.  Redis may be down and nobody is told.
FillCache(t) ==
  /\ at[t] = "cache"
  /\ \/ cache' = doc[t] /\ UNCHANGED failures
     \/ /\ failures < MaxFailures
        /\ failures' = failures + 1
        /\ UNCHANGED cache
  /\ Finish(t)
  /\ UNCHANGED <<registry, wire, origin, crossings>>

-----------------------------------------------------------------------------
(* Failures *)

CacheExpires ==
  /\ cache # NoLayout
  /\ cache' = NoLayout
  /\ UNCHANGED <<origin, registry, wire, handlers, crossings, failures>>

\* A call throws.  A page goes on without the definition it cannot load, or
\* with the layout it cannot save; any other handler ends.
CallFails(t) ==
  /\ at[t] \notin {"idle", "peek", "cache", "invalidate"}
  /\ failures < MaxFailures
  /\ failures' = failures + 1
  /\ \/ /\ kind[t] = "resolve" /\ at[t] \in {"load", "entries"}
        /\ Goto(t, "peek")
        /\ def' = [def EXCEPT ![t] = None]
        /\ UNCHANGED doc
     \/ /\ kind[t] = "resolve" /\ at[t] \in {"demote", "heal"}
        /\ Goto(t, "cache")
        /\ UNCHANGED <<def, doc>>
     \/ /\ ~(kind[t] = "resolve"
             /\ at[t] \in {"load", "entries", "demote", "heal"})
        /\ Finish(t)
  /\ UNCHANGED <<origin, registry, layouts, crossings>>

\* The gateway stops: every handler is gone.
Stop ==
  /\ Busy # {}
  /\ failures < MaxFailures
  /\ failures' = failures + 1
  /\ kind' = [t \in Thread |-> "get"]
  /\ at' = [t \in Thread |-> "idle"]
  /\ on' = [t \in Thread |-> None]
  /\ def' = [t \in Thread |-> None]
  /\ doc' = [t \in Thread |-> NoLayout]
  /\ UNCHANGED <<origin, registry, layouts, crossings>>

Next ==
  \/ \E t \in Thread, v \in Version :
       \/ BeginUpload(t, v) \/ BeginRegister(t, v)
       \/ BeginRetire(t, v) \/ BeginPurge(t, v)
       \/ BeginLifecycle(t, "stage", v) \/ BeginLifecycle(t, "activate", v)
  \/ \E t \in Thread :
       \/ BeginPublish(t) \/ BeginMigrate(t) \/ BeginGet(t) \/ BeginResolve(t)
       \/ ListVersion(t) \/ ClearEntries(t) \/ FillEntries(t) \/ SetStatus(t)
       \/ Point(t) \/ SaveDescriptor(t) \/ LoadPointer(t) \/ LoadEntries(t)
       \/ Supersede(t) \/ Put(t) \/ PutAnywhere(t) \/ Invalidate(t)
       \/ FindActive(t)
       \/ DropEntries(t) \/ DropPointer(t) \/ EraseLayouts(t)
       \/ Peek(t) \/ ReadLayout(t) \/ Demote(t) \/ Heal(t) \/ FillCache(t)
       \/ CallFails(t)
  \/ CacheExpires
  \/ Stop

Spec == Init /\ [][Next]_vars

-----------------------------------------------------------------------------
(* Properties *)

\* Every page that is about to be served is that of the definition it loaded.
PagesAreCurrent ==
  \A t \in Thread :
    at[t] = "cache" /\ kind[t] = "resolve" /\ def[t] # None
      => doc[t].content = def[t]

\* A page whose definition could be loaded shows the layout of that
\* definition ("a re-uploaded / re-activated definition can never be shown
\* through a stale layout"), for definitions that come from descriptors
\* whatever happens at the same time, for native ones unless handlers overlap.
ServesItsLayout == origin = "descriptor" \/ crossings = 0 => PagesAreCurrent

\* A definition that comes from descriptors has one ACTIVE layout at most,
\* wherever a handler was interrupted, unless handlers overlap.
OneActiveLayout ==
  origin = "descriptor" /\ crossings = 0
    => \A i, j \in Id : Active(i) /\ Active(j) => i = j

Writing(t) == at[t] \notin {"idle", "peek", "read"}

\* Unless a writer has died or handlers have overlapped: when nobody is
\* writing, what the cache holds is the content of an ACTIVE record, never a
\* layout that has been replaced, superseded or purged.
CacheIsActive ==
  crossings = 0 /\ failures = 0 /\ (\A t \in Thread : ~Writing(t))
    /\ cache # NoLayout
    => \E i \in Id : Active(i) /\ LayoutOf(i) = cache

\* Uploading and staging a version leaves the active one as it is: while
\* nothing else happened to it, the entries its pages are built from are there.
ActiveStaysLoadable ==
  origin = "native" /\ failures = 0 /\ crossings = 0 /\ Busy = {}
    /\ pointer # None /\ listed[pointer] = "ACTIVE"
    => pointer \in entries
=============================================================================
