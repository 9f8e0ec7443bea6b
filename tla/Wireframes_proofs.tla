-------------------------- MODULE Wireframes_proofs --------------------------
(***************************************************************************)
(* Theorems about Wireframes, for any number of versions and handlers,     *)
(* however they overlap and fail.                                          *)
(***************************************************************************)
EXTENDS Wireframes, TLAPS

\* A layout with a fingerprint was built from the version it is filed under.
Sound(layout) == layout.print # None => layout.content = layout.id

\* The handlers by the calls they make.
KindsFit ==
  \A t \in Thread :
    /\ kind[t] \in NativeKind => origin = "native"
    /\ kind[t] \in DescriptorKind => origin = "descriptor"
    /\ kind[t] = "get" => def[t] = None
    /\ kind[t] = "publish" => on[t] = Builder
    /\ at[t] = "idle" => kind[t] = "get"
    /\ at[t] = "list" => kind[t] = "upload"
    /\ at[t] = "status" => kind[t] \in {"stage", "activate"}
    /\ at[t] = "point" => kind[t] \in {"register", "activate"}
    /\ at[t] \in {"clear", "fill"} => kind[t] \in {"register", "upload"}
    /\ at[t] = "save" => kind[t] \in {"register", "retire", "purge"}
    /\ at[t] \in {"load", "entries"}
         => kind[t] \in {"upload", "activate", "register", "migrate", "resolve"}
    /\ at[t] = "find" => kind[t] = "migrate"
    /\ at[t] = "supersede" => kind[t] \in {"register", "publish"}
    /\ at[t] = "put"
         => kind[t] \in {"upload", "activate", "register", "publish", "migrate"}
    /\ at[t] \in {"peek", "read", "cache"} => kind[t] \in Reader
    /\ at[t] \in {"demote", "heal"} => kind[t] = "resolve" /\ def[t] # None
    /\ at[t] \in {"drop", "unpoint", "erase", "invalidate"}
         => kind[t] \notin Reader

\* Handlers that have not overlapped are alone, or all of one kind of reader.
Alone ==
  crossings = 0 =>
    \A s, t \in Thread :
      at[s] # "idle" /\ at[t] # "idle" /\ s # t
        => kind[s] = kind[t] /\ kind[t] \in Reader

\* A native handler that is alone builds the layout of its own version.
BuildsItsOwn ==
  crossings = 0 =>
    \A t \in Thread :
      /\ kind[t] = "upload" /\ at[t] = "fill" => entries = {}
      /\ kind[t] = "upload" /\ at[t] \in {"load", "entries"}
           => entries = {on[t]}
      /\ kind[t] = "activate" /\ at[t] \in {"load", "entries"}
           => pointer = on[t]
      /\ kind[t] = "activate" /\ at[t] = "entries" => def[t] = on[t]
      /\ kind[t] \in {"upload", "activate"} /\ at[t] = "put" => def[t] = on[t]

AloneInv == TypeOK /\ KindsFit /\ Alone /\ BuildsItsOwn

\* What makes a fingerprint trustworthy: it is filed under the version the
\* layout was built from.  Only native handlers that overlap do otherwise.
Trusted == origin = "descriptor" \/ crossings = 0

Provenance ==
  Trusted =>
    /\ \A i \in Id : wire[i].print # None => wire[i].content = i
    /\ Sound(cache)
    /\ \A t \in Thread : Sound(doc[t])
    /\ \A t \in Thread :
         at[t] \in {"demote", "heal", "cache"} /\ kind[t] = "resolve"
           /\ def[t] # None
         => doc[t].content = def[t]

Inv == AloneInv /\ Provenance

\* While handlers of descriptors do not overlap, pages are built from the
\* version the pointer names, and whoever is about to save an ACTIVE layout has
\* made way for it.
Serial ==
  origin = "descriptor" /\ crossings = 0 =>
    /\ \A t \in Thread :
         at[t] \in {"entries", "peek", "read", "demote", "heal"}
           /\ kind[t] = "resolve" /\ def[t] # None
         => def[t] = pointer
    /\ \A t \in Thread :
         at[t] = "put" \/ (at[t] \in {"load", "entries"} /\ kind[t] = "migrate")
         => \A i \in Id : ~Active(i)
    /\ \A t \in Thread, i \in Id : at[t] = "heal" /\ Active(i) => i = def[t]

SerialInv == TypeOK /\ KindsFit /\ Alone /\ Serial /\ OneActiveLayout

\* Undisturbed: no handlers have overlapped and none has died.
Calm == crossings = 0 /\ failures = 0

Shows(layout) == \E i \in Id : Active(i) /\ LayoutOf(i) = layout

\* The version a page is built from, and whether t is yet to make up for a
\* cached layout that is no longer the ACTIVE one.
Loadable == IF pointer \in entries THEN pointer ELSE None

Replaces(t) ==
  \/ at[t] = "invalidate"
  \/ at[t] = "put" /\ kind[t] \in {"register", "publish"}
  \/ /\ at[t] \in {"heal", "cache"} /\ kind[t] = "resolve"
     /\ def[t] # None /\ ~IsCurrent(t, cache)

\* Pages that are built at the same time are built from the same version, ...
PagesAgree ==
  Calm => \A t \in Thread : kind[t] = "resolve" =>
    /\ at[t] = "entries" => def[t] = pointer
    /\ at[t] \in {"peek", "read", "demote", "heal", "cache"}
         => def[t] = Loadable

\* ... what is about to be cached is ACTIVE, ...
CachesActive ==
  Calm => \A t \in Thread :
    /\ at[t] \in {"demote", "heal", "cache"} /\ def[t] # None
         => IsCurrent(t, doc[t])
    /\ at[t] = "cache" /\ def[t] = None => Shows(doc[t])
    /\ at[t] = "cache" /\ def[t] # None
         => wire[def[t]] = [status |-> "ACTIVE", content |-> def[t],
                            print |-> def[t]]

\* ... and so is what is cached, or somebody is about to replace it.
CacheFits ==
  Calm => cache = NoLayout \/ Shows(cache) \/ \E t \in Thread : Replaces(t)

CacheInv == PagesAgree /\ CachesActive /\ CacheFits

-----------------------------------------------------------------------------
\* An updated record is a record, and so is every other one.
LEMMA WrittenType ==
  ASSUME TypeOK, NEW i \in Content, NEW c \in Content, NEW p \in Content
  PROVE  Written(i, c, p) \in [Id -> Record]
<1>1. [status |-> "ACTIVE", content |-> c, print |-> p] \in Record
  BY DEF Record
<1> QED
  BY <1>1 DEF Written, TypeOK

\* Superseding changes the status of records and nothing else.
LEMMA DemotedType ==
  ASSUME TypeOK, NEW i
  PROVE  /\ Demoted(i) \in [Id -> Record]
         /\ \A j \in Id : /\ Demoted(i)[j].content = wire[j].content
                         /\ Demoted(i)[j].print = wire[j].print
<1>1. \A j \in Id : [wire[j] EXCEPT !.status = "SUPERSEDED"] \in Record
  BY DEF TypeOK, Record
<1>2. \A j \in Id : wire[j] \in Record
  BY DEF TypeOK
<1>3. \A j \in Id :
        /\ [wire[j] EXCEPT !.status = "SUPERSEDED"].content = wire[j].content
        /\ [wire[j] EXCEPT !.status = "SUPERSEDED"].print = wire[j].print
  BY <1>2 DEF Record
<1> QED
  BY <1>1, <1>2, <1>3 DEF Demoted

\* The layout that is read from a record.
LEMMA LayoutOfType ==
  ASSUME TypeOK, NEW i \in Id
  PROVE  /\ LayoutOf(i) \in Layout
         /\ LayoutOf(i).id = i
         /\ LayoutOf(i).content = wire[i].content
         /\ LayoutOf(i).print = wire[i].print
BY DEF LayoutOf, TypeOK, Record, Layout, Content

\* Nothing is a layout, too.
LEMMA EmptyTypes ==
  NoLayout \in Layout /\ NoRecord \in Record /\ Sound(NoLayout)
BY DEF NoLayout, Layout, NoRecord, Record, Content, Sound

\* Every step keeps the types.
LEMMA TypeStep ==
  ASSUME TypeOK, [Next]_vars
  PROVE  TypeOK'
<1> USE WireframeAssumption
    DEF TypeOK, registry, layouts, handlers, vars,
        Kind, Reader, NativeKind, DescriptorKind, Step, Id, Content
<1>1. ASSUME NEW t \in Thread, NEW v \in Version, BeginUpload(t, v)
      PROVE  TypeOK'
  BY <1>1 DEF BeginUpload, Begin
<1>2. ASSUME NEW t \in Thread, NEW v \in Version, BeginRegister(t, v)
      PROVE  TypeOK'
  BY <1>2 DEF BeginRegister, Begin
<1>3. ASSUME NEW t \in Thread, NEW v \in Version, BeginRetire(t, v)
      PROVE  TypeOK'
  BY <1>3 DEF BeginRetire, Begin
<1>4. ASSUME NEW t \in Thread, NEW v \in Version, BeginPurge(t, v)
      PROVE  TypeOK'
  BY <1>4 DEF BeginPurge, Begin
<1>5. ASSUME NEW t \in Thread, NEW v \in Version, NEW k \in {"stage", "activate"},
               BeginLifecycle(t, k, v)
      PROVE  TypeOK'
  BY <1>5 DEF BeginLifecycle, Begin
<1>6. ASSUME NEW t \in Thread, BeginPublish(t)
      PROVE  TypeOK'
  BY <1>6 DEF BeginPublish, Begin
<1>7. ASSUME NEW t \in Thread, BeginMigrate(t)
      PROVE  TypeOK'
  BY <1>7 DEF BeginMigrate, Begin
<1>8. ASSUME NEW t \in Thread, BeginGet(t)
      PROVE  TypeOK'
  BY <1>8 DEF BeginGet, Begin
<1>9. ASSUME NEW t \in Thread, BeginResolve(t)
      PROVE  TypeOK'
  BY <1>9 DEF BeginResolve, Begin
<1>10. ASSUME NEW t \in Thread, ListVersion(t)
      PROVE  TypeOK'
  BY <1>10 DEF ListVersion, Goto, Finish, Rest
<1>11. ASSUME NEW t \in Thread, ClearEntries(t)
      PROVE  TypeOK'
  BY <1>11 DEF ClearEntries, Goto, Finish, Rest
<1>12. ASSUME NEW t \in Thread, FillEntries(t)
      PROVE  TypeOK'
  BY <1>12 DEF FillEntries, Goto, Finish, Rest
<1>13. ASSUME NEW t \in Thread, SetStatus(t)
      PROVE  TypeOK'
  <2>1. listed' \in [Version -> {"none", "STAGED", "ACTIVE", "RETIRED", "PURGED"}]
    BY <1>13 DEF SetStatus
  <2>2. CASE kind[t] = "activate"
    BY <1>13, <2>1, <2>2 DEF SetStatus, Goto, Rest
  <2>3. CASE kind[t] # "activate"
    BY <1>13, <2>1, <2>3, EmptyTypes DEF SetStatus, Finish, Rest
  <2> QED
    BY <2>2, <2>3
<1>14. ASSUME NEW t \in Thread, Point(t)
      PROVE  TypeOK'
  BY <1>14 DEF Point, Goto, Finish, Rest
<1>15. ASSUME NEW t \in Thread, SaveDescriptor(t)
      PROVE  TypeOK'
  <2>1. listed' \in [Version -> {"none", "STAGED", "ACTIVE", "RETIRED", "PURGED"}]
    BY <1>15 DEF SaveDescriptor
  <2>2. CASE kind[t] = "purge"
    BY <1>15, <2>1, <2>2, EmptyTypes DEF SaveDescriptor, Finish, Rest
  <2>3. CASE kind[t] # "purge"
    BY <1>15, <2>1, <2>3 DEF SaveDescriptor, Goto, Rest
  <2> QED
    BY <2>2, <2>3
<1>16. ASSUME NEW t \in Thread, LoadPointer(t)
      PROVE  TypeOK'
  BY <1>16 DEF LoadPointer, Goto, Finish, Rest
<1>17. ASSUME NEW t \in Thread, LoadEntries(t)
      PROVE  TypeOK'
  BY <1>17, EmptyTypes DEF LoadEntries, AfterLoad, Goto, Finish, Rest
<1>18. ASSUME NEW t \in Thread, Supersede(t)
      PROVE  TypeOK'
  <2>1. wire' \in [Id -> Record]
    BY <1>18, DemotedType DEF Supersede
  <2> QED
    BY <1>18, <2>1 DEF Supersede, Goto, Rest
<1>19. ASSUME NEW t \in Thread, Put(t)
      PROVE  TypeOK'
  <2> DEFINE i == IF kind[t] \in {"upload", "publish"} THEN on[t] ELSE def[t]
  <2>1. i \in Content /\ def[t] \in Content
    OBVIOUS
  <2>2. i \in Id => wire[i].print \in Content
    BY DEF Record
  <2>3. wire' \in [Id -> Record]
    <3>1. CASE i \in Id
      BY <1>19, <2>1, <2>2, <3>1, WrittenType DEF Put
    <3>2. CASE i \notin Id
      BY ZenonT(60), <1>19, <3>2 DEF Put, Written
    <3> QED
      BY <3>1, <3>2
  <2> QED
    BY <1>19, <2>3 DEF Put, Goto, Rest
<1>20. ASSUME NEW t \in Thread, PutAnywhere(t)
      PROVE  TypeOK'
  <2>1. wire' \in [Id -> Record]
    <3> DEFINE kept == {i \in Id : wire[i].status # "none"}
               Moved(j) == [status |-> "ACTIVE", content |-> def[t],
                            print |-> wire[j].print]
    <3>1. CASE wire' = wire
      BY <3>1
    <3>2. CASE wire' # wire
      <4>1. PICK j \in IF kept = {} THEN {on[t]} ELSE kept :
              wire' = [[wire EXCEPT ![j] = NoRecord] EXCEPT ![on[t]] = Moved(j)]
        BY <1>20, <3>2 DEF PutAnywhere
      <4>2. CASE on[t] \in Id
        <5>1. j \in Id
          BY <4>2
        <5>2. Moved(j) \in Record
          BY <5>1 DEF Record
        <5> QED
          BY <4>1, <5>2, EmptyTypes
      <4>3. CASE on[t] \notin Id
        BY <4>1, <4>3, EmptyTypes
      <4> QED
        BY <4>2, <4>3
    <3> QED
      BY <3>1, <3>2
  <2> QED
    BY <1>20, <2>1, EmptyTypes DEF PutAnywhere, Goto, Finish, Rest
<1>21. ASSUME NEW t \in Thread, Invalidate(t)
      PROVE  TypeOK'
  BY <1>21, EmptyTypes DEF Invalidate, Goto, Finish, Rest
<1>22. ASSUME NEW t \in Thread, FindActive(t)
      PROVE  TypeOK'
  BY <1>22, EmptyTypes DEF FindActive, Goto, Finish, Rest
<1>23. ASSUME NEW t \in Thread, DropEntries(t)
      PROVE  TypeOK'
  BY <1>23 DEF DropEntries, Goto, Finish, Rest
<1>24. ASSUME NEW t \in Thread, DropPointer(t)
      PROVE  TypeOK'
  BY <1>24, EmptyTypes DEF DropPointer, Goto, Finish, Rest
<1>25. ASSUME NEW t \in Thread, EraseLayouts(t)
      PROVE  TypeOK'
  BY <1>25, EmptyTypes DEF EraseLayouts, Goto, Rest
<1>26. ASSUME NEW t \in Thread, Peek(t)
      PROVE  TypeOK'
  BY <1>26, EmptyTypes DEF Peek, Goto, Finish, Rest
<1>27. ASSUME NEW t \in Thread, ReadLayout(t)
      PROVE  TypeOK'
  <2>1. doc' \in [Thread -> Layout]
    <3>1. [id |-> def[t], content |-> def[t], print |-> def[t]] \in Layout
      BY DEF Layout
    <3>2. \A i \in Id : LayoutOf(i) \in Layout
      BY LayoutOfType
    <3>3. doc \in [Thread -> Layout] /\ NoLayout \in Layout
      BY EmptyTypes
    <3> QED
      <4> HIDE DEF Content, Id
      <4> QED
        BY <1>27, <3>1, <3>2, <3>3 DEF ReadLayout, Finish
  <2> QED
    BY <1>27, <2>1 DEF ReadLayout, Goto, Finish, Rest
<1>28. ASSUME NEW t \in Thread, Demote(t)
      PROVE  TypeOK'
  <2>1. wire' \in [Id -> Record]
    BY <1>28, DemotedType DEF Demote
  <2> QED
    BY <1>28, <2>1 DEF Demote, Goto, Rest
<1>29. ASSUME NEW t \in Thread, Heal(t)
      PROVE  TypeOK'
  <2>1. wire' \in [Id -> Record]
    BY <1>29, WrittenType DEF Heal
  <2> QED
    BY <1>29, <2>1 DEF Heal, Goto, Rest
<1>30. ASSUME NEW t \in Thread, FillCache(t)
      PROVE  TypeOK'
  BY <1>30, EmptyTypes DEF FillCache, Goto, Finish, Rest
<1>31. ASSUME NEW t \in Thread, CallFails(t)
      PROVE  TypeOK'
  BY <1>31, EmptyTypes DEF CallFails, Goto, Finish, Rest
<1>32. ASSUME CacheExpires
      PROVE  TypeOK'
  BY <1>32, EmptyTypes DEF CacheExpires
<1>33. ASSUME Stop
      PROVE  TypeOK'
  BY <1>33, EmptyTypes DEF Stop
<1>34. CASE UNCHANGED vars
  BY <1>34
<1> QED
  BY <1>1, <1>2, <1>3, <1>4, <1>5, <1>6, <1>7, <1>8, <1>9, <1>10, <1>11,
     <1>12, <1>13, <1>14, <1>15, <1>16, <1>17, <1>18, <1>19, <1>20,
     <1>21, <1>22, <1>23, <1>24, <1>25, <1>26, <1>27, <1>28, <1>29,
     <1>30, <1>31, <1>32, <1>33, <1>34 DEF Next

\* The calls of a handler stay those of its kind.
LEMMA KindsStep ==
  ASSUME TypeOK, KindsFit, TypeOK', [Next]_vars
  PROVE  KindsFit'
<1> USE WireframeAssumption
    DEF KindsFit, TypeOK, registry, layouts, handlers, vars,
        Kind, Reader, NativeKind, DescriptorKind, Step, Id, Content
<1>1. ASSUME NEW t \in Thread, NEW v \in Version, BeginUpload(t, v)
      PROVE  KindsFit'
  BY <1>1 DEF BeginUpload, Begin
<1>2. ASSUME NEW t \in Thread, NEW v \in Version, BeginRegister(t, v)
      PROVE  KindsFit'
  BY <1>2 DEF BeginRegister, Begin
<1>3. ASSUME NEW t \in Thread, NEW v \in Version, BeginRetire(t, v)
      PROVE  KindsFit'
  BY <1>3 DEF BeginRetire, Begin
<1>4. ASSUME NEW t \in Thread, NEW v \in Version, BeginPurge(t, v)
      PROVE  KindsFit'
  BY <1>4 DEF BeginPurge, Begin
<1>5. ASSUME NEW t \in Thread, NEW v \in Version, NEW k \in {"stage", "activate"},
               BeginLifecycle(t, k, v)
      PROVE  KindsFit'
  BY <1>5 DEF BeginLifecycle, Begin
<1>6. ASSUME NEW t \in Thread, BeginPublish(t)
      PROVE  KindsFit'
  BY <1>6 DEF BeginPublish, Begin
<1>7. ASSUME NEW t \in Thread, BeginMigrate(t)
      PROVE  KindsFit'
  BY <1>7 DEF BeginMigrate, Begin
<1>8. ASSUME NEW t \in Thread, BeginGet(t)
      PROVE  KindsFit'
  BY <1>8 DEF BeginGet, Begin
<1>9. ASSUME NEW t \in Thread, BeginResolve(t)
      PROVE  KindsFit'
  BY <1>9 DEF BeginResolve, Begin
<1>10. ASSUME NEW t \in Thread, ListVersion(t)
      PROVE  KindsFit'
  BY <1>10 DEF ListVersion, Goto, Finish, Rest
<1>11. ASSUME NEW t \in Thread, ClearEntries(t)
      PROVE  KindsFit'
  BY <1>11 DEF ClearEntries, Goto, Finish, Rest
<1>12. ASSUME NEW t \in Thread, FillEntries(t)
      PROVE  KindsFit'
  BY <1>12 DEF FillEntries, Goto, Finish, Rest
<1>13. ASSUME NEW t \in Thread, SetStatus(t)
      PROVE  KindsFit'
  BY <1>13 DEF SetStatus, Goto, Finish, Rest
<1>14. ASSUME NEW t \in Thread, Point(t)
      PROVE  KindsFit'
  BY <1>14 DEF Point, Goto, Finish, Rest
<1>15. ASSUME NEW t \in Thread, SaveDescriptor(t)
      PROVE  KindsFit'
  BY <1>15 DEF SaveDescriptor, Goto, Finish, Rest
<1>16. ASSUME NEW t \in Thread, LoadPointer(t)
      PROVE  KindsFit'
  BY <1>16 DEF LoadPointer, Goto, Finish, Rest
<1>17. ASSUME NEW t \in Thread, LoadEntries(t)
      PROVE  KindsFit'
  BY <1>17 DEF LoadEntries, AfterLoad, Goto, Finish, Rest
<1>18. ASSUME NEW t \in Thread, Supersede(t)
      PROVE  KindsFit'
  BY <1>18 DEF Supersede, Goto, Finish, Rest
<1>19. ASSUME NEW t \in Thread, Put(t)
      PROVE  KindsFit'
  BY <1>19 DEF Put, Goto, Finish, Rest
<1>20. ASSUME NEW t \in Thread, PutAnywhere(t)
      PROVE  KindsFit'
  BY <1>20 DEF PutAnywhere, Goto, Finish, Rest
<1>21. ASSUME NEW t \in Thread, Invalidate(t)
      PROVE  KindsFit'
  BY <1>21 DEF Invalidate, Goto, Finish, Rest
<1>22. ASSUME NEW t \in Thread, FindActive(t)
      PROVE  KindsFit'
  BY <1>22 DEF FindActive, Goto, Finish, Rest
<1>23. ASSUME NEW t \in Thread, DropEntries(t)
      PROVE  KindsFit'
  BY <1>23 DEF DropEntries, Goto, Finish, Rest
<1>24. ASSUME NEW t \in Thread, DropPointer(t)
      PROVE  KindsFit'
  BY <1>24 DEF DropPointer, Goto, Finish, Rest
<1>25. ASSUME NEW t \in Thread, EraseLayouts(t)
      PROVE  KindsFit'
  BY <1>25 DEF EraseLayouts, Goto, Finish, Rest
<1>26. ASSUME NEW t \in Thread, Peek(t)
      PROVE  KindsFit'
  BY <1>26 DEF Peek, Goto, Finish, Rest
<1>27. ASSUME NEW t \in Thread, ReadLayout(t)
      PROVE  KindsFit'
  <2>1. CASE Goto(t, "cache") /\ def' = def
    BY <1>27, <2>1 DEF ReadLayout, Goto, Rest
  <2>2. CASE Goto(t, "demote") /\ def' = def /\ def[t] # None
    BY <1>27, <2>2 DEF ReadLayout, Goto, Rest
  <2>3. CASE Finish(t)
    BY <1>27, <2>3 DEF ReadLayout, Finish, Rest
  <2> QED
    BY <1>27, <2>1, <2>2, <2>3 DEF ReadLayout
<1>28. ASSUME NEW t \in Thread, Demote(t)
      PROVE  KindsFit'
  BY <1>28 DEF Demote, Goto, Finish, Rest
<1>29. ASSUME NEW t \in Thread, Heal(t)
      PROVE  KindsFit'
  BY <1>29 DEF Heal, Goto, Finish, Rest
<1>30. ASSUME NEW t \in Thread, FillCache(t)
      PROVE  KindsFit'
  BY <1>30 DEF FillCache, Goto, Finish, Rest
<1>31. ASSUME NEW t \in Thread, CallFails(t)
      PROVE  KindsFit'
  BY <1>31 DEF CallFails, Goto, Finish, Rest
<1>32. ASSUME CacheExpires
      PROVE  KindsFit'
  BY <1>32 DEF CacheExpires, Goto, Finish, Rest
<1>33. ASSUME Stop
      PROVE  KindsFit'
  BY <1>33 DEF Stop, Goto, Finish, Rest
<1>34. CASE UNCHANGED vars
  BY <1>34
<1> QED
  BY <1>1, <1>2, <1>3, <1>4, <1>5, <1>6, <1>7, <1>8, <1>9, <1>10, <1>11,
     <1>12, <1>13, <1>14, <1>15, <1>16, <1>17, <1>18, <1>19, <1>20,
     <1>21, <1>22, <1>23, <1>24, <1>25, <1>26, <1>27, <1>28, <1>29,
     <1>30, <1>31, <1>32, <1>33, <1>34 DEF Next

\* Handlers that have not overlapped stay alone.
LEMMA AloneStep ==
  ASSUME TypeOK, KindsFit, Alone, TypeOK', KindsFit', [Next]_vars
  PROVE  Alone'
<1> USE WireframeAssumption
    DEF Alone, KindsFit, TypeOK, Busy, Crosses, registry, layouts, handlers, vars,
        Kind, Reader, NativeKind, DescriptorKind, Step, Id, Content
<1>1. ASSUME NEW t \in Thread, NEW v \in Version, BeginUpload(t, v)
      PROVE  Alone'
  BY <1>1 DEF BeginUpload, Begin
<1>2. ASSUME NEW t \in Thread, NEW v \in Version, BeginRegister(t, v)
      PROVE  Alone'
  BY <1>2 DEF BeginRegister, Begin
<1>3. ASSUME NEW t \in Thread, NEW v \in Version, BeginRetire(t, v)
      PROVE  Alone'
  BY <1>3 DEF BeginRetire, Begin
<1>4. ASSUME NEW t \in Thread, NEW v \in Version, BeginPurge(t, v)
      PROVE  Alone'
  BY <1>4 DEF BeginPurge, Begin
<1>5. ASSUME NEW t \in Thread, NEW v \in Version, NEW k \in {"stage", "activate"},
               BeginLifecycle(t, k, v)
      PROVE  Alone'
  BY <1>5 DEF BeginLifecycle, Begin
<1>6. ASSUME NEW t \in Thread, BeginPublish(t)
      PROVE  Alone'
  BY <1>6 DEF BeginPublish, Begin
<1>7. ASSUME NEW t \in Thread, BeginMigrate(t)
      PROVE  Alone'
  BY <1>7 DEF BeginMigrate, Begin
<1>8. ASSUME NEW t \in Thread, BeginGet(t)
      PROVE  Alone'
  BY <1>8 DEF BeginGet, Begin
<1>9. ASSUME NEW t \in Thread, BeginResolve(t)
      PROVE  Alone'
  BY <1>9 DEF BeginResolve, Begin
<1>10. ASSUME NEW t \in Thread, ListVersion(t)
      PROVE  Alone'
  BY <1>10 DEF ListVersion, Goto, Finish, Rest
<1>11. ASSUME NEW t \in Thread, ClearEntries(t)
      PROVE  Alone'
  BY <1>11 DEF ClearEntries, Goto, Finish, Rest
<1>12. ASSUME NEW t \in Thread, FillEntries(t)
      PROVE  Alone'
  BY <1>12 DEF FillEntries, Goto, Finish, Rest
<1>13. ASSUME NEW t \in Thread, SetStatus(t)
      PROVE  Alone'
  BY <1>13 DEF SetStatus, Goto, Finish, Rest
<1>14. ASSUME NEW t \in Thread, Point(t)
      PROVE  Alone'
  BY <1>14 DEF Point, Goto, Finish, Rest
<1>15. ASSUME NEW t \in Thread, SaveDescriptor(t)
      PROVE  Alone'
  BY <1>15 DEF SaveDescriptor, Goto, Finish, Rest
<1>16. ASSUME NEW t \in Thread, LoadPointer(t)
      PROVE  Alone'
  BY <1>16 DEF LoadPointer, Goto, Finish, Rest
<1>17. ASSUME NEW t \in Thread, LoadEntries(t)
      PROVE  Alone'
  BY <1>17 DEF LoadEntries, AfterLoad, Goto, Finish, Rest
<1>18. ASSUME NEW t \in Thread, Supersede(t)
      PROVE  Alone'
  BY <1>18 DEF Supersede, Goto, Finish, Rest
<1>19. ASSUME NEW t \in Thread, Put(t)
      PROVE  Alone'
  BY <1>19 DEF Put, Goto, Finish, Rest
<1>20. ASSUME NEW t \in Thread, PutAnywhere(t)
      PROVE  Alone'
  BY <1>20 DEF PutAnywhere, Goto, Finish, Rest
<1>21. ASSUME NEW t \in Thread, Invalidate(t)
      PROVE  Alone'
  BY <1>21 DEF Invalidate, Goto, Finish, Rest
<1>22. ASSUME NEW t \in Thread, FindActive(t)
      PROVE  Alone'
  BY <1>22 DEF FindActive, Goto, Finish, Rest
<1>23. ASSUME NEW t \in Thread, DropEntries(t)
      PROVE  Alone'
  BY <1>23 DEF DropEntries, Goto, Finish, Rest
<1>24. ASSUME NEW t \in Thread, DropPointer(t)
      PROVE  Alone'
  BY <1>24 DEF DropPointer, Goto, Finish, Rest
<1>25. ASSUME NEW t \in Thread, EraseLayouts(t)
      PROVE  Alone'
  BY <1>25 DEF EraseLayouts, Goto, Finish, Rest
<1>26. ASSUME NEW t \in Thread, Peek(t)
      PROVE  Alone'
  BY <1>26 DEF Peek, Goto, Finish, Rest
<1>27. ASSUME NEW t \in Thread, ReadLayout(t)
      PROVE  Alone'
  BY <1>27 DEF ReadLayout, Goto, Finish, Rest
<1>28. ASSUME NEW t \in Thread, Demote(t)
      PROVE  Alone'
  BY <1>28 DEF Demote, Goto, Finish, Rest
<1>29. ASSUME NEW t \in Thread, Heal(t)
      PROVE  Alone'
  BY <1>29 DEF Heal, Goto, Finish, Rest
<1>30. ASSUME NEW t \in Thread, FillCache(t)
      PROVE  Alone'
  BY <1>30 DEF FillCache, Goto, Finish, Rest
<1>31. ASSUME NEW t \in Thread, CallFails(t)
      PROVE  Alone'
  BY <1>31 DEF CallFails, Goto, Finish, Rest
<1>32. ASSUME CacheExpires
      PROVE  Alone'
  BY <1>32 DEF CacheExpires, Goto, Finish, Rest
<1>33. ASSUME Stop
      PROVE  Alone'
  BY <1>33 DEF Stop, Goto, Finish, Rest
<1>34. CASE UNCHANGED vars
  BY <1>34
<1> QED
  BY <1>1, <1>2, <1>3, <1>4, <1>5, <1>6, <1>7, <1>8, <1>9, <1>10, <1>11,
     <1>12, <1>13, <1>14, <1>15, <1>16, <1>17, <1>18, <1>19, <1>20,
     <1>21, <1>22, <1>23, <1>24, <1>25, <1>26, <1>27, <1>28, <1>29,
     <1>30, <1>31, <1>32, <1>33, <1>34 DEF Next

\* A native handler that is alone goes on with its own version.
LEMMA OwnStep ==
  ASSUME AloneInv, TypeOK', KindsFit', [Next]_vars
  PROVE  BuildsItsOwn'
<1> USE WireframeAssumption
    DEF AloneInv, BuildsItsOwn, Alone, KindsFit, TypeOK, Busy, Crosses,
        registry, layouts, handlers, vars,
        Kind, Reader, NativeKind, DescriptorKind, Step, Id, Content
<1>1. ASSUME NEW t \in Thread, NEW v \in Version, BeginUpload(t, v)
      PROVE  BuildsItsOwn'
  BY <1>1 DEF BeginUpload, Begin
<1>2. ASSUME NEW t \in Thread, NEW v \in Version, BeginRegister(t, v)
      PROVE  BuildsItsOwn'
  BY <1>2 DEF BeginRegister, Begin
<1>3. ASSUME NEW t \in Thread, NEW v \in Version, BeginRetire(t, v)
      PROVE  BuildsItsOwn'
  BY <1>3 DEF BeginRetire, Begin
<1>4. ASSUME NEW t \in Thread, NEW v \in Version, BeginPurge(t, v)
      PROVE  BuildsItsOwn'
  BY <1>4 DEF BeginPurge, Begin
<1>5. ASSUME NEW t \in Thread, NEW v \in Version, NEW k \in {"stage", "activate"},
               BeginLifecycle(t, k, v)
      PROVE  BuildsItsOwn'
  BY <1>5 DEF BeginLifecycle, Begin
<1>6. ASSUME NEW t \in Thread, BeginPublish(t)
      PROVE  BuildsItsOwn'
  BY <1>6 DEF BeginPublish, Begin
<1>7. ASSUME NEW t \in Thread, BeginMigrate(t)
      PROVE  BuildsItsOwn'
  BY <1>7 DEF BeginMigrate, Begin
<1>8. ASSUME NEW t \in Thread, BeginGet(t)
      PROVE  BuildsItsOwn'
  BY <1>8 DEF BeginGet, Begin
<1>9. ASSUME NEW t \in Thread, BeginResolve(t)
      PROVE  BuildsItsOwn'
  BY <1>9 DEF BeginResolve, Begin
<1>10. ASSUME NEW t \in Thread, ListVersion(t)
      PROVE  BuildsItsOwn'
  BY <1>10 DEF ListVersion, Goto, Finish, Rest
<1>11. ASSUME NEW t \in Thread, ClearEntries(t)
      PROVE  BuildsItsOwn'
  BY <1>11 DEF ClearEntries, Goto, Finish, Rest
<1>12. ASSUME NEW t \in Thread, FillEntries(t)
      PROVE  BuildsItsOwn'
  BY <1>12 DEF FillEntries, Goto, Finish, Rest
<1>13. ASSUME NEW t \in Thread, SetStatus(t)
      PROVE  BuildsItsOwn'
  BY <1>13 DEF SetStatus, Goto, Finish, Rest
<1>14. ASSUME NEW t \in Thread, Point(t)
      PROVE  BuildsItsOwn'
  BY <1>14 DEF Point, Goto, Finish, Rest
<1>15. ASSUME NEW t \in Thread, SaveDescriptor(t)
      PROVE  BuildsItsOwn'
  BY <1>15 DEF SaveDescriptor, Goto, Finish, Rest
<1>16. ASSUME NEW t \in Thread, LoadPointer(t)
      PROVE  BuildsItsOwn'
  BY <1>16 DEF LoadPointer, Goto, Finish, Rest
<1>17. ASSUME NEW t \in Thread, LoadEntries(t)
      PROVE  BuildsItsOwn'
  BY <1>17 DEF LoadEntries, AfterLoad, Goto, Finish, Rest
<1>18. ASSUME NEW t \in Thread, Supersede(t)
      PROVE  BuildsItsOwn'
  BY <1>18 DEF Supersede, Goto, Finish, Rest
<1>19. ASSUME NEW t \in Thread, Put(t)
      PROVE  BuildsItsOwn'
  BY <1>19 DEF Put, Goto, Finish, Rest
<1>20. ASSUME NEW t \in Thread, PutAnywhere(t)
      PROVE  BuildsItsOwn'
  BY <1>20 DEF PutAnywhere, Goto, Finish, Rest
<1>21. ASSUME NEW t \in Thread, Invalidate(t)
      PROVE  BuildsItsOwn'
  BY <1>21 DEF Invalidate, Goto, Finish, Rest
<1>22. ASSUME NEW t \in Thread, FindActive(t)
      PROVE  BuildsItsOwn'
  BY <1>22 DEF FindActive, Goto, Finish, Rest
<1>23. ASSUME NEW t \in Thread, DropEntries(t)
      PROVE  BuildsItsOwn'
  BY <1>23 DEF DropEntries, Goto, Finish, Rest
<1>24. ASSUME NEW t \in Thread, DropPointer(t)
      PROVE  BuildsItsOwn'
  BY <1>24 DEF DropPointer, Goto, Finish, Rest
<1>25. ASSUME NEW t \in Thread, EraseLayouts(t)
      PROVE  BuildsItsOwn'
  BY <1>25 DEF EraseLayouts, Goto, Finish, Rest
<1>26. ASSUME NEW t \in Thread, Peek(t)
      PROVE  BuildsItsOwn'
  BY <1>26 DEF Peek, Goto, Finish, Rest
<1>27. ASSUME NEW t \in Thread, ReadLayout(t)
      PROVE  BuildsItsOwn'
  BY <1>27 DEF ReadLayout, Goto, Finish, Rest
<1>28. ASSUME NEW t \in Thread, Demote(t)
      PROVE  BuildsItsOwn'
  BY <1>28 DEF Demote, Goto, Finish, Rest
<1>29. ASSUME NEW t \in Thread, Heal(t)
      PROVE  BuildsItsOwn'
  BY <1>29 DEF Heal, Goto, Finish, Rest
<1>30. ASSUME NEW t \in Thread, FillCache(t)
      PROVE  BuildsItsOwn'
  BY <1>30 DEF FillCache, Goto, Finish, Rest
<1>31. ASSUME NEW t \in Thread, CallFails(t)
      PROVE  BuildsItsOwn'
  BY <1>31 DEF CallFails, Goto, Finish, Rest
<1>32. ASSUME CacheExpires
      PROVE  BuildsItsOwn'
  BY <1>32 DEF CacheExpires, Goto, Finish, Rest
<1>33. ASSUME Stop
      PROVE  BuildsItsOwn'
  BY <1>33 DEF Stop, Goto, Finish, Rest
<1>34. CASE UNCHANGED vars
  BY <1>34
<1> QED
  BY <1>1, <1>2, <1>3, <1>4, <1>5, <1>6, <1>7, <1>8, <1>9, <1>10, <1>11,
     <1>12, <1>13, <1>14, <1>15, <1>16, <1>17, <1>18, <1>19, <1>20,
     <1>21, <1>22, <1>23, <1>24, <1>25, <1>26, <1>27, <1>28, <1>29,
     <1>30, <1>31, <1>32, <1>33, <1>34 DEF Next

\* No step files a fingerprinted layout under the wrong version.
LEMMA ProvenanceStep ==
  ASSUME Inv, TypeOK', [Next]_vars
  PROVE  Provenance'
<1> USE WireframeAssumption
    DEF Inv, AloneInv, KindsFit, BuildsItsOwn, Provenance, Trusted, TypeOK,
        registry, layouts, handlers, vars,
        Kind, Reader, NativeKind, DescriptorKind, Step, Id, Content
<1>1. ASSUME NEW t \in Thread, NEW v \in Version, BeginUpload(t, v)
      PROVE  Provenance'
  BY <1>1 DEF BeginUpload, Begin
<1>2. ASSUME NEW t \in Thread, NEW v \in Version, BeginRegister(t, v)
      PROVE  Provenance'
  BY <1>2 DEF BeginRegister, Begin
<1>3. ASSUME NEW t \in Thread, NEW v \in Version, BeginRetire(t, v)
      PROVE  Provenance'
  BY <1>3 DEF BeginRetire, Begin
<1>4. ASSUME NEW t \in Thread, NEW v \in Version, BeginPurge(t, v)
      PROVE  Provenance'
  BY <1>4 DEF BeginPurge, Begin
<1>5. ASSUME NEW t \in Thread, NEW v \in Version, NEW k \in {"stage", "activate"},
               BeginLifecycle(t, k, v)
      PROVE  Provenance'
  BY <1>5 DEF BeginLifecycle, Begin
<1>6. ASSUME NEW t \in Thread, BeginPublish(t)
      PROVE  Provenance'
  BY <1>6, EmptyTypes DEF BeginPublish, Begin
<1>7. ASSUME NEW t \in Thread, BeginMigrate(t)
      PROVE  Provenance'
  BY <1>7, EmptyTypes DEF BeginMigrate, Begin
<1>8. ASSUME NEW t \in Thread, BeginGet(t)
      PROVE  Provenance'
  BY <1>8, EmptyTypes DEF BeginGet, Begin
<1>9. ASSUME NEW t \in Thread, BeginResolve(t)
      PROVE  Provenance'
  BY <1>9, EmptyTypes DEF BeginResolve, Begin
<1>10. ASSUME NEW t \in Thread, ListVersion(t)
      PROVE  Provenance'
  BY <1>10, EmptyTypes DEF ListVersion, Goto, Finish, Rest
<1>11. ASSUME NEW t \in Thread, ClearEntries(t)
      PROVE  Provenance'
  BY <1>11, EmptyTypes DEF ClearEntries, Goto, Finish, Rest
<1>12. ASSUME NEW t \in Thread, FillEntries(t)
      PROVE  Provenance'
  BY <1>12, EmptyTypes DEF FillEntries, Goto, Finish, Rest
<1>13. ASSUME NEW t \in Thread, SetStatus(t)
      PROVE  Provenance'
  BY <1>13, EmptyTypes DEF SetStatus, Goto, Finish, Rest
<1>14. ASSUME NEW t \in Thread, Point(t)
      PROVE  Provenance'
  BY <1>14, EmptyTypes DEF Point, Goto, Finish, Rest
<1>15. ASSUME NEW t \in Thread, SaveDescriptor(t)
      PROVE  Provenance'
  BY <1>15, EmptyTypes DEF SaveDescriptor, Goto, Finish, Rest
<1>16. ASSUME NEW t \in Thread, LoadPointer(t)
      PROVE  Provenance'
  BY <1>16 DEF LoadPointer, Goto, Finish, Rest
<1>17. ASSUME NEW t \in Thread, LoadEntries(t)
      PROVE  Provenance'
  <2>1. CASE def' = def /\ doc' = doc /\ kind' = kind
               /\ at' = [at EXCEPT ![t] = AfterLoad(kind[t])]
    BY <1>17, <2>1 DEF LoadEntries, AfterLoad, Rest
  <2>2. CASE doc' = doc /\ kind' = kind /\ at' = [at EXCEPT ![t] = "peek"]
             /\ def' = [def EXCEPT ![t] = None]
    BY <1>17, <2>2 DEF LoadEntries, Rest
  <2>3. CASE Finish(t)
    BY <1>17, <2>3, EmptyTypes DEF LoadEntries, Finish, Rest
  <2> QED
    BY <1>17, <2>1, <2>2, <2>3 DEF LoadEntries, Goto
<1>18. ASSUME NEW t \in Thread, Supersede(t)
      PROVE  Provenance'
  BY <1>18, DemotedType DEF Supersede, Goto, Finish, Rest
<1>19. ASSUME NEW t \in Thread, Put(t)
      PROVE  Provenance'
  <2>1. ASSUME Trusted, NEW j \in Id, wire'[j].print # None
        PROVE  wire'[j].content = j
    <3>1. CASE kind[t] = "upload"
      <4>1. def[t] = on[t]
        BY <1>19, <2>1, <3>1 DEF Put, Trusted
      <4> QED
        BY <1>19, <2>1, <3>1, <4>1 DEF Put, Written, Record
    <3>2. CASE kind[t] # "upload"
      BY <1>19, <2>1, <3>2 DEF Put, Written, Record
    <3> QED
      BY <3>1, <3>2
  <2>2. /\ UNCHANGED <<origin, crossings, cache, doc, def, kind>>
        /\ \A s \in Thread : at'[s] \in {"demote", "heal", "cache"}
                             => at'[s] = at[s]
    BY <1>19 DEF Put, Goto, Rest
  <2> HIDE DEF AloneInv, KindsFit, BuildsItsOwn, TypeOK, Content, Id, Kind, Step
  <2> QED
    BY <2>1, <2>2
<1>20. ASSUME NEW t \in Thread, PutAnywhere(t)
      PROVE  Provenance'
  <2>1. ASSUME Trusted, NEW j \in Id, wire'[j].print # None
        PROVE  wire'[j].content = j
    <3>1. CASE wire' = wire
      BY <2>1, <3>1
    <3>2. CASE wire' # wire
      <4>1. def[t] = on[t]
        BY <1>20, <2>1 DEF PutAnywhere, Trusted
      <4>2. PICK k \in Id \cup {on[t]} :
              wire' = [[wire EXCEPT ![k] = NoRecord] EXCEPT ![on[t]] =
                         [status |-> "ACTIVE", content |-> def[t],
                          print |-> wire[k].print]]
        BY <1>20, <3>2 DEF PutAnywhere
      <4>3. CASE j = on[t]
        BY <4>1, <4>2, <4>3
      <4>4. CASE j # on[t]
        BY <2>1, <4>2, <4>4, EmptyTypes DEF NoRecord
      <4> QED
        BY <4>3, <4>4
    <3> QED
      BY <3>1, <3>2
  <2>2. UNCHANGED <<origin, cache>> /\ kind[t] # "resolve"
    BY <1>20 DEF PutAnywhere, Rest
  <2>3. /\ \A s \in Thread : doc'[s] = doc[s] \/ doc'[s] = NoLayout
        /\ \A s \in Thread \ {t} :
             /\ at'[s] = at[s] /\ kind'[s] = kind[s] /\ def'[s] = def[s]
             /\ doc'[s] = doc[s]
        /\ kind'[t] # "resolve" /\ crossings' = crossings
    BY <1>20 DEF PutAnywhere, Goto, Finish, Rest
  <2> QED
    BY <2>1, <2>2, <2>3, EmptyTypes DEF Trusted
<1>21. ASSUME NEW t \in Thread, Invalidate(t)
      PROVE  Provenance'
  BY <1>21, EmptyTypes DEF Invalidate, Goto, Finish, Rest
<1>22. ASSUME NEW t \in Thread, FindActive(t)
      PROVE  Provenance'
  BY <1>22, EmptyTypes DEF FindActive, Goto, Finish, Rest
<1>23. ASSUME NEW t \in Thread, DropEntries(t)
      PROVE  Provenance'
  BY <1>23, EmptyTypes DEF DropEntries, Goto, Finish, Rest
<1>24. ASSUME NEW t \in Thread, DropPointer(t)
      PROVE  Provenance'
  BY <1>24, EmptyTypes DEF DropPointer, Goto, Finish, Rest
<1>25. ASSUME NEW t \in Thread, EraseLayouts(t)
      PROVE  Provenance'
  BY <1>25 DEF EraseLayouts, Goto, Rest, NoRecord
<1>26. ASSUME NEW t \in Thread, Peek(t)
      PROVE  Provenance'
  <2>1. \A l \in Layout : IsCurrent(t, l) /\ def[t] # None /\ Sound(l)
                            => l.content = def[t]
    BY DEF IsCurrent, Sound
  <2> QED
    BY <1>26, <2>1, EmptyTypes DEF Peek, Goto, Finish, Rest
<1>27. ASSUME NEW t \in Thread, ReadLayout(t)
      PROVE  Provenance'
  <2>1. ASSUME NEW i \in Id, Trusted
        PROVE  Sound(LayoutOf(i))
    BY <2>1, LayoutOfType DEF Sound
  <2>2. \A l \in Layout : IsCurrent(t, l) /\ def[t] # None /\ Sound(l)
                            => l.content = def[t]
    BY DEF IsCurrent, Sound
  <2>3. Trusted =>
          /\ \A s \in Thread : Sound(doc'[s])
          /\ at'[t] \in {"demote", "heal", "cache"} /\ def'[t] # None
               => doc'[t].content = def'[t]
    <3>1. CASE at'[t] = "cache" /\ def' = def
      <4>1. PICK i \in Id : /\ def[t] = None \/ IsCurrent(t, LayoutOf(i))
                           /\ doc' = [doc EXCEPT ![t] = LayoutOf(i)]
        BY <1>27, <3>1 DEF ReadLayout, Goto, Finish
      <4>2. LayoutOf(i) \in Layout
        BY LayoutOfType
      <4> QED
        BY <2>1, <2>2, <3>1, <4>1, <4>2
    <3>2. CASE doc' = [doc EXCEPT ![t] = [id |-> def[t], content |-> def[t],
                                          print |-> def[t]]] /\ def' = def
      BY <3>2 DEF Sound
    <3>3. CASE doc' = [doc EXCEPT ![t] = NoLayout] /\ at'[t] = "idle"
      BY <3>3, EmptyTypes
    <3> QED
      BY <1>27, <3>1, <3>2, <3>3 DEF ReadLayout, Goto, Finish
  <2> QED
    BY <1>27, <2>3 DEF ReadLayout, Goto, Finish, Rest
<1>28. ASSUME NEW t \in Thread, Demote(t)
      PROVE  Provenance'
  BY <1>28, DemotedType DEF Demote, Goto, Finish, Rest
<1>29. ASSUME NEW t \in Thread, Heal(t)
      PROVE  Provenance'
  <2>1. ASSUME Trusted, NEW j \in Id, wire'[j].print # None
        PROVE  wire'[j].content = j
    BY <1>29, <2>1 DEF Heal, Written, Record
  <2> QED
    BY <1>29, <2>1 DEF Heal, Goto, Rest
<1>30. ASSUME NEW t \in Thread, FillCache(t)
      PROVE  Provenance'
  BY <1>30, EmptyTypes DEF FillCache, Goto, Finish, Rest
<1>31. ASSUME NEW t \in Thread, CallFails(t)
      PROVE  Provenance'
  BY <1>31, EmptyTypes DEF CallFails, Goto, Finish, Rest
<1>32. ASSUME CacheExpires
      PROVE  Provenance'
  BY <1>32, EmptyTypes DEF CacheExpires
<1>33. ASSUME Stop
      PROVE  Provenance'
  BY <1>33, EmptyTypes DEF Stop
<1>34. CASE UNCHANGED vars
  BY <1>34
<1> QED
  BY <1>1, <1>2, <1>3, <1>4, <1>5, <1>6, <1>7, <1>8, <1>9, <1>10, <1>11,
     <1>12, <1>13, <1>14, <1>15, <1>16, <1>17, <1>18, <1>19, <1>20,
     <1>21, <1>22, <1>23, <1>24, <1>25, <1>26, <1>27, <1>28, <1>29,
     <1>30, <1>31, <1>32, <1>33, <1>34 DEF Next

\* Handlers that do not overlap keep their order.
LEMMA SerialStep ==
  ASSUME SerialInv, TypeOK', KindsFit', [Next]_vars
  PROVE  (Serial /\ OneActiveLayout)'
<1> USE WireframeAssumption
    DEF SerialInv, Alone, Serial, OneActiveLayout, KindsFit, TypeOK, Active, Busy,
        Crosses, registry, layouts, handlers, vars,
        Kind, Reader, NativeKind, DescriptorKind, Step, Id, Content
<1>1. ASSUME NEW t \in Thread, NEW v \in Version, BeginUpload(t, v)
      PROVE  (Serial /\ OneActiveLayout)'
  BY <1>1 DEF BeginUpload, Begin
<1>2. ASSUME NEW t \in Thread, NEW v \in Version, BeginRegister(t, v)
      PROVE  (Serial /\ OneActiveLayout)'
  BY <1>2 DEF BeginRegister, Begin
<1>3. ASSUME NEW t \in Thread, NEW v \in Version, BeginRetire(t, v)
      PROVE  (Serial /\ OneActiveLayout)'
  BY <1>3 DEF BeginRetire, Begin
<1>4. ASSUME NEW t \in Thread, NEW v \in Version, BeginPurge(t, v)
      PROVE  (Serial /\ OneActiveLayout)'
  BY <1>4 DEF BeginPurge, Begin
<1>5. ASSUME NEW t \in Thread, NEW v \in Version, NEW k \in {"stage", "activate"},
               BeginLifecycle(t, k, v)
      PROVE  (Serial /\ OneActiveLayout)'
  BY <1>5 DEF BeginLifecycle, Begin
<1>6. ASSUME NEW t \in Thread, BeginPublish(t)
      PROVE  (Serial /\ OneActiveLayout)'
  BY <1>6 DEF BeginPublish, Begin
<1>7. ASSUME NEW t \in Thread, BeginMigrate(t)
      PROVE  (Serial /\ OneActiveLayout)'
  BY <1>7 DEF BeginMigrate, Begin
<1>8. ASSUME NEW t \in Thread, BeginGet(t)
      PROVE  (Serial /\ OneActiveLayout)'
  BY <1>8 DEF BeginGet, Begin
<1>9. ASSUME NEW t \in Thread, BeginResolve(t)
      PROVE  (Serial /\ OneActiveLayout)'
  BY <1>9 DEF BeginResolve, Begin
<1>10. ASSUME NEW t \in Thread, ListVersion(t)
      PROVE  (Serial /\ OneActiveLayout)'
  BY <1>10 DEF ListVersion, Goto, Finish, Rest
<1>11. ASSUME NEW t \in Thread, ClearEntries(t)
      PROVE  (Serial /\ OneActiveLayout)'
  BY <1>11 DEF ClearEntries, Goto, Finish, Rest
<1>12. ASSUME NEW t \in Thread, FillEntries(t)
      PROVE  (Serial /\ OneActiveLayout)'
  BY <1>12 DEF FillEntries, Goto, Finish, Rest
<1>13. ASSUME NEW t \in Thread, SetStatus(t)
      PROVE  (Serial /\ OneActiveLayout)'
  BY <1>13 DEF SetStatus, Goto, Finish, Rest
<1>14. ASSUME NEW t \in Thread, Point(t)
      PROVE  (Serial /\ OneActiveLayout)'
  BY <1>14 DEF Point, Goto, Finish, Rest
<1>15. ASSUME NEW t \in Thread, SaveDescriptor(t)
      PROVE  (Serial /\ OneActiveLayout)'
  BY <1>15 DEF SaveDescriptor, Goto, Finish, Rest
<1>16. ASSUME NEW t \in Thread, LoadPointer(t)
      PROVE  (Serial /\ OneActiveLayout)'
  <2>1. OneActiveLayout'
    BY <1>16 DEF LoadPointer, Goto, Finish, Rest
  <2>2. Serial'
    BY <1>16 DEF LoadPointer, Goto, Finish, Rest
  <2> QED
    BY <2>1, <2>2
<1>17. ASSUME NEW t \in Thread, LoadEntries(t)
      PROVE  (Serial /\ OneActiveLayout)'
  <2>1. OneActiveLayout'
    BY <1>17 DEF LoadEntries, AfterLoad, Goto, Finish, Rest
  <2>2. Serial'
    BY <1>17 DEF LoadEntries, AfterLoad, Goto, Finish, Rest
  <2> QED
    BY <2>1, <2>2
<1>18. ASSUME NEW t \in Thread, Supersede(t)
      PROVE  (Serial /\ OneActiveLayout)'
  <2>1. OneActiveLayout'
    BY <1>18 DEF Supersede, Goto, Finish, Rest, Demoted
  <2>2. Serial'
    BY <1>18 DEF Supersede, Goto, Finish, Rest, Demoted
  <2> QED
    BY <2>1, <2>2
<1>19. ASSUME NEW t \in Thread, Put(t)
      PROVE  (Serial /\ OneActiveLayout)'
  <2>1. OneActiveLayout'
    BY <1>19 DEF Put, Goto, Finish, Rest, Written
  <2>2. Serial'
    BY <1>19 DEF Put, Goto, Finish, Rest, Written
  <2> QED
    BY <2>1, <2>2
<1>20. ASSUME NEW t \in Thread, PutAnywhere(t)
      PROVE  (Serial /\ OneActiveLayout)'
  BY <1>20 DEF PutAnywhere, Goto, Finish, Rest
<1>21. ASSUME NEW t \in Thread, Invalidate(t)
      PROVE  (Serial /\ OneActiveLayout)'
  BY <1>21 DEF Invalidate, Goto, Finish, Rest
<1>22. ASSUME NEW t \in Thread, FindActive(t)
      PROVE  (Serial /\ OneActiveLayout)'
  <2>1. OneActiveLayout'
    BY <1>22 DEF FindActive, Goto, Finish, Rest
  <2>2. Serial'
    BY SMTT(30), <1>22 DEF FindActive, Goto, Finish, Rest
  <2> QED
    BY <2>1, <2>2
<1>23. ASSUME NEW t \in Thread, DropEntries(t)
      PROVE  (Serial /\ OneActiveLayout)'
  BY <1>23 DEF DropEntries, Goto, Finish, Rest
<1>24. ASSUME NEW t \in Thread, DropPointer(t)
      PROVE  (Serial /\ OneActiveLayout)'
  BY <1>24 DEF DropPointer, Goto, Finish, Rest
<1>25. ASSUME NEW t \in Thread, EraseLayouts(t)
      PROVE  (Serial /\ OneActiveLayout)'
  <2>1. OneActiveLayout'
    BY <1>25 DEF EraseLayouts, Goto, Finish, Rest, NoRecord
  <2>2. Serial'
    BY <1>25 DEF EraseLayouts, Goto, Finish, Rest, NoRecord
  <2> QED
    BY <2>1, <2>2
<1>26. ASSUME NEW t \in Thread, Peek(t)
      PROVE  (Serial /\ OneActiveLayout)'
  <2>1. OneActiveLayout'
    BY <1>26 DEF Peek, Goto, Finish, Rest
  <2>2. Serial'
    BY <1>26 DEF Peek, Goto, Finish, Rest
  <2> QED
    BY <2>1, <2>2
<1>27. ASSUME NEW t \in Thread, ReadLayout(t)
      PROVE  (Serial /\ OneActiveLayout)'
  <2>1. OneActiveLayout'
    BY <1>27 DEF ReadLayout, Goto, Finish, Rest
  <2>2. Serial'
    BY <1>27 DEF ReadLayout, Goto, Finish, Rest
  <2> QED
    BY <2>1, <2>2
<1>28. ASSUME NEW t \in Thread, Demote(t)
      PROVE  (Serial /\ OneActiveLayout)'
  <2>1. OneActiveLayout'
    BY <1>28 DEF Demote, Goto, Finish, Rest, Demoted
  <2>2. Serial'
    BY <1>28 DEF Demote, Goto, Finish, Rest, Demoted
  <2> QED
    BY <2>1, <2>2
<1>29. ASSUME NEW t \in Thread, Heal(t)
      PROVE  (Serial /\ OneActiveLayout)'
  <2>1. OneActiveLayout'
    BY <1>29 DEF Heal, Goto, Finish, Rest, Written
  <2>2. Serial'
    BY <1>29 DEF Heal, Goto, Finish, Rest, Written
  <2> QED
    BY <2>1, <2>2
<1>30. ASSUME NEW t \in Thread, FillCache(t)
      PROVE  (Serial /\ OneActiveLayout)'
  BY <1>30 DEF FillCache, Goto, Finish, Rest
<1>31. ASSUME NEW t \in Thread, CallFails(t)
      PROVE  (Serial /\ OneActiveLayout)'
  <2>1. OneActiveLayout'
    BY <1>31 DEF CallFails, Goto, Finish, Rest
  <2>2. Serial'
    BY <1>31 DEF CallFails, Goto, Finish, Rest
  <2> QED
    BY <2>1, <2>2
<1>32. ASSUME CacheExpires
      PROVE  (Serial /\ OneActiveLayout)'
  BY <1>32 DEF CacheExpires, Goto, Finish, Rest
<1>33. ASSUME Stop
      PROVE  (Serial /\ OneActiveLayout)'
  BY <1>33 DEF Stop, Goto, Finish, Rest
<1>34. CASE UNCHANGED vars
  BY <1>34
<1> QED
  BY <1>1, <1>2, <1>3, <1>4, <1>5, <1>6, <1>7, <1>8, <1>9, <1>10, <1>11,
     <1>12, <1>13, <1>14, <1>15, <1>16, <1>17, <1>18, <1>19, <1>20,
     <1>21, <1>22, <1>23, <1>24, <1>25, <1>26, <1>27, <1>28, <1>29,
     <1>30, <1>31, <1>32, <1>33, <1>34 DEF Next

\* Pages that are built at the same time stay with the same version.
LEMMA PagesAgreeStep ==
  ASSUME Inv, CacheInv, Inv', [Next]_vars
  PROVE  PagesAgree'
<1> USE WireframeAssumption
    DEF Inv, AloneInv, KindsFit, Alone, CacheInv, Calm, TypeOK, Busy, Crosses,
        registry, layouts, handlers, vars,
        Kind, Reader, NativeKind, DescriptorKind, Step, Id, Content,
        PagesAgree, Loadable
<1>1. ASSUME NEW t \in Thread, NEW v \in Version, BeginUpload(t, v)
      PROVE  PagesAgree'
  BY <1>1 DEF BeginUpload, Begin
<1>2. ASSUME NEW t \in Thread, NEW v \in Version, BeginRegister(t, v)
      PROVE  PagesAgree'
  BY <1>2 DEF BeginRegister, Begin
<1>3. ASSUME NEW t \in Thread, NEW v \in Version, BeginRetire(t, v)
      PROVE  PagesAgree'
  BY <1>3 DEF BeginRetire, Begin
<1>4. ASSUME NEW t \in Thread, NEW v \in Version, BeginPurge(t, v)
      PROVE  PagesAgree'
  BY <1>4 DEF BeginPurge, Begin
<1>5. ASSUME NEW t \in Thread, NEW v \in Version, NEW k \in {"stage", "activate"},
               BeginLifecycle(t, k, v)
      PROVE  PagesAgree'
  BY <1>5 DEF BeginLifecycle, Begin
<1>6. ASSUME NEW t \in Thread, BeginPublish(t)
      PROVE  PagesAgree'
  BY <1>6 DEF BeginPublish, Begin
<1>7. ASSUME NEW t \in Thread, BeginMigrate(t)
      PROVE  PagesAgree'
  BY <1>7 DEF BeginMigrate, Begin
<1>8. ASSUME NEW t \in Thread, BeginGet(t)
      PROVE  PagesAgree'
  BY <1>8 DEF BeginGet, Begin
<1>9. ASSUME NEW t \in Thread, BeginResolve(t)
      PROVE  PagesAgree'
  BY <1>9 DEF BeginResolve, Begin
<1>10. ASSUME NEW t \in Thread, ListVersion(t)
      PROVE  PagesAgree'
  BY <1>10 DEF ListVersion, Goto, Finish, Rest
<1>11. ASSUME NEW t \in Thread, ClearEntries(t)
      PROVE  PagesAgree'
  BY <1>11 DEF ClearEntries, Goto, Finish, Rest
<1>12. ASSUME NEW t \in Thread, FillEntries(t)
      PROVE  PagesAgree'
  BY <1>12 DEF FillEntries, Goto, Finish, Rest
<1>13. ASSUME NEW t \in Thread, SetStatus(t)
      PROVE  PagesAgree'
  BY <1>13 DEF SetStatus, Goto, Finish, Rest
<1>14. ASSUME NEW t \in Thread, Point(t)
      PROVE  PagesAgree'
  BY <1>14 DEF Point, Goto, Finish, Rest
<1>15. ASSUME NEW t \in Thread, SaveDescriptor(t)
      PROVE  PagesAgree'
  BY <1>15 DEF SaveDescriptor, Goto, Finish, Rest
<1>16. ASSUME NEW t \in Thread, LoadPointer(t)
      PROVE  PagesAgree'
  BY <1>16 DEF LoadPointer, Goto, Finish, Rest
<1>17. ASSUME NEW t \in Thread, LoadEntries(t)
      PROVE  PagesAgree'
  BY <1>17 DEF LoadEntries, AfterLoad, Goto, Finish, Rest
<1>18. ASSUME NEW t \in Thread, Supersede(t)
      PROVE  PagesAgree'
  BY <1>18 DEF Supersede, Goto, Finish, Rest
<1>19. ASSUME NEW t \in Thread, Put(t)
      PROVE  PagesAgree'
  BY <1>19 DEF Put, Goto, Finish, Rest
<1>20. ASSUME NEW t \in Thread, PutAnywhere(t)
      PROVE  PagesAgree'
  BY <1>20 DEF PutAnywhere, Goto, Finish, Rest
<1>21. ASSUME NEW t \in Thread, Invalidate(t)
      PROVE  PagesAgree'
  BY <1>21 DEF Invalidate, Goto, Finish, Rest
<1>22. ASSUME NEW t \in Thread, FindActive(t)
      PROVE  PagesAgree'
  BY <1>22 DEF FindActive, Goto, Finish, Rest
<1>23. ASSUME NEW t \in Thread, DropEntries(t)
      PROVE  PagesAgree'
  BY <1>23 DEF DropEntries, Goto, Finish, Rest
<1>24. ASSUME NEW t \in Thread, DropPointer(t)
      PROVE  PagesAgree'
  BY <1>24 DEF DropPointer, Goto, Finish, Rest
<1>25. ASSUME NEW t \in Thread, EraseLayouts(t)
      PROVE  PagesAgree'
  BY <1>25 DEF EraseLayouts, Goto, Finish, Rest
<1>26. ASSUME NEW t \in Thread, Peek(t)
      PROVE  PagesAgree'
  BY <1>26 DEF Peek, Goto, Finish, Rest
<1>27. ASSUME NEW t \in Thread, ReadLayout(t)
      PROVE  PagesAgree'
  BY <1>27 DEF ReadLayout, Goto, Finish, Rest
<1>28. ASSUME NEW t \in Thread, Demote(t)
      PROVE  PagesAgree'
  BY <1>28 DEF Demote, Goto, Finish, Rest
<1>29. ASSUME NEW t \in Thread, Heal(t)
      PROVE  PagesAgree'
  BY <1>29 DEF Heal, Goto, Finish, Rest
<1>30. ASSUME NEW t \in Thread, FillCache(t)
      PROVE  PagesAgree'
  BY <1>30 DEF FillCache, Goto, Finish, Rest
<1>31. ASSUME NEW t \in Thread, CallFails(t)
      PROVE  PagesAgree'
  BY <1>31 DEF CallFails, Goto, Finish, Rest
<1>32. ASSUME CacheExpires
      PROVE  PagesAgree'
  BY <1>32 DEF CacheExpires, Goto, Finish, Rest
<1>33. ASSUME Stop
      PROVE  PagesAgree'
  BY <1>33 DEF Stop, Goto, Finish, Rest
<1>34. CASE UNCHANGED vars
  BY <1>34
<1> QED
  BY <1>1, <1>2, <1>3, <1>4, <1>5, <1>6, <1>7, <1>8, <1>9, <1>10, <1>11,
     <1>12, <1>13, <1>14, <1>15, <1>16, <1>17, <1>18, <1>19, <1>20,
     <1>21, <1>22, <1>23, <1>24, <1>25, <1>26, <1>27, <1>28, <1>29,
     <1>30, <1>31, <1>32, <1>33, <1>34 DEF Next

\* A reader's layout stays ACTIVE while no record changes.
LEMMA ActiveKept ==
  ASSUME CachesActive, Calm' => Calm, wire' = wire,
         \A s \in Thread :
           at'[s] \in {"demote", "heal", "cache"}
             => at'[s] = at[s] /\ def'[s] = def[s] /\ doc'[s] = doc[s]
  PROVE  CachesActive'
BY DEF CachesActive, IsCurrent, Shows, Active, LayoutOf

\* The cache goes on to fit while no layout changes and nobody who is to
\* replace it moves.
LEMMA FitKept ==
  ASSUME CacheFits, Calm' => Calm, wire' = wire, cache' = cache,
         \A s \in Thread :
           Replaces(s)
             => at'[s] = at[s] /\ kind'[s] = kind[s] /\ def'[s] = def[s]
  PROVE  CacheFits'
<1>1. Shows(cache) => Shows(cache)'
  BY DEF Shows, Active, LayoutOf
<1>2. \A s \in Thread : Replaces(s) => Replaces(s)'
  BY DEF Replaces, IsCurrent
<1> QED
  BY <1>1, <1>2 DEF CacheFits

\* A page that is built beside those who are to replace the cached layout, or
\* alone, finds a current layout in the cache only if it is ACTIVE.
LEMMA CurrentIsActive ==
  ASSUME Inv, CacheInv, Calm, NEW t \in Thread, kind[t] = "resolve",
         at[t] \in {"peek", "demote", "heal"}, def[t] # None,
         cache # NoLayout, IsCurrent(t, cache)
  PROVE  /\ cache = [id |-> def[t], content |-> def[t], print |-> def[t]]
         /\ wire[def[t]] = [status |-> "ACTIVE", content |-> def[t],
                            print |-> def[t]]
<1>1. cache.content = def[t]
  BY DEF Inv, Provenance, Trusted, Calm, Sound, IsCurrent
<1>2. cache \in Layout
  BY DEF Inv, AloneInv, TypeOK
<1>3. cache = [id |-> def[t], content |-> def[t], print |-> def[t]]
  BY <1>1, <1>2 DEF Layout, IsCurrent
<1>4. ASSUME NEW s \in Thread, Replaces(s)
      PROVE  FALSE
  <2>1. s # t /\ at[s] # "idle" /\ at[t] # "idle"
    BY <1>4 DEF Replaces
  <2>2. kind[s] = "resolve"
    BY <2>1 DEF Inv, AloneInv, Alone, Calm
  <2>3. at[s] \in {"heal", "cache"} /\ ~IsCurrent(s, cache)
    BY <1>4, <2>2 DEF Replaces, Inv, AloneInv, KindsFit, Reader
  <2>4. def[s] = def[t]
    BY <2>2, <2>3 DEF CacheInv, PagesAgree
  <2> QED
    BY <2>3, <2>4 DEF IsCurrent
<1>5. PICK i \in Id : Active(i) /\ LayoutOf(i) = cache
  BY <1>4 DEF CacheInv, CacheFits, Shows
<1>6. /\ wire[i] \in Record /\ wire[i].status = "ACTIVE"
      /\ i = def[t] /\ wire[i].content = def[t] /\ wire[i].print = def[t]
  BY <1>3, <1>5 DEF Active, LayoutOf, Inv, AloneInv, TypeOK
<1> QED
  BY <1>3, <1>6 DEF Record

\* What is about to be cached stays ACTIVE.
LEMMA CachesActiveStep ==
  ASSUME Inv, CacheInv, Inv', [Next]_vars
  PROVE  CachesActive'
<1> USE WireframeAssumption
    DEF Inv, AloneInv, KindsFit, Alone, CacheInv, Calm, TypeOK, Busy, Crosses,
        registry, layouts, handlers, vars,
        Kind, Reader, NativeKind, DescriptorKind, Step, Id, Content,
        CachesActive
<1>1. ASSUME NEW t \in Thread, NEW v \in Version, BeginUpload(t, v)
      PROVE  CachesActive'
  BY <1>1, ActiveKept DEF BeginUpload, Begin
<1>2. ASSUME NEW t \in Thread, NEW v \in Version, BeginRegister(t, v)
      PROVE  CachesActive'
  BY <1>2, ActiveKept DEF BeginRegister, Begin
<1>3. ASSUME NEW t \in Thread, NEW v \in Version, BeginRetire(t, v)
      PROVE  CachesActive'
  BY <1>3, ActiveKept DEF BeginRetire, Begin
<1>4. ASSUME NEW t \in Thread, NEW v \in Version, BeginPurge(t, v)
      PROVE  CachesActive'
  BY <1>4, ActiveKept DEF BeginPurge, Begin
<1>5. ASSUME NEW t \in Thread, NEW v \in Version, NEW k \in {"stage", "activate"},
               BeginLifecycle(t, k, v)
      PROVE  CachesActive'
  BY <1>5 DEF BeginLifecycle, Begin
<1>6. ASSUME NEW t \in Thread, BeginPublish(t)
      PROVE  CachesActive'
  BY <1>6, ActiveKept DEF BeginPublish, Begin
<1>7. ASSUME NEW t \in Thread, BeginMigrate(t)
      PROVE  CachesActive'
  BY <1>7, ActiveKept DEF BeginMigrate, Begin
<1>8. ASSUME NEW t \in Thread, BeginGet(t)
      PROVE  CachesActive'
  BY <1>8, ActiveKept DEF BeginGet, Begin
<1>9. ASSUME NEW t \in Thread, BeginResolve(t)
      PROVE  CachesActive'
  BY <1>9, ActiveKept DEF BeginResolve, Begin
<1>10. ASSUME NEW t \in Thread, ListVersion(t)
      PROVE  CachesActive'
  BY <1>10, ActiveKept DEF ListVersion, Goto, Finish, Rest
<1>11. ASSUME NEW t \in Thread, ClearEntries(t)
      PROVE  CachesActive'
  BY <1>11, ActiveKept DEF ClearEntries, Goto, Finish, Rest
<1>12. ASSUME NEW t \in Thread, FillEntries(t)
      PROVE  CachesActive'
  BY <1>12, ActiveKept DEF FillEntries, Goto, Finish, Rest
<1>13. ASSUME NEW t \in Thread, SetStatus(t)
      PROVE  CachesActive'
  <2>1. wire' = wire /\ (Calm' => Calm)
    BY <1>13 DEF SetStatus, Rest
  <2>2. ASSUME NEW s \in Thread, at'[s] \in {"demote", "heal", "cache"}
        PROVE  at'[s] = at[s] /\ def'[s] = def[s] /\ doc'[s] = doc[s]
    BY <1>13, <2>2 DEF SetStatus, Goto, Finish
  <2> QED
    BY <2>1, <2>2, ActiveKept
<1>14. ASSUME NEW t \in Thread, Point(t)
      PROVE  CachesActive'
  BY <1>14, ActiveKept DEF Point, Goto, Finish, Rest
<1>15. ASSUME NEW t \in Thread, SaveDescriptor(t)
      PROVE  CachesActive'
  <2>1. wire' = wire /\ (Calm' => Calm)
    BY <1>15 DEF SaveDescriptor, Rest
  <2>2. ASSUME NEW s \in Thread, at'[s] \in {"demote", "heal", "cache"}
        PROVE  at'[s] = at[s] /\ def'[s] = def[s] /\ doc'[s] = doc[s]
    BY <1>15, <2>2 DEF SaveDescriptor, Goto, Finish
  <2> QED
    BY <2>1, <2>2, ActiveKept
<1>16. ASSUME NEW t \in Thread, LoadPointer(t)
      PROVE  CachesActive'
  BY <1>16, ActiveKept DEF LoadPointer, Goto, Finish, Rest
<1>17. ASSUME NEW t \in Thread, LoadEntries(t)
      PROVE  CachesActive'
  <2>1. wire' = wire /\ (Calm' => Calm)
    BY <1>17 DEF LoadEntries, Rest
  <2>2. ASSUME NEW s \in Thread, at'[s] \in {"demote", "heal", "cache"}
        PROVE  at'[s] = at[s] /\ def'[s] = def[s] /\ doc'[s] = doc[s]
    BY <1>17, <2>2 DEF LoadEntries, AfterLoad, Goto, Finish
  <2> QED
    BY <2>1, <2>2, ActiveKept
<1>18. ASSUME NEW t \in Thread, Supersede(t)
      PROVE  CachesActive'
  BY <1>18 DEF Supersede, Goto, Finish, Rest
<1>19. ASSUME NEW t \in Thread, Put(t)
      PROVE  CachesActive'
  BY <1>19 DEF Put, Goto, Finish, Rest
<1>20. ASSUME NEW t \in Thread, PutAnywhere(t)
      PROVE  CachesActive'
  BY <1>20 DEF PutAnywhere, Goto, Finish, Rest
<1>21. ASSUME NEW t \in Thread, Invalidate(t)
      PROVE  CachesActive'
  <2>1. wire' = wire /\ (Calm' => Calm)
    BY <1>21 DEF Invalidate, Rest
  <2>2. ASSUME NEW s \in Thread, at'[s] \in {"demote", "heal", "cache"}
        PROVE  at'[s] = at[s] /\ def'[s] = def[s] /\ doc'[s] = doc[s]
    BY <1>21, <2>2 DEF Invalidate, Goto, Finish
  <2> QED
    BY <2>1, <2>2, ActiveKept
<1>22. ASSUME NEW t \in Thread, FindActive(t)
      PROVE  CachesActive'
  <2>1. wire' = wire /\ (Calm' => Calm)
    BY <1>22 DEF FindActive, Rest
  <2>2. ASSUME NEW s \in Thread, at'[s] \in {"demote", "heal", "cache"}
        PROVE  at'[s] = at[s] /\ def'[s] = def[s] /\ doc'[s] = doc[s]
    BY <1>22, <2>2 DEF FindActive, Goto, Finish
  <2> QED
    BY <2>1, <2>2, ActiveKept
<1>23. ASSUME NEW t \in Thread, DropEntries(t)
      PROVE  CachesActive'
  BY <1>23, ActiveKept DEF DropEntries, Goto, Finish, Rest
<1>24. ASSUME NEW t \in Thread, DropPointer(t)
      PROVE  CachesActive'
  <2>1. wire' = wire /\ (Calm' => Calm)
    BY <1>24 DEF DropPointer, Rest
  <2>2. ASSUME NEW s \in Thread, at'[s] \in {"demote", "heal", "cache"}
        PROVE  at'[s] = at[s] /\ def'[s] = def[s] /\ doc'[s] = doc[s]
    BY <1>24, <2>2 DEF DropPointer, Goto, Finish
  <2> QED
    BY <2>1, <2>2, ActiveKept
<1>25. ASSUME NEW t \in Thread, EraseLayouts(t)
      PROVE  CachesActive'
  BY <1>25 DEF EraseLayouts, Goto, Finish, Rest
<1>26. ASSUME NEW t \in Thread, Peek(t)
      PROVE  CachesActive'
  <2>1. Calm' => Calm
    BY <1>26 DEF Peek, Rest
  <2>2. CASE at'[t] # "cache"
    <3>1. ASSUME NEW s \in Thread, at'[s] \in {"demote", "heal", "cache"}
          PROVE  at'[s] = at[s] /\ def'[s] = def[s] /\ doc'[s] = doc[s]
      BY <1>26, <2>2, <3>1 DEF Peek, Goto, Finish
    <3> QED
      BY <1>26, <2>1, <3>1, ActiveKept DEF Peek
  <2>3. CASE at'[t] = "cache"
    <3>1. /\ cache # NoLayout /\ IsCurrent(t, cache) /\ def[t] # None
          /\ doc' = [doc EXCEPT ![t] = cache] /\ def' = def /\ wire' = wire
          /\ at' = [at EXCEPT ![t] = "cache"] /\ at[t] = "peek"
      BY <1>26, <2>3 DEF Peek, Goto, Finish
    <3>2. kind[t] = "resolve"
      BY <3>1
    <3>3. Calm => wire[def[t]] = [status |-> "ACTIVE", content |-> def[t],
                                  print |-> def[t]]
      BY <3>1, <3>2, CurrentIsActive
    <3>4. doc'[t] = cache /\ at'[t] = "cache"
          /\ \A s \in Thread \ {t} : doc'[s] = doc[s] /\ at'[s] = at[s]
      BY <3>1
    <3> HIDE DEF Inv, AloneInv, KindsFit, Alone, TypeOK, Id, Content, Kind, Step
    <3> QED
      BY <2>1, <3>1, <3>3, <3>4 DEF IsCurrent, Shows, Active, LayoutOf
  <2> QED
    BY <2>2, <2>3
<1>27. ASSUME NEW t \in Thread, ReadLayout(t)
      PROVE  CachesActive'
  <2>1. Calm' => Calm
    BY <1>27 DEF ReadLayout, Rest
  <2>2. /\ wire' = wire /\ at[t] = "read"
        /\ \A s \in Thread \ {t} :
             at'[s] = at[s] /\ def'[s] = def[s] /\ doc'[s] = doc[s]
    BY <1>27 DEF ReadLayout, Goto, Finish
  <2>3. CASE at'[t] = "idle"
    BY ZenonT(60), <2>1, <2>2, <2>3, ActiveKept
  <2>4. CASE at'[t] = "demote" /\ def' = def
             /\ doc'[t] = [id |-> def[t], content |-> def[t], print |-> def[t]]
    <3> HIDE DEF Inv, AloneInv, KindsFit, Alone, TypeOK, Id, Content, Kind, Step
    <3> QED
      BY <2>1, <2>2, <2>4 DEF IsCurrent, Shows, Active, LayoutOf
  <2>5. ASSUME NEW i \in Id, Active(i), def[t] = None \/ IsCurrent(t, LayoutOf(i)),
               at'[t] = "cache", def' = def, doc'[t] = LayoutOf(i)
        PROVE  CachesActive'
    <3>1. Calm /\ def[t] # None
            => wire[def[t]] = [status |-> "ACTIVE", content |-> def[t],
                               print |-> def[t]]
      <4> SUFFICES ASSUME Calm, def[t] # None
          PROVE  wire[def[t]] = [status |-> "ACTIVE", content |-> def[t],
                                 print |-> def[t]]
        OBVIOUS
      <4>1. i = def[t] /\ wire[i].print = def[t]
        BY <2>5 DEF IsCurrent, LayoutOf
      <4>2. wire[i].content = i
        BY <4>1 DEF Provenance, Trusted
      <4>3. wire[i] \in Record /\ wire[i].status = "ACTIVE"
        BY <2>5 DEF Active
      <4> QED
        BY <4>1, <4>2, <4>3 DEF Record
    <3> HIDE DEF Inv, AloneInv, KindsFit, Alone, TypeOK, Content, Kind, Step
    <3> QED
      BY <2>1, <2>2, <2>5, <3>1 DEF IsCurrent, Shows, Active, LayoutOf
  <2>6. CASE \E i \in Id :
               /\ Active(i)
               /\ def[t] = None \/ IsCurrent(t, LayoutOf(i))
               /\ doc' = [doc EXCEPT ![t] = LayoutOf(i)]
               /\ Goto(t, "cache") /\ UNCHANGED def
    BY <2>5, <2>6 DEF Goto
  <2>7. CASE /\ doc' = [doc EXCEPT ![t] =
                          [id |-> def[t], content |-> def[t], print |-> def[t]]]
             /\ Goto(t, "demote") /\ UNCHANGED def
    BY <2>4, <2>7 DEF Goto
  <2>8. CASE Finish(t)
    BY <2>3, <2>8 DEF Finish
  <2> QED
    BY <1>27, <2>6, <2>7, <2>8 DEF ReadLayout
<1>28. ASSUME NEW t \in Thread, Demote(t)
      PROVE  CachesActive'
  <2>1. kind[t] = "resolve" /\ def[t] # None
    BY <1>28 DEF Demote
  <2>2. ASSUME Calm', NEW s \in Thread, s # t, at'[s] \in {"demote", "heal", "cache"}
        PROVE  def[s] = def[t] /\ kind[s] = "resolve"
    BY <1>28, <2>1, <2>2 DEF Demote, Goto, Rest, PagesAgree
  <2>3. def[t] \in Id
    BY <2>1
  <2>4. wire'[def[t]] = wire[def[t]]
    BY <1>28, <2>3 DEF Demote, Demoted
  <2>5. ASSUME Calm', NEW s \in Thread, at'[s] \in {"demote", "heal", "cache"}
        PROVE  /\ def'[s] = def[s] /\ doc'[s] = doc[s] /\ def[s] = def[t]
               /\ at[s] \in {"demote", "heal", "cache"}
               /\ at'[s] = "cache" => (at[s] = "cache")
    BY <1>28, <2>2, <2>5 DEF Demote, Goto
  <2>6. Calm' => Calm
    BY <1>28 DEF Demote, Rest
  <2> HIDE DEF Inv, AloneInv, KindsFit, Alone, TypeOK, Id, Content, Kind, Step
  <2> QED
    BY <2>1, <2>4, <2>5, <2>6 DEF IsCurrent
<1>29. ASSUME NEW t \in Thread, Heal(t)
      PROVE  CachesActive'
  <2>1. kind[t] = "resolve" /\ def[t] # None
    BY <1>29 DEF Heal
  <2>2. ASSUME Calm', NEW s \in Thread, s # t, at'[s] \in {"demote", "heal", "cache"}
        PROVE  def[s] = def[t] /\ kind[s] = "resolve"
    BY <1>29, <2>1, <2>2 DEF Heal, Goto, Rest, PagesAgree
  <2>3. def[t] \in Id
    BY <2>1
  <2>4. wire'[def[t]] = [status |-> "ACTIVE", content |-> def[t], print |-> def[t]]
    BY <1>29, <2>3 DEF Heal, Written
  <2>5. ASSUME Calm', NEW s \in Thread, at'[s] \in {"demote", "heal", "cache"}
        PROVE  /\ def'[s] = def[s] /\ doc'[s] = doc[s] /\ def[s] = def[t]
               /\ at[s] \in {"demote", "heal", "cache"}
               /\ at'[s] = "cache" => (at[s] = "cache" \/ s = t)
    BY <1>29, <2>2, <2>5 DEF Heal, Goto
  <2>6. Calm' => Calm
    BY <1>29 DEF Heal, Rest
  <2> HIDE DEF Inv, AloneInv, KindsFit, Alone, TypeOK, Id, Content, Kind, Step
  <2> QED
    BY <2>1, <2>4, <2>5, <2>6 DEF IsCurrent
<1>30. ASSUME NEW t \in Thread, FillCache(t)
      PROVE  CachesActive'
  BY <1>30, ActiveKept DEF FillCache, Goto, Finish, Rest
<1>31. ASSUME NEW t \in Thread, CallFails(t)
      PROVE  CachesActive'
  BY <1>31 DEF CallFails
<1>32. ASSUME CacheExpires
      PROVE  CachesActive'
  BY <1>32, ActiveKept DEF CacheExpires
<1>33. ASSUME Stop
      PROVE  CachesActive'
  BY <1>33 DEF Stop
<1>34. CASE UNCHANGED vars
  BY <1>34, ActiveKept
<1> QED
  BY ZenonT(60),
     <1>1, <1>2, <1>3, <1>4, <1>5, <1>6, <1>7, <1>8, <1>9, <1>10, <1>11,
     <1>12, <1>13, <1>14, <1>15, <1>16, <1>17, <1>18, <1>19, <1>20,
     <1>21, <1>22, <1>23, <1>24, <1>25, <1>26, <1>27, <1>28, <1>29,
     <1>30, <1>31, <1>32, <1>33, <1>34 DEF Next

\* What is cached is ACTIVE or about to be replaced.
LEMMA CacheFitsStep ==
  ASSUME Inv, CacheInv, Inv', PagesAgree', [Next]_vars
  PROVE  CacheFits'
<1> USE WireframeAssumption
    DEF Inv, AloneInv, KindsFit, Alone, CacheInv, Calm, TypeOK, Busy, Crosses,
        registry, layouts, handlers, vars,
        Kind, Reader, NativeKind, DescriptorKind, Step, Id, Content,
        CacheFits
<1>1. ASSUME NEW t \in Thread, NEW v \in Version, BeginUpload(t, v)
      PROVE  CacheFits'
  BY <1>1, FitKept DEF BeginUpload, Begin, Replaces
<1>2. ASSUME NEW t \in Thread, NEW v \in Version, BeginRegister(t, v)
      PROVE  CacheFits'
  BY <1>2, FitKept DEF BeginRegister, Begin, Replaces
<1>3. ASSUME NEW t \in Thread, NEW v \in Version, BeginRetire(t, v)
      PROVE  CacheFits'
  BY <1>3, FitKept DEF BeginRetire, Begin, Replaces
<1>4. ASSUME NEW t \in Thread, NEW v \in Version, BeginPurge(t, v)
      PROVE  CacheFits'
  BY <1>4, FitKept DEF BeginPurge, Begin, Replaces
<1>5. ASSUME NEW t \in Thread, NEW v \in Version, NEW k \in {"stage", "activate"},
               BeginLifecycle(t, k, v)
      PROVE  CacheFits'
  BY <1>5, FitKept DEF BeginLifecycle, Begin, Replaces
<1>6. ASSUME NEW t \in Thread, BeginPublish(t)
      PROVE  CacheFits'
  BY <1>6, FitKept DEF BeginPublish, Begin, Replaces
<1>7. ASSUME NEW t \in Thread, BeginMigrate(t)
      PROVE  CacheFits'
  BY <1>7, FitKept DEF BeginMigrate, Begin, Replaces
<1>8. ASSUME NEW t \in Thread, BeginGet(t)
      PROVE  CacheFits'
  BY <1>8, FitKept DEF BeginGet, Begin, Replaces
<1>9. ASSUME NEW t \in Thread, BeginResolve(t)
      PROVE  CacheFits'
  BY <1>9, FitKept DEF BeginResolve, Begin, Replaces
<1>10. ASSUME NEW t \in Thread, ListVersion(t)
      PROVE  CacheFits'
  BY <1>10, FitKept DEF ListVersion, Goto, Finish, Rest, Replaces
<1>11. ASSUME NEW t \in Thread, ClearEntries(t)
      PROVE  CacheFits'
  BY <1>11, FitKept DEF ClearEntries, Goto, Finish, Rest, Replaces
<1>12. ASSUME NEW t \in Thread, FillEntries(t)
      PROVE  CacheFits'
  BY <1>12, FitKept DEF FillEntries, Goto, Finish, Rest, Replaces
<1>13. ASSUME NEW t \in Thread, SetStatus(t)
      PROVE  CacheFits'
  BY <1>13, FitKept DEF SetStatus, Goto, Finish, Rest, Replaces
<1>14. ASSUME NEW t \in Thread, Point(t)
      PROVE  CacheFits'
  BY <1>14, FitKept DEF Point, Goto, Finish, Rest, Replaces
<1>15. ASSUME NEW t \in Thread, SaveDescriptor(t)
      PROVE  CacheFits'
  BY <1>15, FitKept DEF SaveDescriptor, Goto, Finish, Rest, Replaces
<1>16. ASSUME NEW t \in Thread, LoadPointer(t)
      PROVE  CacheFits'
  BY <1>16, FitKept DEF LoadPointer, Goto, Finish, Rest, Replaces
<1>17. ASSUME NEW t \in Thread, LoadEntries(t)
      PROVE  CacheFits'
  BY <1>17, FitKept DEF LoadEntries, AfterLoad, Goto, Finish, Rest, Replaces
<1>18. ASSUME NEW t \in Thread, Supersede(t)
      PROVE  CacheFits'
  <2>1. Replaces(t)'
    BY <1>18 DEF Supersede, Goto, Replaces
  <2> QED
    BY <2>1
<1>19. ASSUME NEW t \in Thread, Put(t)
      PROVE  CacheFits'
  <2>1. Replaces(t)'
    BY <1>19 DEF Put, Goto, Replaces
  <2> QED
    BY <2>1
<1>20. ASSUME NEW t \in Thread, PutAnywhere(t)
      PROVE  CacheFits'
  <2>1. CASE wire' = wire /\ Finish(t)
    BY <1>20, <2>1, FitKept DEF PutAnywhere, Finish, Rest, Replaces
  <2>2. CASE Goto(t, "invalidate")
    BY <2>2 DEF Goto, Replaces
  <2> QED
    BY <1>20, <2>1, <2>2 DEF PutAnywhere
<1>21. ASSUME NEW t \in Thread, Invalidate(t)
      PROVE  CacheFits'
  BY <1>21 DEF Invalidate, Goto, Finish, Rest
<1>22. ASSUME NEW t \in Thread, FindActive(t)
      PROVE  CacheFits'
  BY <1>22, FitKept DEF FindActive, Goto, Finish, Rest, Replaces
<1>23. ASSUME NEW t \in Thread, DropEntries(t)
      PROVE  CacheFits'
  BY <1>23, FitKept DEF DropEntries, Goto, Finish, Rest, Replaces
<1>24. ASSUME NEW t \in Thread, DropPointer(t)
      PROVE  CacheFits'
  BY <1>24, FitKept DEF DropPointer, Goto, Finish, Rest, Replaces
<1>25. ASSUME NEW t \in Thread, EraseLayouts(t)
      PROVE  CacheFits'
  <2>1. Replaces(t)'
    BY <1>25 DEF EraseLayouts, Goto, Replaces
  <2> QED
    BY <2>1
<1>26. ASSUME NEW t \in Thread, Peek(t)
      PROVE  CacheFits'
  BY <1>26, FitKept DEF Peek, Goto, Finish, Rest, Replaces
<1>27. ASSUME NEW t \in Thread, ReadLayout(t)
      PROVE  CacheFits'
  BY <1>27, FitKept DEF ReadLayout, Goto, Finish, Rest, Replaces
<1>28. ASSUME NEW t \in Thread, Demote(t)
      PROVE  CacheFits'
  <2>1. kind[t] = "resolve" /\ def[t] # None
    BY <1>28 DEF Demote
  <2>2. CASE cache = NoLayout
    BY <1>28, <2>2 DEF Demote
  <2>3. CASE ~IsCurrent(t, cache)
    <3>1. Replaces(t)'
      BY <1>28, <2>1, <2>3 DEF Demote, Goto, Rest, Replaces, IsCurrent
    <3> QED
      BY <3>1
  <2>4. CASE cache # NoLayout /\ IsCurrent(t, cache) /\ Calm
    <3>1. cache = [id |-> def[t], content |-> def[t], print |-> def[t]]
          /\ wire[def[t]] = [status |-> "ACTIVE", content |-> def[t],
                             print |-> def[t]]
      BY <1>28, <2>1, <2>4, CurrentIsActive DEF Demote
    <3>2. def[t] \in Id
      BY <2>1
    <3>3. wire'[def[t]] = wire[def[t]] /\ cache' = cache
      BY <1>28, <3>2 DEF Demote, Demoted
    <3>4. Shows(cache)'
      BY <3>1, <3>2, <3>3 DEF Shows, Active, LayoutOf
    <3> QED
      BY <3>4
  <2>5. CASE ~Calm
    BY <1>28, <2>5 DEF Demote, Rest
  <2> QED
    BY <2>2, <2>3, <2>4, <2>5
<1>29. ASSUME NEW t \in Thread, Heal(t)
      PROVE  CacheFits'
  <2>1. kind[t] = "resolve" /\ def[t] # None
    BY <1>29 DEF Heal
  <2>2. CASE cache = NoLayout
    BY <1>29, <2>2 DEF Heal
  <2>3. CASE ~IsCurrent(t, cache)
    <3>1. Replaces(t)'
      BY <1>29, <2>1, <2>3 DEF Heal, Goto, Rest, Replaces, IsCurrent
    <3> QED
      BY <3>1
  <2>4. CASE cache # NoLayout /\ IsCurrent(t, cache) /\ Calm
    <3>1. cache = [id |-> def[t], content |-> def[t], print |-> def[t]]
      BY <1>29, <2>1, <2>4, CurrentIsActive DEF Heal
    <3>2. def[t] \in Id
      BY <2>1
    <3>3. /\ wire'[def[t]] = [status |-> "ACTIVE", content |-> def[t],
                             print |-> def[t]]
          /\ cache' = cache
      BY <1>29, <3>2 DEF Heal, Written
    <3>4. Shows(cache)'
      BY <3>1, <3>2, <3>3 DEF Shows, Active, LayoutOf
    <3> QED
      BY <3>4
  <2>5. CASE ~Calm
    BY <1>29, <2>5 DEF Heal, Rest
  <2> QED
    BY <2>2, <2>3, <2>4, <2>5
<1>30. ASSUME NEW t \in Thread, FillCache(t)
      PROVE  CacheFits'
  <2> SUFFICES ASSUME Calm'
      PROVE  Shows(cache)'
    OBVIOUS
  <2>1. Calm /\ wire' = wire /\ cache' = doc[t] /\ at[t] = "cache"
    BY <1>30 DEF FillCache
  <2>2. Shows(doc[t])
    <3>1. CASE def[t] = None
      BY <2>1, <3>1 DEF CachesActive
    <3>2. CASE def[t] # None
      <4>1. IsCurrent(t, doc[t]) /\ def[t] \in Id
            /\ wire[def[t]] = [status |-> "ACTIVE", content |-> def[t],
                               print |-> def[t]]
        BY <2>1, <3>2 DEF CachesActive
      <4>2. doc[t].content = def[t]
        BY <2>1, <3>2 DEF Provenance, Trusted
      <4>3. doc[t] = [id |-> def[t], content |-> def[t], print |-> def[t]]
        BY <4>1, <4>2 DEF IsCurrent, Layout
      <4> QED
        BY <4>1, <4>3 DEF Shows, Active, LayoutOf
    <3> QED
      BY <3>1, <3>2
  <2> QED
    BY <2>1, <2>2 DEF Shows, Active, LayoutOf
<1>31. ASSUME NEW t \in Thread, CallFails(t)
      PROVE  CacheFits'
  BY <1>31 DEF CallFails
<1>32. ASSUME CacheExpires
      PROVE  CacheFits'
  BY <1>32 DEF CacheExpires, Goto, Finish, Rest
<1>33. ASSUME Stop
      PROVE  CacheFits'
  BY <1>33 DEF Stop
<1>34. CASE UNCHANGED vars
  BY <1>34, FitKept
<1> QED
  BY <1>1, <1>2, <1>3, <1>4, <1>5, <1>6, <1>7, <1>8, <1>9, <1>10, <1>11,
     <1>12, <1>13, <1>14, <1>15, <1>16, <1>17, <1>18, <1>19, <1>20,
     <1>21, <1>22, <1>23, <1>24, <1>25, <1>26, <1>27, <1>28, <1>29,
     <1>30, <1>31, <1>32, <1>33, <1>34 DEF Next

-----------------------------------------------------------------------------

\* At first nothing is written and nobody is at work.
LEMMA InitInv ==
  ASSUME Init
  PROVE  Inv
<1>1. TypeOK
  BY WireframeAssumption, EmptyTypes
     DEF Init, TypeOK, Kind, Reader, NativeKind, DescriptorKind, Step, Id,
         Content
<1>2. KindsFit /\ Alone /\ BuildsItsOwn
  BY DEF Init, KindsFit, Alone, BuildsItsOwn, NativeKind, DescriptorKind
<1>3. Provenance
  BY EmptyTypes DEF Init, Provenance, NoRecord
<1> QED
  BY <1>1, <1>2, <1>3 DEF Inv, AloneInv

\* Every step keeps the invariants of handlers and fingerprints.
LEMMA InvStep ==
  ASSUME Inv, [Next]_vars
  PROVE  Inv'
<1>1. AloneInv
  BY DEF Inv
<1>2. TypeOK' /\ KindsFit'
  BY <1>1, TypeStep, KindsStep DEF AloneInv
<1>3. AloneInv'
  BY <1>1, <1>2, AloneStep, OwnStep DEF AloneInv
<1>4. Provenance'
  BY <1>2, ProvenanceStep
<1> QED
  BY <1>3, <1>4 DEF Inv

\* Type correctness of the registry, the layouts and the handlers.
THEOREM TypeCorrect == Spec => []TypeOK
<1>1. Init => TypeOK
  BY WireframeAssumption, EmptyTypes
     DEF Init, TypeOK, Kind, Reader, NativeKind, DescriptorKind, Step, Id,
         Content
<1>2. TypeOK /\ [Next]_vars => TypeOK'
  BY TypeStep
<1> QED
  BY <1>1, <1>2, PTL DEF Spec

\* A page whose definition could be loaded is served the layout of that
\* version: for descriptors whatever activates, publishes, purges or fails at
\* the same time, for native uploads unless handlers overlap.
THEOREM PagesServeTheirLayout == Spec => []ServesItsLayout
<1>1. Init => Inv
  BY InitInv
<1>2. Inv /\ [Next]_vars => Inv'
  BY InvStep
<1>3. Inv => ServesItsLayout
  BY DEF Inv, Provenance, Trusted, PagesAreCurrent, ServesItsLayout
<1> QED
  BY <1>1, <1>2, <1>3, PTL DEF Spec

\* What the cache holds is the content of an ACTIVE record when nobody is
\* writing, whatever has expired, been healed, published or purged, unless a
\* handler died or handlers have overlapped.
THEOREM CacheHoldsTheActive == Spec => []CacheIsActive
<1> DEFINE IInv == Inv /\ CacheInv
<1>1. Init => IInv
  <2> SUFFICES ASSUME Init PROVE CacheInv
    BY InitInv
  <2> QED
    BY DEF Init, CacheInv, PagesAgree, CachesActive, CacheFits
<1>2. IInv /\ [Next]_vars => IInv'
  BY InvStep, PagesAgreeStep, CachesActiveStep, CacheFitsStep DEF CacheInv
<1>3. IInv => CacheIsActive
  BY DEF CacheInv, CacheFits, Calm, Shows, Replaces, CacheIsActive, Writing
<1> QED
  BY <1>1, <1>2, <1>3, PTL DEF Spec

\* A definition that comes from descriptors never has two ACTIVE layouts, also
\* after a handler died half way, unless handlers have overlapped.
THEOREM OneLayoutAtATime == Spec => []OneActiveLayout
<1>1. Init => SerialInv
  <2>1. Init => TypeOK
    BY WireframeAssumption, EmptyTypes
       DEF Init, TypeOK, Kind, Reader, NativeKind, DescriptorKind, Step, Id,
           Content
  <2> QED
    BY <2>1, InitInv
       DEF Init, Inv, AloneInv, SerialInv, Serial, OneActiveLayout, Active,
           NoRecord
<1>2. SerialInv /\ [Next]_vars => SerialInv'
  BY TypeStep, KindsStep, AloneStep, SerialStep DEF SerialInv
<1>3. SerialInv => OneActiveLayout
  BY DEF SerialInv
<1> QED
  BY <1>1, <1>2, <1>3, PTL DEF Spec
=============================================================================
