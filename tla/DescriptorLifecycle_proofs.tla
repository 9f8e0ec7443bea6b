---------------------- MODULE DescriptorLifecycle_proofs ----------------------
(***************************************************************************)
(* Theorems about DescriptorLifecycle, for any number of documents, users  *)
(* and handlers, however they overlap and fail.                            *)
(***************************************************************************)
EXTENDS DescriptorLifecycle, TLAPS

\* A document has an uploader from its upload on, an approver only after it.
UploadedInv ==
  \A d \in Doc :
    /\ uploader[d] = Nobody => state[d] = "Absent" /\ approver[d] = Nobody
    /\ \A r \in Request : at[r] # "idle" /\ on[r] = d => uploader[d] # Nobody

\* What a handler knows of its document, however long ago it read it.
HandlersKnow ==
  \A r \in Request :
    /\ at[r] = "approve" => by[r] # uploader[on[r]]
    /\ at[r] \in ActivateSteps \cup PurgeSteps
                 \cup {"deprecate", "countDevices", "retire"}
         => Reviewed(on[r])
    /\ \A d \in rest[r] : Reviewed(d)

ReviewInv == TypeOK /\ UploadedInv /\ HandlersKnow /\ OnlyReviewedGoesLive

\* The states a document may be in when a handler that nobody disturbed makes
\* its next call.
Expected(step) ==
  CASE step \in {"startValidation", "delete"} -> {"Draft", "Invalid"}
    [] step = "endValidation" -> {"Validating"}
    [] step = "approve" -> {"Valid"}
    [] step \in ActivateSteps -> {"Approved"}
    [] step = "deprecate" -> {"Active"}
    [] step \in {"flagPointer", "flagRecord", "countDevices", "retire"}
         -> {"Deprecated"}
    [] step \in PurgeSteps \cup {"dropPrints", "dropPointer", "flagRetired"}
         -> {"Retired"}
    [] OTHER -> State

\* As long as no handlers overlap, each finds what it has read, and an
\* activation has still to supersede whatever else is Active.
Undisturbed ==
  overlaps = 0 =>
    \A r \in Request : at[r] # "idle" =>
      /\ \A s \in Request : at[s] # "idle" => s = r
      /\ state[on[r]] \in Expected(at[r])
      /\ at[r] = "supersede" =>
           \A d \in Doc \ {on[r]} : state[d] = "Active" => d \in rest[r]
      /\ \A d \in rest[r] : d # on[r] /\ state[d] = "Active"

\* Only an activation that supersedes has others left to supersede.
RestIsOfSuperseding ==
  \A r \in Request : at[r] # "supersede" => rest[r] = {}

SerialInv == /\ TypeOK
             /\ RestIsOfSuperseding
             /\ Undisturbed
             /\ OneActiveVersion
             /\ DeprecatedPointerIsHonest

\* A version whose retention has passed is only ever purged.
AgedInv ==
  /\ \A d \in Doc : state[d] = "Purged" => d \in aged
  /\ \A d \in aged : state[d] \in {"Retired", "Purged"}
  /\ \A r \in Request : at[r] # "idle" =>
       (on[r] \in aged <=> at[r] \in PurgeSteps)
  /\ \A r \in Request : rest[r] \cap aged = {}

\* What a purge has removed so far stays removed.
PurgedSoFar ==
  \A r \in Request :
    /\ at[r] \in PurgeSteps \ {"purgeParams"} => params # on[r]
    /\ at[r] \in {"purgePointer", "purgeRecord", "purge"} => prints # on[r]
    /\ at[r] \in {"purgeRecord", "purge"} => pointer.doc # on[r]
    /\ at[r] = "purge" => record.doc # on[r]

PurgeInv == TypeOK /\ RestIsOfSuperseding /\ AgedInv
            /\ PurgedSoFar /\ PurgedLeavesNothing

-----------------------------------------------------------------------------
\* Every step keeps the types.
LEMMA TypeStep ==
  ASSUME TypeOK, [Next]_vars
  PROVE  TypeOK'
<1> USE LifecycleAssumption
    DEF docs, registry, handlers, vars,
        TypeOK, State, Step, ActivateSteps, PurgeSteps, Entry, NoEntry, InFlight
<1>1. ASSUME NEW d \in Doc, NEW u \in User, Upload(d, u)
      PROVE  TypeOK'
  BY <1>1 DEF Upload
<1>2. ASSUME NEW d \in Doc, RetentionPasses(d)
      PROVE  TypeOK'
  BY <1>2 DEF RetentionPasses
<1>3. ASSUME NEW r \in Request, NEW d \in Doc, NEW u \in User,
              BeginValidate(r, d, u)
      PROVE  TypeOK'
  BY <1>3 DEF BeginValidate, Begin
<1>4. ASSUME NEW r \in Request, NEW d \in Doc, NEW u \in User,
              BeginApprove(r, d, u)
      PROVE  TypeOK'
  BY <1>4 DEF BeginApprove, Begin
<1>5. ASSUME NEW r \in Request, NEW d \in Doc, NEW u \in User,
              BeginDelete(r, d, u)
      PROVE  TypeOK'
  BY <1>5 DEF BeginDelete, Begin
<1>6. ASSUME NEW r \in Request, NEW d \in Doc, NEW u \in User,
              BeginActivate(r, d, u)
      PROVE  TypeOK'
  BY <1>6 DEF BeginActivate, Begin
<1>7. ASSUME NEW r \in Request, NEW d \in Doc, NEW u \in User,
              BeginDeprecate(r, d, u)
      PROVE  TypeOK'
  BY <1>7 DEF BeginDeprecate, Begin
<1>8. ASSUME NEW r \in Request, NEW d \in Doc, NEW u \in User,
              BeginRetire(r, d, u)
      PROVE  TypeOK'
  BY <1>8 DEF BeginRetire, Begin
<1>9. ASSUME NEW r \in Request, NEW d \in Doc, NEW u \in User,
              BeginPurge(r, d, u)
      PROVE  TypeOK'
  BY <1>9 DEF BeginPurge, Begin
<1>10. ASSUME NEW r \in Request, StartValidation(r)
      PROVE  TypeOK'
  BY SMTT(30), <1>10 DEF StartValidation, Saves, SaveFails, GoTo, Finish
<1>11. ASSUME NEW r \in Request, EndValidation(r)
      PROVE  TypeOK'
  BY SMTT(30), <1>11 DEF EndValidation, Saves, SaveFails, GoTo, Finish
<1>12. ASSUME NEW r \in Request, Approve(r)
      PROVE  TypeOK'
  BY SMTT(30), <1>12 DEF Approve, Saves, SaveFails, GoTo, Finish
<1>13. ASSUME NEW r \in Request, Delete(r)
      PROVE  TypeOK'
  BY <1>13 DEF Delete, GoTo, Finish
<1>14. ASSUME NEW r \in Request, Point(r)
      PROVE  TypeOK'
  BY <1>14 DEF Point, GoTo, Finish
<1>15. ASSUME NEW r \in Request, ClearParams(r)
      PROVE  TypeOK'
  BY <1>15 DEF ClearParams, GoTo, Finish
<1>16. ASSUME NEW r \in Request, FillParams(r)
      PROVE  TypeOK'
  BY <1>16 DEF FillParams, GoTo, Finish
<1>17. ASSUME NEW r \in Request, ClearPrints(r)
      PROVE  TypeOK'
  BY <1>17 DEF ClearPrints, GoTo, Finish
<1>18. ASSUME NEW r \in Request, FillPrints(r)
      PROVE  TypeOK'
  BY <1>18 DEF FillPrints, GoTo, Finish
<1>19. ASSUME NEW r \in Request, Define(r)
      PROVE  TypeOK'
  BY <1>19 DEF Define, GoTo, Finish
<1>20. ASSUME NEW r \in Request, FindOthers(r)
      PROVE  TypeOK'
  BY <1>20 DEF FindOthers, GoTo, Finish
<1>21. ASSUME NEW r \in Request, Supersede(r)
      PROVE  TypeOK'
  BY <1>21 DEF Supersede, GoTo, Finish
<1>22. ASSUME NEW r \in Request, Activate(r)
      PROVE  TypeOK'
  BY SMTT(30), <1>22 DEF Activate, Saves, SaveFails, GoTo, Finish
<1>23. ASSUME NEW r \in Request, Deprecate(r)
      PROVE  TypeOK'
  BY SMTT(30), <1>23 DEF Deprecate, Saves, SaveFails, GoTo, Finish
<1>24. ASSUME NEW r \in Request, FlagPointer(r)
      PROVE  TypeOK'
  BY <1>24 DEF FlagPointer, GoTo, Finish
<1>25. ASSUME NEW r \in Request, FlagRecord(r)
      PROVE  TypeOK'
  BY <1>25 DEF FlagRecord, GoTo, Finish
<1>26. ASSUME NEW r \in Request, CountDevices(r)
      PROVE  TypeOK'
  BY <1>26 DEF CountDevices, GoTo, Finish
<1>27. ASSUME NEW r \in Request, Retire(r)
      PROVE  TypeOK'
  BY SMTT(30), <1>27 DEF Retire, Saves, SaveFails, GoTo, Finish
<1>28. ASSUME NEW r \in Request, DropPrints(r)
      PROVE  TypeOK'
  BY <1>28 DEF DropPrints, GoTo, Finish
<1>29. ASSUME NEW r \in Request, DropPointer(r)
      PROVE  TypeOK'
  BY <1>29 DEF DropPointer, GoTo, Finish
<1>30. ASSUME NEW r \in Request, FlagRetired(r)
      PROVE  TypeOK'
  BY <1>30 DEF FlagRetired, GoTo, Finish
<1>31. ASSUME NEW r \in Request, PurgeParams(r)
      PROVE  TypeOK'
  BY <1>31 DEF PurgeParams, GoTo, Finish
<1>32. ASSUME NEW r \in Request, PurgePrints(r)
      PROVE  TypeOK'
  BY <1>32 DEF PurgePrints, GoTo, Finish
<1>33. ASSUME NEW r \in Request, PurgePointer(r)
      PROVE  TypeOK'
  BY <1>33 DEF PurgePointer, GoTo, Finish
<1>34. ASSUME NEW r \in Request, PurgeRecord(r)
      PROVE  TypeOK'
  BY <1>34 DEF PurgeRecord, GoTo, Finish
<1>35. ASSUME NEW r \in Request, Purge(r)
      PROVE  TypeOK'
  BY <1>35 DEF Purge, Saves, GoTo, Finish
<1>36. ASSUME NEW r \in Request, Fail(r)
      PROVE  TypeOK'
  BY <1>36 DEF Fail, GoTo, Finish
<1>37. CASE UNCHANGED vars
  BY <1>37
<1> QED
  BY <1>1, <1>2, <1>3, <1>4, <1>5, <1>6, <1>7, <1>8, <1>9, <1>10, <1>11,
     <1>12, <1>13, <1>14, <1>15, <1>16, <1>17, <1>18, <1>19, <1>20,
     <1>21, <1>22, <1>23, <1>24, <1>25, <1>26, <1>27, <1>28, <1>29,
     <1>30, <1>31, <1>32, <1>33, <1>34, <1>35, <1>36, <1>37 DEF Next,
     BeginSome, Continue

\* No step lets an unreviewed version pass.
LEMMA ReviewStep ==
  ASSUME ReviewInv, TypeOK', [Next]_vars
  PROVE  ReviewInv'
<1> USE LifecycleAssumption
    DEF docs, registry, handlers, vars, ReviewInv,
        UploadedInv, HandlersKnow, OnlyReviewedGoesLive, Reviewed, Live,
        TypeOK, State, Step, ActivateSteps, PurgeSteps, Entry, NoEntry
<1>1. ASSUME NEW d \in Doc, NEW u \in User, Upload(d, u)
      PROVE  ReviewInv'
  BY <1>1 DEF Upload
<1>2. ASSUME NEW d \in Doc, RetentionPasses(d)
      PROVE  ReviewInv'
  BY <1>2 DEF RetentionPasses
<1>3. ASSUME NEW r \in Request, NEW d \in Doc, NEW u \in User,
              BeginValidate(r, d, u)
      PROVE  ReviewInv'
  BY <1>3 DEF BeginValidate, Begin
<1>4. ASSUME NEW r \in Request, NEW d \in Doc, NEW u \in User,
              BeginApprove(r, d, u)
      PROVE  ReviewInv'
  BY <1>4 DEF BeginApprove, Begin
<1>5. ASSUME NEW r \in Request, NEW d \in Doc, NEW u \in User,
              BeginDelete(r, d, u)
      PROVE  ReviewInv'
  BY <1>5 DEF BeginDelete, Begin
<1>6. ASSUME NEW r \in Request, NEW d \in Doc, NEW u \in User,
              BeginActivate(r, d, u)
      PROVE  ReviewInv'
  BY <1>6 DEF BeginActivate, Begin
<1>7. ASSUME NEW r \in Request, NEW d \in Doc, NEW u \in User,
              BeginDeprecate(r, d, u)
      PROVE  ReviewInv'
  BY <1>7 DEF BeginDeprecate, Begin
<1>8. ASSUME NEW r \in Request, NEW d \in Doc, NEW u \in User,
              BeginRetire(r, d, u)
      PROVE  ReviewInv'
  BY <1>8 DEF BeginRetire, Begin
<1>9. ASSUME NEW r \in Request, NEW d \in Doc, NEW u \in User,
              BeginPurge(r, d, u)
      PROVE  ReviewInv'
  BY <1>9 DEF BeginPurge, Begin
<1>10. ASSUME NEW r \in Request, StartValidation(r)
      PROVE  ReviewInv'
  BY SMTT(30), <1>10 DEF StartValidation, Saves, SaveFails, GoTo, Finish
<1>11. ASSUME NEW r \in Request, EndValidation(r)
      PROVE  ReviewInv'
  BY SMTT(30), <1>11 DEF EndValidation, Saves, SaveFails, GoTo, Finish
<1>12. ASSUME NEW r \in Request, Approve(r)
      PROVE  ReviewInv'
  <2>1. UploadedInv'
    BY SMTT(30), <1>12 DEF Approve, Saves, SaveFails, GoTo, Finish
  <2>2. HandlersKnow'
    BY SMTT(30), <1>12 DEF Approve, Saves, SaveFails, GoTo, Finish
  <2>3. OnlyReviewedGoesLive'
    BY SMTT(30), <1>12 DEF Approve, Saves, SaveFails, GoTo, Finish
  <2> QED
    BY <2>1, <2>2, <2>3
<1>13. ASSUME NEW r \in Request, Delete(r)
      PROVE  ReviewInv'
  BY <1>13 DEF Delete, GoTo, Finish
<1>14. ASSUME NEW r \in Request, Point(r)
      PROVE  ReviewInv'
  BY <1>14 DEF Point, GoTo, Finish
<1>15. ASSUME NEW r \in Request, ClearParams(r)
      PROVE  ReviewInv'
  BY <1>15 DEF ClearParams, GoTo, Finish
<1>16. ASSUME NEW r \in Request, FillParams(r)
      PROVE  ReviewInv'
  BY <1>16 DEF FillParams, GoTo, Finish
<1>17. ASSUME NEW r \in Request, ClearPrints(r)
      PROVE  ReviewInv'
  BY <1>17 DEF ClearPrints, GoTo, Finish
<1>18. ASSUME NEW r \in Request, FillPrints(r)
      PROVE  ReviewInv'
  BY <1>18 DEF FillPrints, GoTo, Finish
<1>19. ASSUME NEW r \in Request, Define(r)
      PROVE  ReviewInv'
  BY <1>19 DEF Define, GoTo, Finish
<1>20. ASSUME NEW r \in Request, FindOthers(r)
      PROVE  ReviewInv'
  BY <1>20 DEF FindOthers, GoTo, Finish
<1>21. ASSUME NEW r \in Request, Supersede(r)
      PROVE  ReviewInv'
  BY SMTT(30), <1>21 DEF Supersede, GoTo, Finish
<1>22. ASSUME NEW r \in Request, Activate(r)
      PROVE  ReviewInv'
  BY SMTT(30), <1>22 DEF Activate, Saves, SaveFails, GoTo, Finish
<1>23. ASSUME NEW r \in Request, Deprecate(r)
      PROVE  ReviewInv'
  <2>1. UploadedInv'
    BY SMTT(30), <1>23 DEF Deprecate, Saves, SaveFails, GoTo, Finish
  <2>2. HandlersKnow'
    BY SMTT(30), <1>23 DEF Deprecate, Saves, SaveFails, GoTo, Finish
  <2>3. OnlyReviewedGoesLive'
    BY SMTT(30), <1>23 DEF Deprecate, Saves, SaveFails, GoTo, Finish
  <2> QED
    BY <2>1, <2>2, <2>3
<1>24. ASSUME NEW r \in Request, FlagPointer(r)
      PROVE  ReviewInv'
  BY <1>24 DEF FlagPointer, GoTo, Finish
<1>25. ASSUME NEW r \in Request, FlagRecord(r)
      PROVE  ReviewInv'
  BY <1>25 DEF FlagRecord, GoTo, Finish
<1>26. ASSUME NEW r \in Request, CountDevices(r)
      PROVE  ReviewInv'
  BY <1>26 DEF CountDevices, GoTo, Finish
<1>27. ASSUME NEW r \in Request, Retire(r)
      PROVE  ReviewInv'
  <2>1. UploadedInv'
    BY SMTT(30), <1>27 DEF Retire, Saves, SaveFails, GoTo, Finish
  <2>2. HandlersKnow'
    BY SMTT(30), <1>27 DEF Retire, Saves, SaveFails, GoTo, Finish
  <2>3. OnlyReviewedGoesLive'
    BY SMTT(30), <1>27 DEF Retire, Saves, SaveFails, GoTo, Finish
  <2> QED
    BY <2>1, <2>2, <2>3
<1>28. ASSUME NEW r \in Request, DropPrints(r)
      PROVE  ReviewInv'
  BY <1>28 DEF DropPrints, GoTo, Finish
<1>29. ASSUME NEW r \in Request, DropPointer(r)
      PROVE  ReviewInv'
  BY <1>29 DEF DropPointer, GoTo, Finish
<1>30. ASSUME NEW r \in Request, FlagRetired(r)
      PROVE  ReviewInv'
  BY <1>30 DEF FlagRetired, GoTo, Finish
<1>31. ASSUME NEW r \in Request, PurgeParams(r)
      PROVE  ReviewInv'
  BY <1>31 DEF PurgeParams, GoTo, Finish
<1>32. ASSUME NEW r \in Request, PurgePrints(r)
      PROVE  ReviewInv'
  BY <1>32 DEF PurgePrints, GoTo, Finish
<1>33. ASSUME NEW r \in Request, PurgePointer(r)
      PROVE  ReviewInv'
  BY <1>33 DEF PurgePointer, GoTo, Finish
<1>34. ASSUME NEW r \in Request, PurgeRecord(r)
      PROVE  ReviewInv'
  BY <1>34 DEF PurgeRecord, GoTo, Finish
<1>35. ASSUME NEW r \in Request, Purge(r)
      PROVE  ReviewInv'
  BY <1>35 DEF Purge, Saves, GoTo, Finish
<1>36. ASSUME NEW r \in Request, Fail(r)
      PROVE  ReviewInv'
  BY <1>36 DEF Fail, GoTo, Finish
<1>37. CASE UNCHANGED vars
  BY <1>37
<1> QED
  BY ZenonT(60),
     <1>1, <1>2, <1>3, <1>4, <1>5, <1>6, <1>7, <1>8, <1>9, <1>10, <1>11,
     <1>12, <1>13, <1>14, <1>15, <1>16, <1>17, <1>18, <1>19, <1>20,
     <1>21, <1>22, <1>23, <1>24, <1>25, <1>26, <1>27, <1>28, <1>29,
     <1>30, <1>31, <1>32, <1>33, <1>34, <1>35, <1>36, <1>37 DEF Next,
     BeginSome, Continue

\* A handler that begins has read a document in the state it expects, and if it
\* does not overlap another one it is alone.
LEMMA BeginAlone ==
  ASSUME SerialInv, TypeOK', NEW r \in Request, NEW d \in Doc, NEW u \in User,
         NEW step \in Step \ {"idle", "supersede"},
         state[d] \in Expected(step), Begin(r, d, u, step)
  PROVE  SerialInv'
<1> USE DEF SerialInv, docs, registry
<1>1. at' = [at EXCEPT ![r] = step] /\ on' = [on EXCEPT ![r] = d]
      /\ rest' = rest /\ state' = state /\ pointer' = pointer
      /\ at[r] = "idle"
  BY DEF Begin
<1>2. ASSUME overlaps' = 0
      PROVE  overlaps = 0 /\ \A s \in Request : at[s] = "idle"
  BY <1>2 DEF Begin, InFlight, TypeOK
<1>3. OneActiveVersion' /\ DeprecatedPointerIsHonest'
  BY <1>1, <1>2 DEF OneActiveVersion, DeprecatedPointerIsHonest
<1>4. Undisturbed'
  <2> SUFFICES ASSUME overlaps' = 0, NEW q \in Request, at'[q] # "idle"
               PROVE  /\ \A s \in Request : at'[s] # "idle" => s = q
                      /\ state'[on'[q]] \in Expected(at'[q])
                      /\ at'[q] = "supersede" =>
                           \A e \in Doc \ {on'[q]} :
                             state'[e] = "Active" => e \in rest'[q]
                      /\ \A e \in rest'[q] : e # on'[q] /\ state'[e] = "Active"
    BY DEF Undisturbed, Expected
  <2>1. q = r /\ at'[q] = step /\ on'[q] = d
    BY <1>1, <1>2 DEF TypeOK
  <2>2. \A s \in Request : at'[s] # "idle" => s = q
    BY <1>1, <1>2, <2>1 DEF TypeOK
  <2>3. rest[r] = {}
    BY <1>2 DEF RestIsOfSuperseding, Undisturbed
  <2> QED
    BY <1>1, <2>1, <2>2, <2>3
<1>5. RestIsOfSuperseding'
  BY <1>1 DEF RestIsOfSuperseding, TypeOK
<1> QED
  BY <1>3, <1>4, <1>5

\* Handlers that do not overlap keep their order.
LEMMA SerialStep ==
  ASSUME SerialInv, TypeOK', [Next]_vars
  PROVE  SerialInv'
<1> USE LifecycleAssumption
    DEF docs, registry, handlers, vars, SerialInv,
        Undisturbed, RestIsOfSuperseding, Expected, OneActiveVersion,
        DeprecatedPointerIsHonest,
        InFlight, TypeOK, State, Step, ActivateSteps, PurgeSteps, Entry, NoEntry
<1>1. ASSUME NEW d \in Doc, NEW u \in User, Upload(d, u)
      PROVE  SerialInv'
  BY <1>1 DEF Upload
<1>2. ASSUME NEW d \in Doc, RetentionPasses(d)
      PROVE  SerialInv'
  BY <1>2 DEF RetentionPasses
<1>3. ASSUME NEW r \in Request, NEW d \in Doc, NEW u \in User,
              BeginValidate(r, d, u)
      PROVE  SerialInv'
  BY <1>3, BeginAlone DEF BeginValidate
<1>4. ASSUME NEW r \in Request, NEW d \in Doc, NEW u \in User,
              BeginApprove(r, d, u)
      PROVE  SerialInv'
  BY <1>4, BeginAlone DEF BeginApprove
<1>5. ASSUME NEW r \in Request, NEW d \in Doc, NEW u \in User,
              BeginDelete(r, d, u)
      PROVE  SerialInv'
  BY <1>5, BeginAlone DEF BeginDelete
<1>6. ASSUME NEW r \in Request, NEW d \in Doc, NEW u \in User,
              BeginActivate(r, d, u)
      PROVE  SerialInv'
  BY <1>6, BeginAlone DEF BeginActivate
<1>7. ASSUME NEW r \in Request, NEW d \in Doc, NEW u \in User,
              BeginDeprecate(r, d, u)
      PROVE  SerialInv'
  BY <1>7, BeginAlone DEF BeginDeprecate
<1>8. ASSUME NEW r \in Request, NEW d \in Doc, NEW u \in User,
              BeginRetire(r, d, u)
      PROVE  SerialInv'
  BY <1>8, BeginAlone DEF BeginRetire
<1>9. ASSUME NEW r \in Request, NEW d \in Doc, NEW u \in User,
              BeginPurge(r, d, u)
      PROVE  SerialInv'
  BY <1>9, BeginAlone DEF BeginPurge
<1>10. ASSUME NEW r \in Request, StartValidation(r)
      PROVE  SerialInv'
  <2>1. RestIsOfSuperseding'
    BY SMTT(30), <1>10 DEF StartValidation, Saves, SaveFails, GoTo, Finish
  <2>2. OneActiveVersion' /\ DeprecatedPointerIsHonest'
    BY SMTT(30), <1>10 DEF StartValidation, Saves, SaveFails, GoTo, Finish
  <2>3. Undisturbed'
    BY SMTT(30), <1>10 DEF StartValidation, Saves, SaveFails, GoTo, Finish
  <2> QED
    BY <2>1, <2>2, <2>3
<1>11. ASSUME NEW r \in Request, EndValidation(r)
      PROVE  SerialInv'
  <2>1. RestIsOfSuperseding'
    BY SMTT(30), <1>11 DEF EndValidation, Saves, SaveFails, GoTo, Finish
  <2>2. OneActiveVersion' /\ DeprecatedPointerIsHonest'
    BY SMTT(30), <1>11 DEF EndValidation, Saves, SaveFails, GoTo, Finish
  <2>3. Undisturbed'
    BY SMTT(30), <1>11 DEF EndValidation, Saves, SaveFails, GoTo, Finish
  <2> QED
    BY <2>1, <2>2, <2>3
<1>12. ASSUME NEW r \in Request, Approve(r)
      PROVE  SerialInv'
  <2>1. RestIsOfSuperseding'
    BY SMTT(30), <1>12 DEF Approve, Saves, SaveFails, GoTo, Finish
  <2>2. OneActiveVersion' /\ DeprecatedPointerIsHonest'
    BY SMTT(30), <1>12 DEF Approve, Saves, SaveFails, GoTo, Finish
  <2>3. Undisturbed'
    BY SMTT(30), <1>12 DEF Approve, Saves, SaveFails, GoTo, Finish
  <2> QED
    BY <2>1, <2>2, <2>3
<1>13. ASSUME NEW r \in Request, Delete(r)
      PROVE  SerialInv'
  <2>1. RestIsOfSuperseding'
    BY <1>13 DEF Delete, GoTo, Finish
  <2>2. OneActiveVersion' /\ DeprecatedPointerIsHonest'
    BY SMTT(30), <1>13 DEF Delete, GoTo, Finish
  <2>3. Undisturbed'
    BY <1>13 DEF Delete, GoTo, Finish
  <2> QED
    BY <2>1, <2>2, <2>3
<1>14. ASSUME NEW r \in Request, Point(r)
      PROVE  SerialInv'
  BY <1>14 DEF Point, GoTo, Finish
<1>15. ASSUME NEW r \in Request, ClearParams(r)
      PROVE  SerialInv'
  BY <1>15 DEF ClearParams, GoTo, Finish
<1>16. ASSUME NEW r \in Request, FillParams(r)
      PROVE  SerialInv'
  BY <1>16 DEF FillParams, GoTo, Finish
<1>17. ASSUME NEW r \in Request, ClearPrints(r)
      PROVE  SerialInv'
  BY <1>17 DEF ClearPrints, GoTo, Finish
<1>18. ASSUME NEW r \in Request, FillPrints(r)
      PROVE  SerialInv'
  BY <1>18 DEF FillPrints, GoTo, Finish
<1>19. ASSUME NEW r \in Request, Define(r)
      PROVE  SerialInv'
  BY <1>19 DEF Define, GoTo, Finish
<1>20. ASSUME NEW r \in Request, FindOthers(r)
      PROVE  SerialInv'
  BY <1>20 DEF FindOthers, GoTo, Finish
<1>21. ASSUME NEW r \in Request, Supersede(r)
      PROVE  SerialInv'
  BY <1>21 DEF Supersede, GoTo, Finish
<1>22. ASSUME NEW r \in Request, Activate(r)
      PROVE  SerialInv'
  <2>1. RestIsOfSuperseding'
    BY SMTT(30), <1>22 DEF Activate, Saves, SaveFails, GoTo, Finish
  <2>2. OneActiveVersion' /\ DeprecatedPointerIsHonest'
    BY SMTT(30), <1>22 DEF Activate, Saves, SaveFails, GoTo, Finish
  <2>3. Undisturbed'
    BY SMTT(30), <1>22 DEF Activate, Saves, SaveFails, GoTo, Finish
  <2> QED
    BY <2>1, <2>2, <2>3
<1>23. ASSUME NEW r \in Request, Deprecate(r)
      PROVE  SerialInv'
  <2>1. RestIsOfSuperseding'
    BY SMTT(30), <1>23 DEF Deprecate, Saves, SaveFails, GoTo, Finish
  <2>2. OneActiveVersion' /\ DeprecatedPointerIsHonest'
    BY SMTT(30), <1>23 DEF Deprecate, Saves, SaveFails, GoTo, Finish
  <2>3. Undisturbed'
    BY SMTT(30), <1>23 DEF Deprecate, Saves, SaveFails, GoTo, Finish
  <2> QED
    BY <2>1, <2>2, <2>3
<1>24. ASSUME NEW r \in Request, FlagPointer(r)
      PROVE  SerialInv'
  BY <1>24 DEF FlagPointer, GoTo, Finish
<1>25. ASSUME NEW r \in Request, FlagRecord(r)
      PROVE  SerialInv'
  BY <1>25 DEF FlagRecord, GoTo, Finish
<1>26. ASSUME NEW r \in Request, CountDevices(r)
      PROVE  SerialInv'
  BY <1>26 DEF CountDevices, GoTo, Finish
<1>27. ASSUME NEW r \in Request, Retire(r)
      PROVE  SerialInv'
  <2>1. RestIsOfSuperseding'
    BY SMTT(30), <1>27 DEF Retire, Saves, SaveFails, GoTo, Finish
  <2>2. OneActiveVersion' /\ DeprecatedPointerIsHonest'
    BY SMTT(30), <1>27 DEF Retire, Saves, SaveFails, GoTo, Finish
  <2>3. Undisturbed'
    BY SMTT(30), <1>27 DEF Retire, Saves, SaveFails, GoTo, Finish
  <2> QED
    BY <2>1, <2>2, <2>3
<1>28. ASSUME NEW r \in Request, DropPrints(r)
      PROVE  SerialInv'
  BY <1>28 DEF DropPrints, GoTo, Finish
<1>29. ASSUME NEW r \in Request, DropPointer(r)
      PROVE  SerialInv'
  BY <1>29 DEF DropPointer, GoTo, Finish
<1>30. ASSUME NEW r \in Request, FlagRetired(r)
      PROVE  SerialInv'
  BY <1>30 DEF FlagRetired, GoTo, Finish
<1>31. ASSUME NEW r \in Request, PurgeParams(r)
      PROVE  SerialInv'
  BY <1>31 DEF PurgeParams, GoTo, Finish
<1>32. ASSUME NEW r \in Request, PurgePrints(r)
      PROVE  SerialInv'
  BY <1>32 DEF PurgePrints, GoTo, Finish
<1>33. ASSUME NEW r \in Request, PurgePointer(r)
      PROVE  SerialInv'
  BY <1>33 DEF PurgePointer, GoTo, Finish
<1>34. ASSUME NEW r \in Request, PurgeRecord(r)
      PROVE  SerialInv'
  BY <1>34 DEF PurgeRecord, GoTo, Finish
<1>35. ASSUME NEW r \in Request, Purge(r)
      PROVE  SerialInv'
  <2>1. RestIsOfSuperseding'
    BY <1>35 DEF Purge, Saves, GoTo, Finish
  <2>2. OneActiveVersion' /\ DeprecatedPointerIsHonest'
    BY <1>35 DEF Purge, Saves, GoTo, Finish
  <2>3. Undisturbed'
    BY <1>35 DEF Purge, Saves, GoTo, Finish
  <2> QED
    BY <2>1, <2>2, <2>3
<1>36. ASSUME NEW r \in Request, Fail(r)
      PROVE  SerialInv'
  BY <1>36 DEF Fail, GoTo, Finish
<1>37. CASE UNCHANGED vars
  BY <1>37
<1> QED
  BY <1>1, <1>2, <1>3, <1>4, <1>5, <1>6, <1>7, <1>8, <1>9, <1>10, <1>11,
     <1>12, <1>13, <1>14, <1>15, <1>16, <1>17, <1>18, <1>19, <1>20,
     <1>21, <1>22, <1>23, <1>24, <1>25, <1>26, <1>27, <1>28, <1>29,
     <1>30, <1>31, <1>32, <1>33, <1>34, <1>35, <1>36, <1>37 DEF Next,
     BeginSome, Continue

\* No step brings back what a purge removed.
LEMMA PurgeStep ==
  ASSUME PurgeInv, TypeOK', [Next]_vars
  PROVE  PurgeInv'
<1> USE LifecycleAssumption
    DEF docs, registry, handlers, vars, PurgeInv,
        RestIsOfSuperseding, AgedInv, PurgedSoFar, PurgedLeavesNothing,
        InFlight,
        TypeOK, State, Step, ActivateSteps, PurgeSteps, Entry, NoEntry
<1>1. ASSUME NEW d \in Doc, NEW u \in User, Upload(d, u)
      PROVE  PurgeInv'
  BY <1>1 DEF Upload
<1>2. ASSUME NEW d \in Doc, RetentionPasses(d)
      PROVE  PurgeInv'
  BY <1>2 DEF RetentionPasses
<1>3. ASSUME NEW r \in Request, NEW d \in Doc, NEW u \in User,
              BeginValidate(r, d, u)
      PROVE  PurgeInv'
  BY <1>3 DEF BeginValidate, Begin
<1>4. ASSUME NEW r \in Request, NEW d \in Doc, NEW u \in User,
              BeginApprove(r, d, u)
      PROVE  PurgeInv'
  BY <1>4 DEF BeginApprove, Begin
<1>5. ASSUME NEW r \in Request, NEW d \in Doc, NEW u \in User,
              BeginDelete(r, d, u)
      PROVE  PurgeInv'
  BY <1>5 DEF BeginDelete, Begin
<1>6. ASSUME NEW r \in Request, NEW d \in Doc, NEW u \in User,
              BeginActivate(r, d, u)
      PROVE  PurgeInv'
  BY <1>6 DEF BeginActivate, Begin
<1>7. ASSUME NEW r \in Request, NEW d \in Doc, NEW u \in User,
              BeginDeprecate(r, d, u)
      PROVE  PurgeInv'
  BY <1>7 DEF BeginDeprecate, Begin
<1>8. ASSUME NEW r \in Request, NEW d \in Doc, NEW u \in User,
              BeginRetire(r, d, u)
      PROVE  PurgeInv'
  BY <1>8 DEF BeginRetire, Begin
<1>9. ASSUME NEW r \in Request, NEW d \in Doc, NEW u \in User,
              BeginPurge(r, d, u)
      PROVE  PurgeInv'
  BY <1>9 DEF BeginPurge, Begin
<1>10. ASSUME NEW r \in Request, StartValidation(r)
      PROVE  PurgeInv'
  <2>1. CASE SaveFails(r)
    BY <2>1, <1>10 DEF StartValidation, SaveFails, Finish
  <2>2. CASE ~SaveFails(r)
    BY <2>2, <1>10 DEF StartValidation, Saves, GoTo, Finish
  <2> QED
    BY <2>1, <2>2
<1>11. ASSUME NEW r \in Request, EndValidation(r)
      PROVE  PurgeInv'
  <2>1. CASE SaveFails(r)
    BY <2>1, <1>11 DEF EndValidation, SaveFails, Finish
  <2>2. CASE ~SaveFails(r)
    BY SMTT(30), <2>2, <1>11 DEF EndValidation, Saves, GoTo, Finish
  <2> QED
    BY <2>1, <2>2
<1>12. ASSUME NEW r \in Request, Approve(r)
      PROVE  PurgeInv'
  <2>1. CASE SaveFails(r)
    BY <2>1, <1>12 DEF Approve, SaveFails, Finish
  <2>2. CASE ~SaveFails(r)
    BY SMTT(30), <2>2, <1>12 DEF Approve, Saves, GoTo, Finish
  <2> QED
    BY <2>1, <2>2
<1>13. ASSUME NEW r \in Request, Delete(r)
      PROVE  PurgeInv'
  BY <1>13 DEF Delete, GoTo, Finish
<1>14. ASSUME NEW r \in Request, Point(r)
      PROVE  PurgeInv'
  BY <1>14 DEF Point, GoTo, Finish
<1>15. ASSUME NEW r \in Request, ClearParams(r)
      PROVE  PurgeInv'
  BY <1>15 DEF ClearParams, GoTo, Finish
<1>16. ASSUME NEW r \in Request, FillParams(r)
      PROVE  PurgeInv'
  BY <1>16 DEF FillParams, GoTo, Finish
<1>17. ASSUME NEW r \in Request, ClearPrints(r)
      PROVE  PurgeInv'
  BY <1>17 DEF ClearPrints, GoTo, Finish
<1>18. ASSUME NEW r \in Request, FillPrints(r)
      PROVE  PurgeInv'
  BY <1>18 DEF FillPrints, GoTo, Finish
<1>19. ASSUME NEW r \in Request, Define(r)
      PROVE  PurgeInv'
  BY <1>19 DEF Define, GoTo, Finish
<1>20. ASSUME NEW r \in Request, FindOthers(r)
      PROVE  PurgeInv'
  BY <1>20 DEF FindOthers, GoTo, Finish
<1>21. ASSUME NEW r \in Request, Supersede(r)
      PROVE  PurgeInv'
  BY <1>21 DEF Supersede, GoTo, Finish
<1>22. ASSUME NEW r \in Request, Activate(r)
      PROVE  PurgeInv'
  <2>1. CASE SaveFails(r)
    BY <2>1, <1>22 DEF Activate, SaveFails, Finish
  <2>2. CASE ~SaveFails(r)
    BY SMTT(30), <2>2, <1>22 DEF Activate, Saves, GoTo, Finish
  <2> QED
    BY <2>1, <2>2
<1>23. ASSUME NEW r \in Request, Deprecate(r)
      PROVE  PurgeInv'
  <2>1. CASE SaveFails(r)
    BY <2>1, <1>23 DEF Deprecate, SaveFails, Finish
  <2>2. CASE ~SaveFails(r)
    BY <2>2, <1>23 DEF Deprecate, Saves, GoTo, Finish
  <2> QED
    BY <2>1, <2>2
<1>24. ASSUME NEW r \in Request, FlagPointer(r)
      PROVE  PurgeInv'
  BY <1>24 DEF FlagPointer, GoTo, Finish
<1>25. ASSUME NEW r \in Request, FlagRecord(r)
      PROVE  PurgeInv'
  BY <1>25 DEF FlagRecord, GoTo, Finish
<1>26. ASSUME NEW r \in Request, CountDevices(r)
      PROVE  PurgeInv'
  BY <1>26 DEF CountDevices, GoTo, Finish
<1>27. ASSUME NEW r \in Request, Retire(r)
      PROVE  PurgeInv'
  <2>1. CASE SaveFails(r)
    BY <2>1, <1>27 DEF Retire, SaveFails, Finish
  <2>2. CASE ~SaveFails(r)
    BY <2>2, <1>27 DEF Retire, Saves, GoTo, Finish
  <2> QED
    BY <2>1, <2>2
<1>28. ASSUME NEW r \in Request, DropPrints(r)
      PROVE  PurgeInv'
  BY <1>28 DEF DropPrints, GoTo, Finish
<1>29. ASSUME NEW r \in Request, DropPointer(r)
      PROVE  PurgeInv'
  BY <1>29 DEF DropPointer, GoTo, Finish
<1>30. ASSUME NEW r \in Request, FlagRetired(r)
      PROVE  PurgeInv'
  BY <1>30 DEF FlagRetired, GoTo, Finish
<1>31. ASSUME NEW r \in Request, PurgeParams(r)
      PROVE  PurgeInv'
  BY <1>31 DEF PurgeParams, GoTo, Finish
<1>32. ASSUME NEW r \in Request, PurgePrints(r)
      PROVE  PurgeInv'
  BY <1>32 DEF PurgePrints, GoTo, Finish
<1>33. ASSUME NEW r \in Request, PurgePointer(r)
      PROVE  PurgeInv'
  BY <1>33 DEF PurgePointer, GoTo, Finish
<1>34. ASSUME NEW r \in Request, PurgeRecord(r)
      PROVE  PurgeInv'
  BY <1>34 DEF PurgeRecord, GoTo, Finish
<1>35. ASSUME NEW r \in Request, Purge(r)
      PROVE  PurgeInv'
  BY <1>35 DEF Purge, Saves, GoTo, Finish
<1>36. ASSUME NEW r \in Request, Fail(r)
      PROVE  PurgeInv'
  BY <1>36 DEF Fail, GoTo, Finish
<1>37. CASE UNCHANGED vars
  BY <1>37
<1> QED
  BY ZenonT(60),
     <1>1, <1>2, <1>3, <1>4, <1>5, <1>6, <1>7, <1>8, <1>9, <1>10, <1>11,
     <1>12, <1>13, <1>14, <1>15, <1>16, <1>17, <1>18, <1>19, <1>20,
     <1>21, <1>22, <1>23, <1>24, <1>25, <1>26, <1>27, <1>28, <1>29,
     <1>30, <1>31, <1>32, <1>33, <1>34, <1>35, <1>36, <1>37 DEF Next,
     BeginSome, Continue

-----------------------------------------------------------------------------

\* Type correctness of the documents, the registry and the handlers.
THEOREM TypeCorrect == Spec => []TypeOK
<1>1. Init => TypeOK
  BY LifecycleAssumption DEF Init, TypeOK, State, Step, Entry, NoEntry
<1>2. TypeOK /\ [Next]_vars => TypeOK'
  BY TypeStep
<1> QED
  BY <1>1, <1>2, PTL DEF Spec

\* What handlers know about the review of their documents is true for good.
LEMMA Reviewing == Spec => []ReviewInv
<1>1. Init => ReviewInv
  BY LifecycleAssumption
     DEF Init, ReviewInv, TypeOK, State, Step, Entry, NoEntry, UploadedInv,
         HandlersKnow, OnlyReviewedGoesLive, ActivateSteps, PurgeSteps, Live
<1>2. ReviewInv /\ [Next]_vars => ReviewInv'
  BY ReviewStep, TypeStep DEF ReviewInv
<1> QED
  BY <1>1, <1>2, PTL DEF Spec

\* Nothing goes live or into the registry that only its uploader has seen:
\* what a handler read may be stale, an approval is never taken back.
THEOREM ReviewedBeforeLive == Spec => []OnlyReviewedGoesLive
<1>1. ReviewInv => OnlyReviewedGoesLive
  BY DEF ReviewInv
<1> QED
  BY <1>1, Reviewing, PTL

\* While no two handlers overlap they find what they left.
LEMMA Serially == Spec => []SerialInv
<1>1. Init => SerialInv
  BY LifecycleAssumption
     DEF Init, SerialInv, TypeOK, State, Step, Entry, NoEntry, Undisturbed,
         RestIsOfSuperseding,
         OneActiveVersion, DeprecatedPointerIsHonest
<1>2. SerialInv /\ [Next]_vars => SerialInv'
  BY SerialStep, TypeStep DEF SerialInv
<1> QED
  BY <1>1, <1>2, PTL DEF Spec

\* At most one version is Active, whichever activation, deprecation or
\* retirement died half way, as long as no two handlers have overlapped.
THEOREM OneActiveAtATime == Spec => []OneActiveVersion
<1>1. SerialInv => OneActiveVersion
  BY DEF SerialInv
<1> QED
  BY <1>1, Serially, PTL

\* The pointer is only marked deprecated for the version it names, although
\* the versions of a product share it, as long as no two handlers have
\* overlapped.
THEOREM PointerIsHonest == Spec => []DeprecatedPointerIsHonest
<1>1. SerialInv => DeprecatedPointerIsHonest
  BY DEF SerialInv
<1> QED
  BY <1>1, Serially, PTL

\* What is told apart by the progress of a purge holds in every state.
LEMMA Purging == Spec => []PurgeInv
<1>1. Init => PurgeInv
  BY LifecycleAssumption
     DEF Init, PurgeInv, TypeOK, State, Step, Entry, NoEntry, AgedInv,
         RestIsOfSuperseding,
         PurgedSoFar, PurgedLeavesNothing, PurgeSteps
<1>2. PurgeInv /\ [Next]_vars => PurgeInv'
  BY PurgeStep, TypeStep DEF PurgeInv
<1> QED
  BY <1>1, <1>2, PTL DEF Spec

\* Of a purged version the registry keeps nothing and gets nothing back.
THEOREM PurgeIsComplete == Spec => []PurgedLeavesNothing
<1>1. PurgeInv => PurgedLeavesNothing
  BY DEF PurgeInv
<1> QED
  BY <1>1, Purging, PTL

-----------------------------------------------------------------------------
(* What is never undone *)

\* Whoever changes the state of a document has it in hand, as the document of
\* his request or as one to supersede, unless it is new; and whoever purges only
\* ever makes it Purged.
LEMMA WhoSaves ==
  ASSUME TypeOK, [Next]_vars, NEW d \in Doc
  PROVE  \/ state'[d] = state[d]
         \/ state[d] = "Absent"
         \/ state'[d] = "Purged"
         \/ \E r \in Request :
              at[r] \notin PurgeSteps \cup {"idle"} /\ on[r] = d
         \/ \E r \in Request : d \in rest[r]
<1> DEFINE Kept == state'[d] = state[d]
           Mine(r) == at[r] \notin PurgeSteps \cup {"idle"} /\ on[r] = d
<1>1. ASSUME NEW c \in Doc, NEW u \in User, Upload(c, u)
      PROVE  Kept \/ state[d] = "Absent"
  BY <1>1 DEF Upload, TypeOK
<1>2. ASSUME NEW r \in Request,
             StartValidation(r) \/ EndValidation(r) \/ Approve(r)
      PROVE  Kept \/ Mine(r)
  BY <1>2 DEF StartValidation, EndValidation, Approve, SaveFails, Saves, docs,
              TypeOK, PurgeSteps
<1>3. ASSUME NEW r \in Request, Delete(r) \/ Activate(r)
      PROVE  Kept \/ Mine(r)
  BY <1>3 DEF Delete, Activate, SaveFails, Saves, docs, TypeOK, PurgeSteps
<1>4. ASSUME NEW r \in Request, Deprecate(r) \/ Retire(r)
      PROVE  Kept \/ Mine(r)
  BY <1>4 DEF Deprecate, Retire, SaveFails, Saves, docs, TypeOK, PurgeSteps
<1>5. ASSUME NEW r \in Request, Purge(r)
      PROVE  Kept \/ state'[d] = "Purged"
  BY <1>5 DEF Purge, Saves, TypeOK
<1>6. ASSUME NEW r \in Request, Supersede(r)
      PROVE  Kept \/ d \in rest[r]
  BY <1>6 DEF Supersede, TypeOK
<1>7. ASSUME state' = state PROVE Kept
  BY <1>7
<1> HIDE DEF Kept, Mine
<1>8. \/ Kept \/ state[d] = "Absent" \/ state'[d] = "Purged"
      \/ \E r \in Request : Mine(r)
      \/ \E r \in Request : d \in rest[r]
  BY <1>1, <1>2, <1>3, <1>4, <1>5, <1>6, <1>7
     DEF Next, vars, docs, RetentionPasses, BeginSome, BeginValidate,
         BeginApprove, BeginDelete, BeginActivate, BeginDeprecate, BeginRetire,
         BeginPurge, Begin, Continue, Point, ClearParams, FillParams,
         ClearPrints, FillPrints, Define, FindOthers, FlagPointer, FlagRecord,
         CountDevices, DropPrints, DropPointer, FlagRetired, PurgeParams,
         PurgePrints, PurgePointer, PurgeRecord, Fail
<1> QED
  BY <1>8 DEF Kept, Mine

\* The uploader of a document is set at its upload and its approver when it is
\* approved, and by nothing else.
LEMMA WhoSigns ==
  ASSUME [Next]_vars
  PROVE  \/ UNCHANGED <<uploader, approver>>
         \/ \E d \in Doc, u \in User : Upload(d, u)
         \/ \E r \in Request : Approve(r)
<1>1. ASSUME NEW r \in Request, Continue(r), ~Approve(r)
      PROVE  UNCHANGED <<uploader, approver>>
  BY <1>1
     DEF docs, Continue, SaveFails, StartValidation, EndValidation, Delete,
         Point, ClearParams, FillParams, ClearPrints, FillPrints, Define,
         FindOthers, Supersede, Activate, Deprecate, FlagPointer, FlagRecord,
         CountDevices, Retire, DropPrints, DropPointer, FlagRetired,
         PurgeParams, PurgePrints, PurgePointer, PurgeRecord, Purge, Fail
<1> QED
  BY <1>1
     DEF Next, vars, docs, RetentionPasses, BeginSome, BeginValidate,
         BeginApprove, BeginDelete, BeginActivate, BeginDeprecate, BeginRetire,
         BeginPurge, Begin

\* A purged version stays purged, however long ago some handler read it: nothing
\* that saves a whole document brings it back to life.
THEOREM PurgedIsFinal ==
  Spec => [][\A d \in Doc : state[d] = "Purged" => state'[d] = "Purged"]_vars
<1>1. PurgeInv /\ [Next]_vars
        => [\A d \in Doc : state[d] = "Purged" => state'[d] = "Purged"]_vars
  <2> SUFFICES ASSUME PurgeInv, [Next]_vars, NEW d \in Doc, state[d] = "Purged"
               PROVE  state'[d] = "Purged"
    OBVIOUS
  <2>1. d \in aged
    BY DEF PurgeInv, AgedInv
  <2>2. \A r \in Request : d \notin rest[r]
    BY <2>1 DEF PurgeInv, AgedInv
  <2>3. ASSUME NEW r \in Request, at[r] # "idle", on[r] = d
        PROVE  at[r] \in PurgeSteps
    BY <2>1, <2>3 DEF PurgeInv, AgedInv
  <2>4. TypeOK
    BY DEF PurgeInv
  <2>5. ASSUME NEW r \in Request, at[r] \notin PurgeSteps \cup {"idle"}, on[r] = d
        PROVE  FALSE
    BY <2>3, <2>5
  <2> QED
    BY <2>2, <2>4, <2>5, WhoSaves
<1> QED
  BY <1>1, Purging, PTL DEF Spec

\* An approval by a second person stands, whatever is uploaded, deleted or
\* approved again afterwards.
THEOREM ApprovalStands ==
  Spec => [][\A d \in Doc : Reviewed(d) => Reviewed(d)']_vars
<1>1. ReviewInv /\ [Next]_vars
        => [\A d \in Doc : Reviewed(d) => Reviewed(d)']_vars
  <2> SUFFICES ASSUME ReviewInv, [Next]_vars, NEW d \in Doc, Reviewed(d)
               PROVE  Reviewed(d)'
    OBVIOUS
  <2>1. ASSUME UNCHANGED <<uploader, approver>> PROVE Reviewed(d)'
    BY <2>1 DEF Reviewed
  <2>2. ASSUME NEW c \in Doc, NEW u \in User, Upload(c, u) PROVE Reviewed(d)'
    <3>1. c # d
      BY <2>2 DEF Upload, ReviewInv, UploadedInv, Reviewed
    <3> QED
      BY <2>2, <3>1 DEF Upload, Reviewed, ReviewInv, TypeOK
  <2>3. ASSUME NEW r \in Request, Approve(r) PROVE Reviewed(d)'
    <3>1. /\ uploader' = uploader
          /\ approver' \in {approver, [approver EXCEPT ![on[r]] = by[r]]}
      BY <2>3 DEF Approve, SaveFails, docs
    <3>2. by[r] \in User /\ by[r] # uploader[on[r]]
      BY <2>3 DEF Approve, ReviewInv, TypeOK, HandlersKnow
    <3> QED
      BY <3>1, <3>2, LifecycleAssumption DEF Reviewed, ReviewInv, TypeOK
  <2> QED
    BY <2>1, <2>2, <2>3, WhoSigns
<1> QED
  BY <1>1, Reviewing, PTL DEF Spec
=============================================================================
