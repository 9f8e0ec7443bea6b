------------------------- MODULE Provisioning_proofs -------------------------
(***************************************************************************)
(* Theorems about Provisioning, for any number of hosts, labels, units and *)
(* addresses, with any operator removing devices in between.               *)
(***************************************************************************)
EXTENDS Provisioning, TLAPS

\* What a call that nobody overlaps knows of the inventory: its unit has no
\* active record but the one it is about to write, and once it has settled on
\* that one it is no other unit's.
Settled(t) ==
  serial[t] # None =>
    /\ at[t] \in Step \ {"idle", "prior", "unit"} =>
         \A k \in Key : Active(k) /\ rec[k].serial = serial[t] => k = key[t]
    /\ at[t] \in Step \ {"idle", "prior", "unit", "holder", "clash"} =>
         ~OfOtherUnit(key[t], serial[t])
    /\ at[t] = "clash" /\ Active(key[t]) => rec[key[t]].serial # serial[t]

Alone ==
  ~overlapped =>
    /\ \A s, t \in Thread : at[s] # "idle" /\ at[t] # "idle" => s = t
    /\ \A t \in Thread : Settled(t)

Inv == TypeOK /\ Alone /\ OneRecordPerUnit

-----------------------------------------------------------------------------
\* What a call writes is a record, with its own serial number.
LEMMA DocumentType ==
  ASSUME TypeOK, NEW t \in Thread
  PROVE  /\ Document(t) \in Record
         /\ Document(t).serial = serial[t]
         /\ Document(t).gone = FALSE
BY DEF Document, Record, TypeOK

\* What is there is a record.
LEMMA PresentType ==
  ASSUME TypeOK, NEW k \in Key, Present(k)
  PROVE  rec[k] \in Record
BY DEF TypeOK, Present

\* Every step keeps the types.
LEMMA TypeStep ==
  ASSUME TypeOK, [Next]_vars
  PROVE  TypeOK'
<1> USE ProvisioningAssumption DEF TypeOK, Step, host, vars
<1>1. ASSUME NEW t \in Thread, NEW k \in Label, NEW s \in Reported,
              NEW i \in Ip, NEW n \in Name, Begin(t, k, s, i, n)
      PROVE  TypeOK'
  BY <1>1 DEF Begin, Goto
<1>2. ASSUME NEW t \in Thread, ReadPrior(t)
      PROVE  TypeOK'
  <2>1. \A k \in Key : Present(k) => rec[k].serial \in Reported
    BY PresentType DEF Record
  <2> QED
    BY <1>2, <2>1 DEF ReadPrior, Goto
<1>3. ASSUME NEW t \in Thread, FindUnit(t)
      PROVE  TypeOK'
  <2>1. SameUnit(t) \subseteq Key
    BY DEF SameUnit
  <2> QED
    BY <1>3, <2>1 DEF FindUnit, Goto, Reported
<1>4. ASSUME NEW t \in Thread, Merge(t)
      PROVE  TypeOK'
  BY <1>4, DocumentType DEF Merge, Goto
<1>5. ASSUME NEW t \in Thread, FindHolder(t)
      PROVE  TypeOK'
  BY <1>5 DEF FindHolder, Goto
<1>6. ASSUME NEW t \in Thread, FindClash(t)
      PROVE  TypeOK'
  <2>1. Rekey[key[t]][serial[t]] \in Key
    BY <1>6, ProvisioningAssumption DEF FindClash
  <2>2. CASE Goto(t, "idle") /\ key' = key
    BY <1>6, <2>2 DEF FindClash, Goto
  <2>3. CASE /\ Goto(t, "address")
             /\ key' = [key EXCEPT ![t] = Rekey[key[t]][serial[t]]]
    BY <1>6, <2>1, <2>3 DEF FindClash, Goto
  <2> QED
    BY <1>6, <2>2, <2>3 DEF FindClash
<1>7. ASSUME NEW t \in Thread, FindAtAddress(t)
      PROVE  TypeOK'
  BY <1>7 DEF FindAtAddress, Goto
<1>8. ASSUME NEW t \in Thread, ClearGone(t)
      PROVE  TypeOK'
  BY <1>8 DEF ClearGone, Goto
<1>9. ASSUME NEW t \in Thread, ClearStale(t)
      PROVE  TypeOK'
  BY <1>9 DEF ClearStale, Goto
<1>10. ASSUME NEW t \in Thread, Put(t)
      PROVE  TypeOK'
  BY <1>10, DocumentType DEF Put, Goto
<1>11. ASSUME NEW t \in Thread, CallFails(t)
      PROVE  TypeOK'
  BY <1>11 DEF CallFails, Goto
<1>12. ASSUME NEW k \in Key, Remove(k)
      PROVE  TypeOK'
  <2>1. [rec[k] EXCEPT !.gone = TRUE] \in Record
    BY <1>12, PresentType DEF Remove, Active, Record
  <2> QED
    BY <1>12, <2>1 DEF Remove
<1>13. CASE UNCHANGED vars
  BY <1>13
<1> QED
  BY <1>1, <1>2, <1>3, <1>4, <1>5, <1>6, <1>7, <1>8, <1>9, <1>10, <1>11,
     <1>12, <1>13 DEF Next

\* A call that nobody overlaps stays right about the inventory.
LEMMA AloneStep ==
  ASSUME Inv, TypeOK', [Next]_vars
  PROVE  (Alone /\ OneRecordPerUnit)'
<1> USE ProvisioningAssumption DEF Inv, TypeOK, Step, Reported, host, vars
<1>0. CASE UNCHANGED vars
  BY <1>0 DEF Alone, Settled, OneRecordPerUnit, OfOtherUnit, Active, Present
<1>1. ASSUME NEW t \in Thread, NEW k \in Label, NEW s \in Reported,
              NEW i \in Ip, NEW n \in Name, Begin(t, k, s, i, n)
      PROVE  (Alone /\ OneRecordPerUnit)'
  <2>0. /\ UNCHANGED rec /\ at[t] = "idle"
        /\ at' = [at EXCEPT ![t] = "prior"]
        /\ ~overlapped' => ~overlapped /\ \A u \in Thread : at[u] = "idle"
    BY <1>1 DEF Begin, Goto
  <2>1. OneRecordPerUnit'
    BY <2>0 DEF OneRecordPerUnit, Active, Present
  <2>2. Alone'
    BY <2>0 DEF Alone, Settled
  <2> QED
    BY <2>1, <2>2
<1>2. ASSUME NEW t \in Thread, ReadPrior(t)
      PROVE  (Alone /\ OneRecordPerUnit)'
  <2>1. OneRecordPerUnit'
    BY <1>2 DEF ReadPrior, OneRecordPerUnit, Active, Present
  <2>2. Alone'
    BY <1>2 DEF ReadPrior, Goto, Alone, Settled, OfOtherUnit, Active, Present
  <2> QED
    BY <2>1, <2>2
<1>3. ASSUME NEW t \in Thread, FindUnit(t)
      PROVE  (Alone /\ OneRecordPerUnit)'
  <2>0. /\ UNCHANGED <<rec, serial, ip, name, overlapped>>
        /\ at[t] = "unit"
    BY <1>3 DEF FindUnit
  <2>1. OneRecordPerUnit'
    BY <2>0 DEF OneRecordPerUnit, Active, Present
  <2>2. ASSUME ~overlapped
        PROVE  Alone'
    <3>0. \A j \in Key : Active(j)' <=> Active(j)
      BY <2>0 DEF Active, Present
    <3>1. CASE serial[t] = None /\ at' = [at EXCEPT ![t] = "address"]
      BY <2>0, <2>2, <3>1, <1>3 DEF FindUnit, Alone, Settled
    <3>2. CASE /\ SameUnit(t) = {} /\ key' = key
               /\ at' = [at EXCEPT ![t] = "holder"]
      BY <2>0, <2>2, <3>0, <3>2 DEF Alone, Settled, SameUnit, OfOtherUnit
    <3>3. CASE /\ at' = [at EXCEPT ![t] = "merge"]
               /\ \E k \in SameUnit(t) : key' = [key EXCEPT ![t] = k]
      <4>1. PICK k \in Key : /\ key' = [key EXCEPT ![t] = k]
                            /\ Active(k) /\ rec[k].serial = serial[t]
        BY <3>3 DEF SameUnit
      <4>2. Settled(t)'
        BY <2>0, <2>2, <3>0, <3>3, <4>1
           DEF Settled, OneRecordPerUnit, OfOtherUnit
      <4>3. \A u \in Thread : u # t => at[u] = "idle" /\ at'[u] = "idle"
        BY <2>0, <2>2, <3>3 DEF Alone
      <4> QED
        BY <4>2, <4>3 DEF Alone, Settled
    <3> QED
      BY <1>3, <3>1, <3>2, <3>3 DEF FindUnit, Goto
  <2> QED
    BY <2>0, <2>1, <2>2 DEF Alone
<1>4. ASSUME NEW t \in Thread, Merge(t)
      PROVE  (Alone /\ OneRecordPerUnit)'
  <2>0. /\ rec' = [rec EXCEPT ![key[t]] = Document(t)]
        /\ at' = [at EXCEPT ![t] = "idle"] /\ at[t] = "merge"
        /\ UNCHANGED <<key, serial, ip, name, overlapped>>
    BY <1>4 DEF Merge, Goto
  <2>1. OneRecordPerUnit'
    <3> SUFFICES ASSUME ~overlapped, NEW j \in Key, NEW k \in Key, j # k,
                        Active(j)', Active(k)', rec'[j].serial = rec'[k].serial,
                        rec'[k].serial # None
                 PROVE  FALSE
      BY <2>0 DEF OneRecordPerUnit
    <3>1. CASE j # key[t] /\ k # key[t]
      BY <2>0, <3>1 DEF OneRecordPerUnit, Active, Present
    <3>2. CASE j = key[t]
      <4>1. rec'[j] = Document(t) /\ rec'[k] = rec[k] /\ Active(k)
        BY <2>0, <3>2 DEF Active, Present
      <4>2. rec[k].serial = serial[t] /\ serial[t] # None
        BY <4>1, DocumentType
      <4>3. Settled(t)
        BY <2>0 DEF Alone
      <4> QED
        BY <2>0, <3>2, <4>1, <4>2, <4>3 DEF Settled
    <3>3. CASE k = key[t]
      <4>1. rec'[k] = Document(t) /\ rec'[j] = rec[j] /\ Active(j)
        BY <2>0, <3>3 DEF Active, Present
      <4>2. rec[j].serial = serial[t] /\ serial[t] # None
        BY <4>1, DocumentType
      <4>3. Settled(t)
        BY <2>0 DEF Alone
      <4> QED
        BY <2>0, <3>3, <4>1, <4>2, <4>3 DEF Settled
    <3> QED
      BY <3>1, <3>2, <3>3
  <2>2. Alone'
    BY <2>0 DEF Alone, Settled
  <2> QED
    BY <2>1, <2>2
<1>5. ASSUME NEW t \in Thread, FindHolder(t)
      PROVE  (Alone /\ OneRecordPerUnit)'
  <2>1. OneRecordPerUnit'
    BY <1>5 DEF FindHolder, OneRecordPerUnit, Active, Present
  <2>2. Alone'
    BY <1>5 DEF FindHolder, Goto, Alone, Settled, OfOtherUnit, Active, Present
  <2> QED
    BY <2>1, <2>2
<1>6. ASSUME NEW t \in Thread, FindClash(t)
      PROVE  (Alone /\ OneRecordPerUnit)'
  <2> DEFINE k == Rekey[key[t]][serial[t]]
  <2>0. /\ at[t] = "clash" /\ serial[t] \in Serial /\ k \in Key
        /\ UNCHANGED <<rec, serial, ip, name, overlapped>>
    BY <1>6 DEF FindClash
  <2>1. \/ at' = [at EXCEPT ![t] = "idle"] /\ key' = key
        \/ /\ at' = [at EXCEPT ![t] = "address"]
           /\ key' = [key EXCEPT ![t] = k]
           /\ Active(k) => rec[k].serial = serial[t]
    BY <1>6 DEF FindClash, Goto
  <2> HIDE DEF k
  <2>2. OneRecordPerUnit'
    BY <2>0 DEF OneRecordPerUnit, Active, Present
  <2>3. Alone'
    <3> SUFFICES ASSUME ~overlapped
                 PROVE  Alone'
      BY <2>0 DEF Alone
    <3>0. \A j \in Key : Active(j)' <=> Active(j)
      BY <2>0 DEF Active, Present
    <3>1. \A u \in Thread : u # t => at[u] = "idle" /\ at'[u] = "idle"
      BY <2>0, <2>1 DEF Alone
    <3>2. CASE at' = [at EXCEPT ![t] = "idle"]
      BY <2>0, <3>1, <3>2 DEF Alone, Settled
    <3>3. CASE /\ at' = [at EXCEPT ![t] = "address"]
               /\ key' = [key EXCEPT ![t] = k]
               /\ Active(k) => rec[k].serial = serial[t]
      <4>1. \A j \in Key : Active(j) => rec[j].serial # serial[t]
        BY <2>0, ProvisioningAssumption DEF Alone, Settled
      <4>2. Settled(t)'
        BY <2>0, <3>0, <3>3, <4>1 DEF Settled, OfOtherUnit
      <4>3. \A u \in Thread : u # t => Settled(u)'
        BY <3>1 DEF Settled
      <4> QED
        BY <3>1, <4>2, <4>3 DEF Alone
    <3> QED
      BY <2>1, <3>2, <3>3
  <2> QED
    BY <2>2, <2>3
<1>7. ASSUME NEW t \in Thread, FindAtAddress(t)
      PROVE  (Alone /\ OneRecordPerUnit)'
  <2>0. /\ UNCHANGED <<rec, key, serial, ip, name, overlapped>>
        /\ at[t] = "address"
        /\ \E step \in {"put", "clearGone", "idle", "clearStale"} :
             at' = [at EXCEPT ![t] = step]
    BY <1>7 DEF FindAtAddress, Goto
  <2>1. OneRecordPerUnit'
    BY <2>0 DEF OneRecordPerUnit, Active, Present
  <2>2. Alone'
    BY <2>0 DEF Alone, Settled, OfOtherUnit, Active, Present
  <2> QED
    BY <2>1, <2>2
<1>8. ASSUME NEW t \in Thread, ClearGone(t)
      PROVE  (Alone /\ OneRecordPerUnit)'
  <2>0. /\ \A k \in Key : rec'[k] = rec[k] \/ rec'[k] = Absent
        /\ at' = [at EXCEPT ![t] = "put"] /\ at[t] = "clearGone"
        /\ UNCHANGED <<key, serial, ip, name, overlapped>>
    BY <1>8 DEF ClearGone, Goto
  <2>1. \A k \in Key : Active(k)' => Active(k) /\ rec'[k] = rec[k]
    BY <2>0 DEF Active, Present
  <2>2. OneRecordPerUnit'
    BY <2>0, <2>1 DEF OneRecordPerUnit
  <2>3. Alone'
    BY <2>0, <2>1 DEF Alone, Settled, OfOtherUnit
  <2> QED
    BY <2>2, <2>3
<1>9. ASSUME NEW t \in Thread, ClearStale(t)
      PROVE  (Alone /\ OneRecordPerUnit)'
  <2>0. /\ \A k \in Key : rec'[k] = rec[k] \/ rec'[k] = Absent
        /\ at' = [at EXCEPT ![t] = "put"] /\ at[t] = "clearStale"
        /\ UNCHANGED <<key, serial, ip, name, overlapped>>
    BY <1>9 DEF ClearStale, Goto
  <2>1. \A k \in Key : Active(k)' => Active(k) /\ rec'[k] = rec[k]
    BY <2>0 DEF Active, Present
  <2>2. OneRecordPerUnit'
    BY <2>0, <2>1 DEF OneRecordPerUnit
  <2>3. Alone'
    BY <2>0, <2>1 DEF Alone, Settled, OfOtherUnit
  <2> QED
    BY <2>2, <2>3
<1>10. ASSUME NEW t \in Thread, Put(t)
      PROVE  (Alone /\ OneRecordPerUnit)'
  <2>0. /\ rec' = [rec EXCEPT ![key[t]] = Document(t)]
        /\ at' = [at EXCEPT ![t] = "idle"] /\ at[t] = "put"
        /\ UNCHANGED <<key, serial, ip, name, overlapped>>
    BY <1>10 DEF Put, Goto
  <2>1. OneRecordPerUnit'
    <3> SUFFICES ASSUME ~overlapped, NEW j \in Key, NEW k \in Key, j # k,
                        Active(j)', Active(k)', rec'[j].serial = rec'[k].serial,
                        rec'[k].serial # None
                 PROVE  FALSE
      BY <2>0 DEF OneRecordPerUnit
    <3>1. CASE j # key[t] /\ k # key[t]
      BY <2>0, <3>1 DEF OneRecordPerUnit, Active, Present
    <3>2. CASE j = key[t]
      <4>1. rec'[j] = Document(t) /\ rec'[k] = rec[k] /\ Active(k)
        BY <2>0, <3>2 DEF Active, Present
      <4>2. rec[k].serial = serial[t] /\ serial[t] # None
        BY <4>1, DocumentType
      <4>3. Settled(t)
        BY <2>0 DEF Alone
      <4> QED
        BY <2>0, <3>2, <4>1, <4>2, <4>3 DEF Settled
    <3>3. CASE k = key[t]
      <4>1. rec'[k] = Document(t) /\ rec'[j] = rec[j] /\ Active(j)
        BY <2>0, <3>3 DEF Active, Present
      <4>2. rec[j].serial = serial[t] /\ serial[t] # None
        BY <4>1, DocumentType
      <4>3. Settled(t)
        BY <2>0 DEF Alone
      <4> QED
        BY <2>0, <3>3, <4>1, <4>2, <4>3 DEF Settled
    <3> QED
      BY <3>1, <3>2, <3>3
  <2>2. Alone'
    BY <2>0 DEF Alone, Settled
  <2> QED
    BY <2>1, <2>2
<1>11. ASSUME NEW t \in Thread, CallFails(t)
      PROVE  (Alone /\ OneRecordPerUnit)'
  <2>1. OneRecordPerUnit'
    BY <1>11 DEF CallFails, OneRecordPerUnit, Active, Present
  <2>2. Alone'
    BY <1>11 DEF CallFails, Goto, Alone, Settled, OfOtherUnit, Active, Present
  <2> QED
    BY <2>1, <2>2
<1>12. ASSUME NEW k \in Key, Remove(k)
      PROVE  (Alone /\ OneRecordPerUnit)'
  <2>0. /\ rec' = [rec EXCEPT ![k] = [rec[k] EXCEPT !.gone = TRUE]]
        /\ UNCHANGED <<at, key, serial, ip, name, overlapped>>
        /\ rec[k] \in Record
    BY <1>12, PresentType DEF Remove, Active
  <2>1. \A j \in Key : Active(j)' => Active(j) /\ rec'[j] = rec[j]
    BY <2>0 DEF Active, Present, Record
  <2>2. OneRecordPerUnit'
    BY <2>0, <2>1 DEF OneRecordPerUnit
  <2>3. Alone'
    BY <2>0, <2>1 DEF Alone, Settled, OfOtherUnit
  <2> QED
    BY <2>2, <2>3
<1>13. CASE UNCHANGED vars
  BY <1>0, <1>13
<1> QED
  BY <1>1, <1>2, <1>3, <1>4, <1>5, <1>6, <1>7, <1>8, <1>9, <1>10, <1>11,
     <1>12, <1>13 DEF Next

\* Nor does it take the record of another unit.
LEMMA OverwriteStep ==
  ASSUME Inv, [Next]_vars
  PROVE  ~overlapped => \A j \in Key : ~Overwritten(j)
<1> USE ProvisioningAssumption DEF Inv, TypeOK, Step, Reported, host, vars
<1>1. ASSUME NEW t \in Thread, NEW k \in Label, NEW s \in Reported,
              NEW i \in Ip, NEW n \in Name, Begin(t, k, s, i, n)
      PROVE  ~overlapped => \A j \in Key : ~Overwritten(j)
  BY <1>1 DEF Begin, Overwritten, Active, Present
<1>2. ASSUME NEW t \in Thread, ReadPrior(t)
      PROVE  ~overlapped => \A j \in Key : ~Overwritten(j)
  BY <1>2 DEF ReadPrior, Overwritten, Active, Present
<1>3. ASSUME NEW t \in Thread, FindUnit(t)
      PROVE  ~overlapped => \A j \in Key : ~Overwritten(j)
  BY <1>3 DEF FindUnit, Overwritten, Active, Present
<1>4. ASSUME NEW t \in Thread, Merge(t)
      PROVE  ~overlapped => \A j \in Key : ~Overwritten(j)
  <2> SUFFICES ASSUME ~overlapped, NEW k \in Key, Overwritten(k)
               PROVE  FALSE
    BY <1>4
  <2>1. k = key[t] /\ rec'[k] = Document(t) /\ at[t] = "merge"
    BY <1>4 DEF Merge, Overwritten, Active
  <2>2. serial[t] \notin {None, rec[k].serial} /\ Active(k) /\ rec[k].serial # None
    BY <2>1, DocumentType DEF Overwritten
  <2> QED
    BY <2>1, <2>2 DEF Alone, Settled, OfOtherUnit
<1>5. ASSUME NEW t \in Thread, FindHolder(t)
      PROVE  ~overlapped => \A j \in Key : ~Overwritten(j)
  BY <1>5 DEF FindHolder, Overwritten, Active, Present
<1>6. ASSUME NEW t \in Thread, FindClash(t)
      PROVE  ~overlapped => \A j \in Key : ~Overwritten(j)
  BY <1>6 DEF FindClash, Overwritten, Active, Present
<1>7. ASSUME NEW t \in Thread, FindAtAddress(t)
      PROVE  ~overlapped => \A j \in Key : ~Overwritten(j)
  BY <1>7 DEF FindAtAddress, Overwritten, Active, Present
<1>8. ASSUME NEW t \in Thread, ClearGone(t)
      PROVE  ~overlapped => \A j \in Key : ~Overwritten(j)
  <2>1. \A k \in Key : rec'[k] = rec[k] \/ rec'[k] = Absent
    BY <1>8 DEF ClearGone
  <2> QED
    BY <2>1 DEF Overwritten
<1>9. ASSUME NEW t \in Thread, ClearStale(t)
      PROVE  ~overlapped => \A j \in Key : ~Overwritten(j)
  <2>1. \A k \in Key : rec'[k] = rec[k] \/ rec'[k] = Absent
    BY <1>9 DEF ClearStale
  <2> QED
    BY <2>1 DEF Overwritten
<1>10. ASSUME NEW t \in Thread, Put(t)
      PROVE  ~overlapped => \A j \in Key : ~Overwritten(j)
  <2> SUFFICES ASSUME ~overlapped, NEW k \in Key, Overwritten(k)
               PROVE  FALSE
    BY <1>10
  <2>1. k = key[t] /\ rec'[k] = Document(t) /\ at[t] = "put"
    BY <1>10 DEF Put, Overwritten, Active
  <2>2. serial[t] \notin {None, rec[k].serial} /\ Active(k) /\ rec[k].serial # None
    BY <2>1, DocumentType DEF Overwritten
  <2> QED
    BY <2>1, <2>2 DEF Alone, Settled, OfOtherUnit
<1>11. ASSUME NEW t \in Thread, CallFails(t)
      PROVE  ~overlapped => \A j \in Key : ~Overwritten(j)
  BY <1>11 DEF CallFails, Overwritten, Active, Present
<1>12. ASSUME NEW k \in Key, Remove(k)
      PROVE  ~overlapped => \A j \in Key : ~Overwritten(j)
  <2>1. \A j \in Key : Present(j) => rec'[j].serial = rec[j].serial
    BY <1>12, PresentType DEF Remove, Present, Active, Record
  <2> QED
    BY <2>1 DEF Overwritten, Active
<1>13. CASE UNCHANGED vars
  BY <1>13 DEF Overwritten
<1> QED
  BY <1>1, <1>2, <1>3, <1>4, <1>5, <1>6, <1>7, <1>8, <1>9, <1>10, <1>11,
     <1>12, <1>13 DEF Next

-----------------------------------------------------------------------------

\* At first there are no records and no calls.
LEMMA InitType == Init => TypeOK
<1> SUFFICES ASSUME Init
             PROVE  TypeOK
  OBVIOUS
<1>1. rec \in [Key -> Record \cup {Absent}] /\ at \in [Thread -> Step]
  BY DEF Init, Step
<1>2. key \in [Thread -> Key] /\ serial \in [Thread -> Reported]
  BY ProvisioningAssumption DEF Init, Reported
<1>3. ip \in [Thread -> Ip] /\ name \in [Thread -> Name]
  BY DEF Init
<1>4. /\ calls \in Nat /\ overlapped \in BOOLEAN
      /\ \A t \in Thread : at[t] = "idle"
  BY DEF Init
<1> QED
  BY <1>1, <1>2, <1>3, <1>4 DEF TypeOK

\* Type correctness of the inventory and the calls.
THEOREM TypeCorrect == Spec => []TypeOK
<1>1. Init => TypeOK
  BY InitType
<1>2. TypeOK /\ [Next]_vars => TypeOK'
  BY TypeStep
<1> QED
  BY <1>1, <1>2, PTL DEF Spec

\* As long as no two calls overlap, a unit never has two active records.
THEOREM UnitsAreTold == Spec => []OneRecordPerUnit
<1>1. Init => Inv
  BY InitType DEF Init, Inv, Alone, Settled, OneRecordPerUnit, Active, Present
<1>2. Inv /\ [Next]_vars => Inv'
  BY TypeStep, AloneStep DEF Inv
<1>3. Inv => OneRecordPerUnit
  BY DEF Inv
<1> QED
  BY <1>1, <1>2, <1>3, PTL DEF Spec

\* As long as no two calls overlap, no unit takes the record of another one.
THEOREM LabelsMayRepeat == Spec => NoUnitIsOverwritten
<1>1. Init => Inv
  BY InitType DEF Init, Inv, Alone, Settled, OneRecordPerUnit, Active, Present
<1>2. Inv /\ [Next]_vars => Inv'
  BY TypeStep, AloneStep DEF Inv
<1>3. Inv /\ [Next]_vars
        => [~overlapped => \A k \in Key : ~Overwritten(k)]_vars
  BY OverwriteStep
<1> QED
  BY <1>1, <1>2, <1>3, PTL DEF Spec, NoUnitIsOverwritten
=============================================================================
