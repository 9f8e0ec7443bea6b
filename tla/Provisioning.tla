----------------------------- MODULE Provisioning -----------------------------
(***************************************************************************)
(* How discovered hosts get into the inventory (api-gateway,               *)
(* routes/provision.stub.js, and the removal in routes/devices.stub.js).   *)
(*                                                                         *)
(* The hosts of a request are provisioned at the same time (Promise.all),  *)
(* and so are those of other requests.  A call looks for the unit, for the *)
(* holder of the label that was entered and for records at its address,    *)
(* and then replaces one record; each of these is one database call.  The  *)
(* key of a record is its label, a unit is told by the serial number it    *)
(* reports.  Live state (LivePolling) and the links between base stations  *)
(* and subscriber units are left out, and so is the merging of facts.      *)
(***************************************************************************)
EXTENDS Naturals

CONSTANTS Key,        \* the keys of records
          Label,      \* those that may be entered as a serial number
          Serial,     \* the serial numbers units report
          Rekey,      \* Rekey[k][s]: k with the serial number s appended
          Ip, Name, None,
          Thread,     \* the calls of provisionOne that may run together
          MaxCalls    \* a bound, for model checking only

ASSUME ProvisioningAssumption ==
  /\ Label \subseteq Key
  /\ Rekey \in [Label -> [Serial -> Key]]
  /\ None \notin Serial
  /\ MaxCalls \in Nat

VARIABLES rec,              \* the devices collection, by key
          at,               \* at[t]: the next database call of t
          key, serial, ip, name,   \* the record t is about to write
          calls,
          overlapped        \* history: have two calls run at the same time?

host == <<key, serial, ip, name>>
vars == <<rec, at, host, calls, overlapped>>

Reported == Serial \cup {None}
Record == [serial : Reported, ip : Ip, name : Name, gone : BOOLEAN]
Absent == [absent |-> TRUE]

Step == {"idle", "prior", "unit", "merge", "holder", "clash", "address",
         "clearGone", "clearStale", "put"}

TypeOK ==
  /\ rec \in [Key -> Record \cup {Absent}]
  /\ at \in [Thread -> Step]
  /\ key \in [Thread -> Key]
  /\ serial \in [Thread -> Reported]
  /\ ip \in [Thread -> Ip]
  /\ name \in [Thread -> Name]
  /\ \A t \in Thread :
       /\ at[t] \in {"prior", "unit", "holder", "clash"} => key[t] \in Label
       /\ at[t] \in {"merge", "holder", "clash"} => serial[t] \in Serial
  /\ calls \in Nat
  /\ overlapped \in BOOLEAN

Init ==
  /\ rec = [k \in Key |-> Absent]
  /\ at = [t \in Thread |-> "idle"]
  /\ \E k \in Label : key = [t \in Thread |-> k]
  /\ serial = [t \in Thread |-> None]
  /\ \E i \in Ip : ip = [t \in Thread |-> i]
  /\ \E n \in Name : name = [t \in Thread |-> n]
  /\ calls = 0
  /\ overlapped = FALSE

-----------------------------------------------------------------------------
Present(k) == rec[k] # Absent
Active(k) == Present(k) /\ ~rec[k].gone

Goto(t, step) == at' = [at EXCEPT ![t] = step]

\* An operator provisions a host under a label.  The serial number is there
\* if the discovery run that read it is still held.
Begin(t, k, s, i, n) ==
  /\ at[t] = "idle"
  /\ calls < MaxCalls
  /\ calls' = calls + 1
  /\ overlapped' = (overlapped \/ \E u \in Thread : at[u] # "idle")
  /\ key' = [key EXCEPT ![t] = k]
  /\ serial' = [serial EXCEPT ![t] = s]
  /\ ip' = [ip EXCEPT ![t] = i]
  /\ name' = [name EXCEPT ![t] = n]
  /\ Goto(t, "prior")
  /\ UNCHANGED rec

\* Without it the facts of a record at the same address are carried over, of
\* any record there that has a credential.
ReadPrior(t) ==
  /\ at[t] = "prior"
  /\ \/ UNCHANGED serial
     \/ /\ serial[t] = None
        /\ \E k \in Key :
             /\ Present(k) /\ rec[k].ip = ip[t]
             /\ serial' = [serial EXCEPT ![t] = rec[k].serial]
  /\ Goto(t, "unit")
  /\ UNCHANGED <<rec, key, ip, name, calls, overlapped>>

-----------------------------------------------------------------------------
(* The unit and the holder of the label *)

\* Mutant: a unit is only looked for at its address.
SameUnitAtAddress(t) ==
  {k \in Key \ {key[t]} : Active(k) /\ rec[k].serial = serial[t]
                          /\ rec[k].ip = ip[t]}

\* Active records of this unit under another key.
SameUnit(t) ==
  {k \in Key \ {key[t]} : Active(k) /\ rec[k].serial = serial[t]}

\* One at the same address comes first.
FindUnit(t) ==
  /\ at[t] = "unit"
  /\ \/ /\ serial[t] = None
        /\ Goto(t, "address") /\ UNCHANGED key
     \/ /\ serial[t] # None /\ SameUnit(t) = {}
        /\ Goto(t, "holder") /\ UNCHANGED key
     \/ /\ serial[t] # None
        /\ \E k \in SameUnit(t) :
             /\ \/ rec[k].ip = ip[t]
                \/ \A j \in SameUnit(t) : rec[j].ip # ip[t]
             /\ key' = [key EXCEPT ![t] = k]
        /\ Goto(t, "merge")
  /\ UNCHANGED <<rec, serial, ip, name, calls, overlapped>>

\* Mutant: the record is written with the serial number that was entered.
DocumentOfLabel(t) ==
  [serial |-> key[t], ip |-> ip[t], name |-> name[t], gone |-> FALSE]

Document(t) ==
  [serial |-> serial[t], ip |-> ip[t], name |-> name[t], gone |-> FALSE]

\* The record that is there is replaced, under its own key.
Merge(t) ==
  /\ at[t] = "merge"
  /\ rec' = [rec EXCEPT ![key[t]] = Document(t)]
  /\ Goto(t, "idle")
  /\ UNCHANGED <<host, calls, overlapped>>

OfOtherUnit(k, s) == Active(k) /\ rec[k].serial \notin {None, s}

\* Mutant: whoever holds the label is replaced.
HolderIgnored(t) ==
  /\ at[t] = "holder"
  /\ Goto(t, "address")
  /\ UNCHANGED <<rec, host, calls, overlapped>>

FindHolder(t) ==
  /\ at[t] = "holder"
  /\ Goto(t, IF OfOtherUnit(key[t], serial[t]) THEN "clash" ELSE "address")
  /\ UNCHANGED <<rec, host, calls, overlapped>>

\* The label belongs to a different unit: this one gets a key of its own,
\* unless that is taken too.
FindClash(t) ==
  /\ at[t] = "clash"
  /\ LET k == Rekey[key[t]][serial[t]] IN
     IF Active(k) /\ rec[k].serial # serial[t]
     THEN Goto(t, "idle") /\ UNCHANGED key
     ELSE Goto(t, "address") /\ key' = [key EXCEPT ![t] = k]
  /\ UNCHANGED <<rec, serial, ip, name, calls, overlapped>>

-----------------------------------------------------------------------------
(* Other records at the address *)

\* Whichever is found first decides: a removed record is cleared, an active
\* one with this name is answered instead, one with another name is stale.
FindAtAddress(t) ==
  /\ at[t] = "address"
  /\ LET there == {k \in Key \ {key[t]} : Present(k) /\ rec[k].ip = ip[t]} IN
     \/ there = {} /\ Goto(t, "put")
     \/ \E k \in there :
          Goto(t, IF rec[k].gone THEN "clearGone"
                  ELSE IF rec[k].name = name[t] THEN "idle" ELSE "clearStale")
  /\ UNCHANGED <<rec, host, calls, overlapped>>

ClearGone(t) ==
  /\ at[t] = "clearGone"
  /\ rec' = [k \in Key |->
               IF k # key[t] /\ Present(k) /\ rec[k].ip = ip[t] /\ rec[k].gone
               THEN Absent ELSE rec[k]]
  /\ Goto(t, "put")
  /\ UNCHANGED <<host, calls, overlapped>>

ClearStale(t) ==
  /\ at[t] = "clearStale"
  /\ rec' = [k \in Key |->
               IF k # key[t] /\ Present(k) /\ rec[k].ip = ip[t]
               THEN Absent ELSE rec[k]]
  /\ Goto(t, "put")
  /\ UNCHANGED <<host, calls, overlapped>>

Put(t) ==
  /\ at[t] = "put"
  /\ rec' = [rec EXCEPT ![key[t]] = Document(t)]
  /\ Goto(t, "idle")
  /\ UNCHANGED <<host, calls, overlapped>>

-----------------------------------------------------------------------------
\* An operator removes a device; its record stays.
Remove(k) ==
  /\ Active(k)
  /\ rec' = [rec EXCEPT ![k] = [rec[k] EXCEPT !.gone = TRUE]]
  /\ UNCHANGED <<at, host, calls, overlapped>>

\* A database call throws: the host fails, the others go on.
CallFails(t) ==
  /\ at[t] # "idle"
  /\ Goto(t, "idle")
  /\ UNCHANGED <<rec, host, calls, overlapped>>

Next ==
  \/ \E t \in Thread, k \in Label, s \in Reported, i \in Ip, n \in Name :
       Begin(t, k, s, i, n)
  \/ \E t \in Thread :
       \/ ReadPrior(t) \/ FindUnit(t) \/ Merge(t) \/ FindHolder(t)
       \/ FindClash(t) \/ FindAtAddress(t) \/ ClearGone(t) \/ ClearStale(t)
       \/ Put(t) \/ CallFails(t)
  \/ \E k \in Key : Remove(k)

Spec == Init /\ [][Next]_vars

-----------------------------------------------------------------------------
(* Properties *)

\* Units are told by what they report: unless two calls have overlapped, no
\* unit has two active records, under whatever labels and addresses it was
\* provisioned, removed and found again.
OneRecordPerUnit ==
  ~overlapped =>
    \A j, k \in Key :
      Active(j) /\ Active(k) /\ rec[j].serial = rec[k].serial
        /\ rec[k].serial # None
      => j = k

\* The active record of a unit that reports its serial number becomes that of
\* another one.
Overwritten(k) ==
  /\ Active(k) /\ rec[k].serial # None
  /\ rec'[k] # Absent /\ rec'[k].serial \notin {None, rec[k].serial}

\* Labels repeat ("two radios both named 'EOC655'"), and still a unit never
\* takes the record of another one, unless two calls overlap.
NoUnitIsOverwritten ==
  [][~overlapped => \A k \in Key : ~Overwritten(k)]_vars

\* The same for the hosts of one request, which are provisioned together:
\* "never overwrite the other unit".
NeverOverwritten == [][\A k \in Key : ~Overwritten(k)]_vars
=============================================================================
