--------------------------- MODULE Knowledge_proofs ---------------------------
(***************************************************************************)
(* Proofs about Knowledge, for any number of turns, files, revisions and   *)
(* imports, wherever an import died.                                       *)
(***************************************************************************)
EXTENDS Knowledge, Chatflow_proofs

--------------------------------------------------------------------------------
(* The inductive invariant, beside Chatflow's.                                *)

Docs == [file : Nat, version : Nat, is : {"queued", "indexed"}]
Steps == {"idle", "drop", "create", "files", "done"}

KTypes ==
  /\ disk \in Nat /\ basis \in Nat /\ begun \in Nat
  /\ live \in [Names -> Nat] /\ script \in [Names -> Nat]
  /\ docs \in [Names -> SUBSET Docs]
  /\ import \in [step : Steps, at : 1..3, next : Nat, existing : SUBSET Nat]
  /\ floor \in [now : Nat, turn : [Runs -> Nat]]
  /\ seen \in [edit : Nat, patch : Nat]

\* Counters never overtake what they were copied from: nothing is older than the
\* last import that ended, and its basis is not newer than the running one's.
Ordered ==
  /\ 1 <= disk /\ disk <= MaxVersion /\ begun <= MaxImports
  /\ floor.now <= basis /\ basis <= disk
  /\ \A r \in Runs : floor.turn[r] <= floor.now
  /\ seen.patch <= seen.edit /\ seen.edit <= begun
  /\ \A n \in Names : live[n] <= begun /\ script[n] <= begun

\* A document is one of the folder's files, written since the last import that
\* ended, and no file is there twice.
Filed ==
  \A n \in Names :
    /\ \A d \in docs[n] :
         /\ 1 <= d.file /\ d.file <= Count[n]
         /\ floor.now <= d.version /\ 1 <= d.version /\ d.version <= disk
    /\ \A d, e \in docs[n] : d.file = e.file => d = e

\* The files 1..k of a dataset are there, and nothing older than the import.
Holds(n, k) ==
  /\ live[n] = begun
  /\ \A f \in Nat : 1 <= f /\ f <= k => \E d \in docs[n] : d.file = f
  /\ \A d \in docs[n] : basis <= d.version

\* How far the running import is.
Importing ==
  /\ import.step # "idle" => 1 <= begun
  /\ Running => \A i \in 1..3 : i < import.at => Holds(Order[i], Count[Order[i]])
  /\ import.step = "create" => docs[current] = {}
  /\ import.step = "files" =>
       /\ import.existing = {}
       /\ 1 <= import.next /\ import.next <= Count[current] + 1
       /\ Holds(current, import.next - 1)
       /\ \A d \in docs[current] : d.file < import.next
  /\ import.step = "done" => \A n \in Names : Holds(n, Count[n])

\* What the script and the graph name, as long as no import was begun since.
Linked ==
  /\ seen.edit = begun => ~Running /\ script = live
  /\ seen.patch = begun => \A w \in Workflows : graph[w] = live

KRest == KTypes /\ Ordered /\ Filed /\ Importing /\ Linked

KInv == IInv /\ KRest

--------------------------------------------------------------------------------
LEMMA OrderOfNames ==
  /\ Len(Order) = 3 /\ Names = {Order[1], Order[2], Order[3]}
  /\ \A i \in 1..3 : Order[i] \in Names
  /\ \A i, j \in 1..3 : Order[i] = Order[j] => i = j
BY DEF Order, Names

LEMMA CurrentName == KTypes => current \in Names /\ import.at \in 1..3
BY OrderOfNames DEF KTypes, current

LEMMA PlaceTyped ==
  ASSUME NEW step \in Steps, NEW i \in 1..3, NEW next \in Nat
  PROVE  [step |-> step, at |-> i, next |-> next, existing |-> {}]
           \in [step : Steps, at : 1..3, next : Nat, existing : SUBSET Nat]
OBVIOUS

LEMMA CountOfName == \A n \in Names : Count[n] \in Nat
BY KnowledgeAssumption

LEMMA InitKRest == KInit => KRest
<1> SUFFICES ASSUME KInit PROVE KRest
  OBVIOUS
<1> USE KnowledgeAssumption DEF KInit, Unlinked, NoId, Position
<1>1. KTypes
  BY DEF KTypes, Steps
<1>2. Ordered
  BY DEF Ordered
<1>3. Filed
  BY DEF Filed
<1>4. Importing
  BY DEF Importing, Running
<1>5. Linked
  BY DEF Linked, Running
<1> QED
  BY <1>1, <1>2, <1>3, <1>4, <1>5 DEF KRest

--------------------------------------------------------------------------------
(* The import.                                                                *)

LEMMA BeginKRest == ASSUME KRest, Begin PROVE KRest'
<1> USE DEF Begin, KRest
<1>1. /\ ~Running /\ begun < MaxImports /\ begun' = begun + 1 /\ basis' = disk
      /\ import' = [step |-> "drop", at |-> 1, next |-> 1, existing |-> {}]
      /\ disk' = disk /\ live' = live /\ docs' = docs /\ script' = script
      /\ graph' = graph /\ floor' = floor /\ seen' = seen
  BY DEF Position, links
<1>2. KTypes'
  BY <1>1 DEF KTypes, Steps
<1>3. Ordered'
  BY <1>1, KnowledgeAssumption DEF Ordered, KTypes
<1>4. Filed'
  BY <1>1 DEF Filed
<1>5. Importing'
  BY <1>1 DEF Importing, Running, KTypes
<1>6. Linked'
  BY <1>1 DEF Linked, Ordered, KTypes
<1> QED
  BY <1>2, <1>3, <1>4, <1>5, <1>6

LEMMA DropKRest == ASSUME KRest, Drop PROVE KRest'
<1> USE DEF Drop, KRest
<1>1. /\ import.step = "drop" /\ current \in Names /\ import.at \in 1..3
      /\ import' = [import EXCEPT !.step = "create"]
      /\ live' = [live EXCEPT ![current] = NoId]
      /\ docs' = [docs EXCEPT ![current] = {}]
      /\ disk' = disk /\ begun' = begun /\ basis' = basis /\ script' = script
      /\ graph' = graph /\ floor' = floor /\ seen' = seen
  BY CurrentName DEF links, records
<1>2. import'.step = "create" /\ import'.at = import.at
  BY <1>1 DEF KTypes
<1>3. current' = current
  BY <1>2 DEF current
<1>4. \A n \in Names : /\ live'[n] = IF n = current THEN 0 ELSE live[n]
                       /\ docs'[n] = IF n = current THEN {} ELSE docs[n]
  BY <1>1 DEF KTypes, NoId
<1>5. KTypes'
  BY <1>1 DEF KTypes, NoId, Steps
<1>6. Ordered'
  BY <1>1, <1>4 DEF Ordered, KTypes
<1>7. Filed'
  BY <1>1, <1>4 DEF Filed
<1>8. ASSUME NEW i \in 1..3, i < import.at PROVE Holds(Order[i], Count[Order[i]])'
  <2>1. Order[i] \in Names /\ Order[i] # current
    BY <1>1, <1>8, OrderOfNames DEF current
  <2>2. Holds(Order[i], Count[Order[i]])
    BY <1>1, <1>8 DEF Importing, Running
  <2> QED
    BY <1>1, <1>4, <2>1, <2>2 DEF Holds
<1>9. Importing'
  BY <1>1, <1>2, <1>3, <1>4, <1>8 DEF Importing, Running
<1>10. Linked'
  BY <1>1, <1>2 DEF Linked, Running, Ordered, KTypes
<1> QED
  BY <1>5, <1>6, <1>7, <1>9, <1>10

LEMMA CreateKRest == ASSUME KRest, Create PROVE KRest'
<1> USE DEF Create, KRest
<1>1. /\ import.step = "create" /\ current \in Names /\ import.at \in 1..3
      /\ docs[current] = {}
      /\ live' = [live EXCEPT ![current] = begun]
      /\ docs' = docs
      /\ disk' = disk /\ begun' = begun /\ basis' = basis /\ script' = script
      /\ graph' = graph /\ floor' = floor /\ seen' = seen
  BY CurrentName DEF links, records, Importing
<1>2. Existing = {}
  BY <1>1 DEF Existing
<1>3. import' = [import EXCEPT !.step = "files", !.next = 1, !.existing = {}]
  BY <1>2
<1>4. /\ import'.step = "files" /\ import'.at = import.at
      /\ import'.next = 1 /\ import'.existing = {}
  BY <1>3 DEF KTypes
<1>5. current' = current
  BY <1>4 DEF current
<1>6. \A n \in Names : live'[n] = IF n = current THEN begun ELSE live[n]
  BY <1>1 DEF KTypes
<1>7. KTypes'
  <2>1. live' \in [Names -> Nat]
    BY <1>1 DEF KTypes
  <2>2. import' = [step |-> "files", at |-> import.at, next |-> 1, existing |-> {}]
    BY <1>3 DEF KTypes
  <2>3. "files" \in Steps /\ 1 \in Nat
    BY DEF Steps
  <2>4. import' \in [step : Steps, at : 1..3, next : Nat, existing : SUBSET Nat]
    BY <1>1, <2>2, <2>3, PlaceTyped
  <2> QED
    BY <1>1, <2>1, <2>4 DEF KTypes
<1>8. Ordered'
  BY <1>1, <1>6 DEF Ordered, KTypes
<1>9. Filed'
  BY <1>1 DEF Filed
<1>10. ASSUME NEW i \in 1..3, i < import.at PROVE Holds(Order[i], Count[Order[i]])'
  <2>1. Order[i] \in Names /\ Order[i] # current
    BY <1>1, <1>10, OrderOfNames DEF current
  <2>2. Holds(Order[i], Count[Order[i]])
    BY <1>1, <1>10 DEF Importing, Running
  <2> QED
    BY <1>1, <1>6, <2>1, <2>2 DEF Holds
<1>11. Holds(current, import.next - 1)'
  BY <1>1, <1>4, <1>5, <1>6 DEF Holds
<1>12. Importing'
  BY <1>1, <1>4, <1>5, <1>10, <1>11, CountOfName DEF Importing, Running
<1>13. Linked'
  BY <1>1, <1>4 DEF Linked, Running, Ordered, KTypes
<1> QED
  BY <1>7, <1>8, <1>9, <1>12, <1>13

LEMMA QueueKRest == ASSUME KRest, Queue PROVE KRest'
<1> USE DEF Queue, KRest
<1> DEFINE new == [file |-> import.next, version |-> disk, is |-> "queued"]
<1>1. /\ import.step = "files" /\ current \in Names /\ import.at \in 1..3
      /\ import.next <= Count[current] /\ 1 <= import.next /\ import.next \in Nat
      /\ import.existing = {}
      /\ import' = [import EXCEPT !.next = import.next + 1]
      /\ live' = live /\ disk' = disk /\ begun' = begun /\ basis' = basis
      /\ script' = script /\ graph' = graph /\ floor' = floor /\ seen' = seen
  BY CurrentName DEF links, records, Importing, KTypes
<1>2. docs' = [docs EXCEPT ![current] = docs[current] \cup {new}]
  BY <1>1
<1>3. new \in Docs /\ new.file = import.next /\ new.version = disk
  BY <1>1 DEF Docs, KTypes
<1> HIDE DEF new
<1>4. /\ import'.step = "files" /\ import'.at = import.at
      /\ import'.next = import.next + 1 /\ import'.existing = {}
  BY <1>1 DEF KTypes
<1>5. current' = current
  BY <1>4 DEF current
<1>6. \A n \in Names : docs'[n] = IF n = current THEN docs[current] \cup {new} ELSE docs[n]
  BY <1>1, <1>2 DEF KTypes
<1>7. KTypes'
  <2>1. docs[current] \cup {new} \in SUBSET Docs
    BY <1>1, <1>3 DEF KTypes
  <2>2. docs' \in [Names -> SUBSET Docs]
    BY <1>2, <2>1 DEF KTypes
  <2>3. import' \in [step : Steps, at : 1..3, next : Nat, existing : SUBSET Nat]
    BY <1>1 DEF KTypes
  <2> QED
    BY <1>1, <2>2, <2>3 DEF KTypes
<1>8. Ordered'
  BY <1>1 DEF Ordered
<1>9. Holds(current, import.next - 1) /\ \A d \in docs[current] : d.file < import.next
  BY <1>1 DEF Importing
<1>10. Filed'
  <2>1. floor.now <= disk /\ 1 <= disk
    BY DEF Ordered, KTypes
  <2>2. ASSUME NEW n \in Names, NEW d \in docs'[n]
        PROVE /\ 1 <= d.file /\ d.file <= Count[n]
              /\ floor.now <= d.version /\ 1 <= d.version /\ d.version <= disk
    <3>1. CASE n = current /\ d = new
      <4>1. d.file = import.next /\ d.version = disk
        BY <1>3, <3>1
      <4>2. 1 <= import.next /\ import.next <= Count[n]
        BY <1>1, <3>1
      <4>3. disk <= disk
        BY DEF KTypes
      <4> QED
        BY <2>1, <4>1, <4>2, <4>3
    <3>2. CASE d \in docs[n]
      BY <3>2 DEF Filed
    <3> QED
      BY <1>6, <2>2, <3>1, <3>2
  <2>3. ASSUME NEW n \in Names, NEW d \in docs'[n], NEW e \in docs'[n], d.file = e.file
        PROVE d = e
    <3>1. CASE n # current
      BY <1>6, <2>3, <3>1 DEF Filed
    <3>2. CASE n = current
      <4>1. \A x \in docs[current] : x.file \in Nat /\ x.file # new.file
        BY <1>1, <1>3, <1>9 DEF KTypes, Docs
      <4> QED
        BY <1>6, <2>3, <3>2, <4>1 DEF Filed
    <3> QED
      BY <3>1, <3>2
  <2> QED
    BY <1>1, <2>2, <2>3 DEF Filed
<1>11. ASSUME NEW i \in 1..3, i < import.at PROVE Holds(Order[i], Count[Order[i]])'
  <2>1. Order[i] \in Names /\ Order[i] # current
    BY <1>1, <1>11, OrderOfNames DEF current
  <2>2. Holds(Order[i], Count[Order[i]])
    BY <1>1, <1>11 DEF Importing, Running
  <2> QED
    BY <1>1, <1>6, <2>1, <2>2 DEF Holds
<1>12. Holds(current, import.next - 1)'
  <2>1. docs'[current] = docs[current] \cup {new}
    BY <1>1, <1>6
  <2>2. live'[current] = begun'
    BY <1>1, <1>9 DEF Holds
  <2>3. ASSUME NEW f \in Nat, 1 <= f, f <= import.next PROVE \E d \in docs'[current] : d.file = f
    <3>1. CASE f = import.next
      BY <1>3, <2>1, <3>1
    <3>2. CASE f # import.next
      <4>1. f <= import.next - 1
        BY <1>1, <2>3, <3>2
      <4> QED
        BY <1>9, <2>1, <2>3, <4>1 DEF Holds
    <3> QED
      BY <3>1, <3>2
  <2>4. \A d \in docs'[current] : basis' <= d.version
    BY <1>1, <1>3, <1>9, <2>1 DEF Holds, Ordered
  <2>5. import'.next - 1 = import.next
    BY <1>1, <1>4
  <2> QED
    BY <1>5, <2>2, <2>3, <2>4, <2>5 DEF Holds
<1>13. \A d \in docs'[current] : d.file < import.next + 1
  <2>1. \A d \in docs[current] : d.file \in Nat
    BY <1>1 DEF KTypes, Docs
  <2> QED
    BY <1>1, <1>3, <1>6, <1>9, <2>1
<1>14. import.next + 1 <= Count[current] + 1
  BY <1>1, CountOfName
<1>15. Importing'
  BY <1>1, <1>4, <1>5, <1>11, <1>12, <1>13, <1>14 DEF Importing, Running
<1>16. Linked'
  BY <1>1, <1>4 DEF Linked, Running, Ordered, KTypes
<1> QED
  BY <1>7, <1>8, <1>10, <1>15, <1>16

LEMMA AdvanceKRest == ASSUME KRest, Advance PROVE KRest'
<1> USE DEF Advance, KRest
<1>1. /\ import.step = "files" /\ current \in Names /\ import.at \in 1..3
      /\ import.next > Count[current] /\ import.next \in Nat
      /\ live' = live /\ docs' = docs /\ disk' = disk /\ begun' = begun /\ basis' = basis
      /\ script' = script /\ graph' = graph /\ seen' = seen
  BY CurrentName DEF links, records, KTypes
<1>2. Count[current] \in Nat
  BY <1>1, CountOfName
<1>3. Holds(current, Count[current])
  BY <1>1, <1>2 DEF Importing, Holds
<1>4. \A i \in 1..3 : i <= import.at => Holds(Order[i], Count[Order[i]])
  <2>1. \A i \in 1..3 : i < import.at => Holds(Order[i], Count[Order[i]])
    BY <1>1 DEF Importing, Running
  <2> HIDE DEF Holds
  <2>2. \A i \in 1..3 : i = import.at => Holds(Order[i], Count[Order[i]])
    BY <1>3 DEF current
  <2> QED
    BY <1>1, <2>1, <2>2
<1>5. \A n \in Names : \A k : Holds(n, k) => Holds(n, k)'
  BY <1>1 DEF Holds
<1>6. 1 <= begun
  BY <1>1 DEF Importing
<1>7. CASE import.at < Len(Order)
  <2>1. /\ import' = [step |-> "drop", at |-> import.at + 1, next |-> 1, existing |-> {}]
        /\ floor' = floor
    BY <1>7 DEF Position
  <2>2. import.at + 1 \in 1..3
    BY <1>1, <1>7, OrderOfNames
  <2>3. KTypes'
    BY <1>1, <2>1, <2>2 DEF KTypes, Steps
  <2>4. Importing'
    <3>1. \A i \in 1..3 : i < import.at + 1 => Holds(Order[i], Count[Order[i]])'
      <4> SUFFICES ASSUME NEW i \in 1..3, i < import.at + 1
                   PROVE  Holds(Order[i], Count[Order[i]])'
        OBVIOUS
      <4>1. i <= import.at
        BY <1>1
      <4>2. Holds(Order[i], Count[Order[i]]) /\ Order[i] \in Names
        BY <1>4, <4>1, OrderOfNames
      <4> QED
        BY <1>5, <4>2
    <3> QED
      BY <1>1, <1>6, <2>1, <3>1 DEF Importing, Running
  <2>5. Linked'
    BY <1>1, <2>1 DEF Linked, Running, Ordered, KTypes
  <2> QED
    BY <1>1, <2>1, <2>3, <2>4, <2>5 DEF Ordered, Filed
<1>8. CASE ~(import.at < Len(Order))
  <2>1. /\ import' = [step |-> "done", at |-> 1, next |-> 1, existing |-> {}]
        /\ floor' = [floor EXCEPT !.now = basis]
    BY <1>8 DEF Position
  <2>2. import.at = 3
    BY <1>1, <1>8, OrderOfNames
  <2>3. floor'.now = basis /\ floor'.turn = floor.turn
    BY <2>1 DEF KTypes
  <2>4. KTypes'
    <3>1. floor' \in [now : Nat, turn : [Runs -> Nat]]
      BY <2>1 DEF KTypes
    <3>2. "done" \in Steps /\ 1 \in 1..3 /\ 1 \in Nat
      BY DEF Steps
    <3>3. import' \in [step : Steps, at : 1..3, next : Nat, existing : SUBSET Nat]
      BY <2>1, <3>2, PlaceTyped
    <3> QED
      BY <1>1, <3>1, <3>3 DEF KTypes
  <2>5. \A n \in Names : Holds(n, Count[n])
    <3>1. \A i \in 1..3 : Holds(Order[i], Count[Order[i]])
      BY <1>4, <2>2
    <3> QED
      BY <3>1, OrderOfNames
  <2>6. Importing'
    BY <1>1, <1>5, <1>6, <2>1, <2>5 DEF Importing, Running
  <2>7. Ordered'
    BY <1>1, <2>3 DEF Ordered, KTypes
  <2>8. Filed'
    BY <1>1, <2>3, <2>5 DEF Filed, Holds
  <2>9. Linked'
    BY <1>1, <2>1 DEF Linked, Running, Ordered, KTypes
  <2> QED
    BY <2>4, <2>6, <2>7, <2>8, <2>9
<1> QED
  BY <1>7, <1>8

LEMMA DieKRest == ASSUME KRest, Die PROVE KRest'
<1> USE DEF Die, KRest
<1>1. /\ Running
      /\ import' = [step |-> "idle", at |-> 1, next |-> 1, existing |-> {}]
      /\ live' = live /\ docs' = docs /\ disk' = disk /\ begun' = begun /\ basis' = basis
      /\ script' = script /\ graph' = graph /\ seen' = seen /\ floor' = floor
  BY DEF Position, links, records
<1>2. KTypes'
  BY <1>1 DEF KTypes, Steps
<1>3. Importing'
  BY <1>1 DEF Importing, Running
<1>4. Linked'
  BY <1>1 DEF Linked, Running
<1> QED
  BY <1>1, <1>2, <1>3, <1>4 DEF Ordered, Filed

--------------------------------------------------------------------------------
(* The worker, the files on disk, and the person with the script.             *)

LEMMA IndexKRest == ASSUME KRest, NEW n \in Names, NEW d \in docs[n], Index(n, d) PROVE KRest'
<1> USE DEF KRest
<1> DEFINE x == [d EXCEPT !.is = "indexed"]
<1>1. /\ docs' = [docs EXCEPT ![n] = (docs[n] \ {d}) \cup {x}]
      /\ live' = live /\ disk' = disk /\ begun' = begun /\ basis' = basis
      /\ import' = import /\ script' = script /\ graph' = graph /\ seen' = seen
      /\ floor' = floor
  BY DEF Index, links, records
<1>2. d \in Docs /\ docs[n] \in SUBSET Docs
  BY DEF KTypes
<1>3. x \in Docs /\ x.file = d.file /\ x.version = d.version
  BY <1>2 DEF Docs
<1> HIDE DEF x
<1>4. \A m \in Names : docs'[m] = IF m = n THEN (docs[n] \ {d}) \cup {x} ELSE docs[m]
  BY <1>1 DEF KTypes
<1>5. KTypes'
  <2>1. (docs[n] \ {d}) \cup {x} \in SUBSET Docs
    BY <1>2, <1>3
  <2>2. docs' \in [Names -> SUBSET Docs]
    BY <1>1, <2>1 DEF KTypes
  <2> QED
    BY <1>1, <2>2 DEF KTypes
\* What is said of a document's file and version stays true.
<1>6. ASSUME NEW m \in Names
      PROVE /\ \A e \in docs'[m] : \E o \in docs[m] : o.file = e.file /\ o.version = e.version
            /\ \A o \in docs[m] : \E e \in docs'[m] : o.file = e.file
  BY <1>3, <1>4
<1>7. Filed'
  <2>1. ASSUME NEW m \in Names, NEW e \in docs'[m]
        PROVE /\ 1 <= e.file /\ e.file <= Count[m]
              /\ floor.now <= e.version /\ 1 <= e.version /\ e.version <= disk
    <3>1. PICK o \in docs[m] : o.file = e.file /\ o.version = e.version
      BY <1>6
    <3> QED
      BY <3>1 DEF Filed
  <2>2. ASSUME NEW m \in Names, NEW e \in docs'[m], NEW g \in docs'[m], e.file = g.file
        PROVE e = g
    <3>1. \A o, p \in docs[m] : o.file = p.file => o = p
      BY DEF Filed
    <3>2. CASE m # n
      BY <1>4, <2>2, <3>1, <3>2
    <3>3. CASE m = n
      BY <1>3, <1>4, <2>2, <3>1, <3>3
    <3> QED
      BY <3>2, <3>3
  <2> QED
    BY <1>1, <2>1, <2>2 DEF Filed
<1>8. ASSUME NEW m \in Names, NEW k, Holds(m, k) PROVE Holds(m, k)'
  <2>1. ASSUME NEW f \in Nat, 1 <= f, f <= k PROVE \E e \in docs'[m] : e.file = f
    <3>1. PICK o \in docs[m] : o.file = f
      BY <1>8, <2>1 DEF Holds
    <3> QED
      BY <1>6, <3>1
  <2>2. ASSUME NEW e \in docs'[m] PROVE basis <= e.version
    <3>1. PICK o \in docs[m] : o.file = e.file /\ o.version = e.version
      BY <1>6
    <3> QED
      BY <1>8, <3>1 DEF Holds
  <2> QED
    BY <1>1, <1>8, <2>1, <2>2 DEF Holds
<1>9. Importing'
  <2>1. current \in Names /\ current' = current
    BY <1>1, CurrentName DEF current
  <2>2. Running => \A i \in 1..3 : i < import.at => Holds(Order[i], Count[Order[i]])'
    BY <1>8, OrderOfNames DEF Importing
  <2>3. import.step = "create" => docs'[current] = {}
    BY <1>6, <2>1 DEF Importing
  <2>4. import.step = "files" => Holds(current, import.next - 1)'
    BY <1>1, <1>8, <2>1 DEF Importing
  <2>5. import.step = "files" => \A e \in docs'[current] : e.file < import.next
    <3> SUFFICES ASSUME import.step = "files", NEW e \in docs'[current] PROVE e.file < import.next
      OBVIOUS
    <3>1. PICK o \in docs[current] : o.file = e.file
      BY <1>6, <2>1
    <3> QED
      BY <3>1 DEF Importing
  <2>6. import.step = "done" => \A m \in Names : Holds(m, Count[m])'
    BY <1>8 DEF Importing
  <2> QED
    BY <1>1, <2>1, <2>2, <2>3, <2>4, <2>5, <2>6 DEF Importing, Running
<1>10. Ordered' /\ Linked'
  BY <1>1 DEF Ordered, Linked, Running
<1> QED
  BY <1>5, <1>7, <1>9, <1>10

LEMMA ReviseKRest == ASSUME KRest, Revise PROVE KRest'
<1> USE DEF Revise, KRest
<1>1. /\ disk < MaxVersion /\ disk' = disk + 1
      /\ live' = live /\ docs' = docs /\ begun' = begun /\ basis' = basis
      /\ import' = import /\ script' = script /\ graph' = graph /\ seen' = seen
      /\ floor' = floor
  BY DEF links, records
<1>2. KTypes'
  BY <1>1 DEF KTypes
<1>3. Ordered'
  BY <1>1, KnowledgeAssumption DEF Ordered, KTypes
<1>4. Filed'
  <2>1. \A n \in Names : \A d \in docs[n] : d.version \in Nat
    BY DEF KTypes, Docs
  <2>2. disk \in Nat
    BY DEF KTypes
  <2> QED
    BY <1>1, <2>1, <2>2 DEF Filed
<1>5. Importing' /\ Linked'
  BY <1>1 DEF Importing, Linked, Running, Holds, current
<1> QED
  BY <1>2, <1>3, <1>4, <1>5

LEMMA EditKRest == ASSUME KRest, Edit PROVE KRest'
<1> USE DEF Edit, KRest
<1>1. /\ ~Running /\ script' = live /\ seen' = [seen EXCEPT !.edit = begun]
      /\ script # live
      /\ live' = live /\ docs' = docs /\ begun' = begun /\ basis' = basis /\ disk' = disk
      /\ import' = import /\ graph' = graph /\ floor' = floor
  BY DEF kb
<1>2. seen'.edit = begun /\ seen'.patch = seen.patch
  BY <1>1 DEF KTypes
<1>3. KTypes'
  BY <1>1 DEF KTypes
<1>4. Ordered'
  BY <1>1, <1>2 DEF Ordered, KTypes
<1>5. Filed' /\ Importing'
  BY <1>1 DEF Filed, Importing, Running, Holds, current
<1>6. Linked'
  BY <1>1, <1>2 DEF Linked, Running
<1> QED
  BY <1>3, <1>4, <1>5, <1>6

LEMMA PatchKRest == ASSUME KRest, Patch PROVE KRest'
<1> USE DEF Patch, KRest
<1>1. /\ graph' = [w \in Workflows |-> script] /\ seen' = [seen EXCEPT !.patch = seen.edit]
      /\ live' = live /\ docs' = docs /\ begun' = begun /\ basis' = basis /\ disk' = disk
      /\ import' = import /\ script' = script /\ floor' = floor
  BY DEF kb
<1>2. seen'.edit = seen.edit /\ seen'.patch = seen.edit
  BY <1>1 DEF KTypes
<1>3. KTypes'
  BY <1>1 DEF KTypes
<1>4. Ordered'
  BY <1>1, <1>2 DEF Ordered, KTypes
<1>5. Filed' /\ Importing'
  BY <1>1 DEF Filed, Importing, Running, Holds, current
<1>6. Linked'
  BY <1>1, <1>2 DEF Linked, Running
<1> QED
  BY <1>3, <1>4, <1>5, <1>6

--------------------------------------------------------------------------------
(* The turns.                                                                 *)

\* Of all this a turn only sets the floor it is judged by, never above the present.
LEMMA TurnKRest == ASSUME KRest, NEW r \in Runs, Turn(r) PROVE KRest'
<1> USE DEF KRest
<1>1. /\ live' = live /\ docs' = docs /\ begun' = begun /\ basis' = basis /\ disk' = disk
      /\ import' = import /\ script' = script /\ graph' = graph /\ seen' = seen
  BY DEF Turn, TurnStarts, TurnRetrieves, TurnGoesOn, kb, links, records
<1>2. \/ floor' = floor
      \/ \E v \in {0, floor.now} : floor' = [floor EXCEPT !.turn[r] = v]
  BY DEF Turn, TurnStarts, TurnRetrieves, TurnGoesOn, Forgotten
<1>3. /\ floor' \in [now : Nat, turn : [Runs -> Nat]] /\ floor'.now = floor.now
      /\ \A q \in Runs : floor'.turn[q] <= floor.now
  <2>1. /\ floor \in [now : Nat, turn : [Runs -> Nat]] /\ floor.now \in Nat
        /\ floor.turn \in [Runs -> Nat] /\ \A q \in Runs : floor.turn[q] <= floor.now
    BY DEF KTypes, Ordered
  <2>2. CASE floor' = floor
    BY <2>1, <2>2
  <2>3. ASSUME NEW v \in {0, floor.now}, floor' = [floor EXCEPT !.turn[r] = v]
        PROVE  /\ floor' \in [now : Nat, turn : [Runs -> Nat]] /\ floor'.now = floor.now
               /\ \A q \in Runs : floor'.turn[q] <= floor.now
    <3>1. v \in Nat /\ v <= floor.now
      BY <2>1
    <3>2. floor'.now = floor.now /\ floor'.turn = [floor.turn EXCEPT ![r] = v]
      BY <2>1, <2>3
    <3>3. floor' = [now |-> floor.now, turn |-> [floor.turn EXCEPT ![r] = v]]
      BY <2>1, <2>3
    <3> QED
      BY <2>1, <3>1, <3>2, <3>3
  <2> QED
    BY <1>2, <2>2, <2>3
<1>4. KTypes'
  BY <1>1, <1>3 DEF KTypes
<1>5. Ordered'
  BY <1>1, <1>3 DEF Ordered
<1>6. Filed'
  BY <1>1, <1>3 DEF Filed
<1>7. Importing' /\ Linked'
  BY <1>1 DEF Importing, Linked, Running, Holds, current
<1> QED
  BY <1>4, <1>5, <1>6, <1>7

LEMMA InitKInv == KInit => KInv
BY InitIInv, InitKRest DEF KInit, KInv

LEMMA NextKInv == KInv /\ [KNext]_all => KInv'
<1> SUFFICES ASSUME KInv, [KNext]_all PROVE KInv'
  OBVIOUS
<1>0. IInv /\ KRest
  BY DEF KInv
<1>1. CASE UNCHANGED all
  <2>1. UNCHANGED vars /\ UNCHANGED <<kb, links, floor, records>>
    BY <1>1 DEF all
  <2>2. KRest'
    BY <1>0, <2>1 DEF KRest, KTypes, Ordered, Filed, Importing, Linked, Running, Holds,
       current, kb, links, records
  <2> QED
    BY <1>0, <2>1, <2>2, StutterIInv DEF KInv
<1>2. CASE Importer
  <2>1. UNCHANGED vars
    BY <1>2 DEF Importer, Begin, Drop, Create, Queue, Advance, Die
  <2>2. KRest'
    BY <1>0, <1>2, BeginKRest, DropKRest, CreateKRest, QueueKRest, AdvanceKRest, DieKRest
    DEF Importer
  <2> QED
    BY <1>0, <2>1, <2>2, StutterIInv DEF KInv
<1>3. CASE Worker
  <2>1. PICK n \in Names : \E d \in docs[n] : Index(n, d)
    BY <1>3 DEF Worker
  <2>2. KRest' /\ UNCHANGED vars
    BY <1>0, <2>1, IndexKRest DEF Index
  <2> QED
    BY <1>0, <2>2, StutterIInv DEF KInv
<1>4. CASE Revise \/ Edit \/ Patch
  <2>1. UNCHANGED vars
    BY <1>4 DEF Revise, Edit, Patch
  <2>2. KRest'
    BY <1>0, <1>4, ReviseKRest, EditKRest, PatchKRest
  <2> QED
    BY <1>0, <2>1, <2>2, StutterIInv DEF KInv
<1>5. ASSUME NEW r \in Runs, Turn(r) PROVE KInv'
  <2>1. Step(r)
    BY <1>5 DEF Turn, TurnStarts, TurnRetrieves, TurnGoesOn, Step
  <2> QED
    BY <1>0, <1>5, <2>1, StepIInv, TurnKRest DEF KInv
<1> QED
  BY <1>1, <1>2, <1>3, <1>4, <1>5 DEF KNext

--------------------------------------------------------------------------------
\* Turns, an import, the worker, revisions, edits and patches in any order, with
\* the import dying anywhere, keep the invariant.
THEOREM KnowledgeSafety == KSpec => []KInv
BY InitKInv, NextKInv, PTL DEF KSpec

\* Types; and a retrieval searches the datasets meant for its question only.
THEOREM KnowledgeTyped == KSpec => []KTypeOK
<1>1. KInv => KTypeOK
  <2> SUFFICES ASSUME KInv PROVE KTypeOK
    OBVIOUS
  <2>0. TypeOK /\ KTypes /\ Ordered /\ Filed
    BY IInvImplies DEF KInv, KRest
  <2>1. disk \in 1..MaxVersion /\ basis \in 0..disk /\ floor.now \in 0..disk
    BY <2>0, KnowledgeAssumption DEF KTypes, Ordered
  <2>2. begun \in 0..MaxImports /\ seen.patch <= seen.edit /\ seen.edit <= begun
    BY <2>0, KnowledgeAssumption DEF KTypes, Ordered
  <2>3. \A n \in Names : live[n] \in 0..begun /\ script[n] \in 0..begun
    BY <2>0 DEF KTypes, Ordered
  <2>4. ASSUME NEW n \in Names
        PROVE docs[n] \subseteq [file : 1..Count[n], version : 1..disk,
                                 is : {"queued", "indexed"}]
    <3>1. ASSUME NEW d \in docs[n]
          PROVE d \in [file : 1..Count[n], version : 1..disk, is : {"queued", "indexed"}]
      <4>1. d \in Docs
        BY <2>0 DEF KTypes
      <4>2. d = [file |-> d.file, version |-> d.version, is |-> d.is]
        BY <4>1 DEF Docs
      <4>3. d.file \in 1..Count[n] /\ d.version \in 1..disk /\ d.is \in {"queued", "indexed"}
        BY <2>0, <4>1, CountOfName DEF Filed, Docs, KTypes
      <4> QED
        BY <4>2, <4>3
    <3> QED
      BY <3>1
  <2>5. import.at \in 1..Len(Order) /\ import.step \in {"idle", "drop", "create", "files", "done"}
    BY <2>0, OrderOfNames DEF KTypes, Steps
  <2>6. ASSUME NEW r \in Runs, at[r] \in Retrievals, NEW x \in Searched(r)
        PROVE x.name \in (IF at[r] = "kr_oa" THEN {"oa", "policy"} ELSE {"project"})
    <3>1. x.name \in Uses[at[r]]
      BY <2>6 DEF Searched
    <3> QED
      BY <2>6, <3>1 DEF Uses, Retrievals
  <2> QED
    BY <2>0, <2>1, <2>2, <2>3, <2>4, <2>5, <2>6 DEF KTypeOK
<1> QED
  BY <1>1, KnowledgeSafety, PTL

\* The two promises of the graph hold with the knowledge bases behind it as well.
THEOREM NothingIsInventedFromKnowledge == KSpec => [](NoInvention /\ NumbersUntouched)
<1>1. KInv => NoInvention /\ NumbersUntouched
  BY IInvImplies DEF KInv
<1> QED
  BY <1>1, KnowledgeSafety, PTL

\* An import that has ended has left every file exactly once and nothing older than
\* itself, whatever died before it.
THEOREM ImportRebuilds == KSpec => []Rebuilt
<1>1. KInv => Rebuilt
  <2> SUFFICES ASSUME KInv, import.step = "done", NEW n \in Names
               PROVE  /\ live[n] = begun /\ Complete(n)
                      /\ \A d \in docs[n] : d.version >= basis
    BY DEF Rebuilt
  <2>0. KTypes /\ Filed /\ Importing
    BY DEF KInv, KRest
  <2>1. Holds(n, Count[n]) /\ 1 <= begun /\ Count[n] \in Nat /\ begun \in Nat
    BY <2>0, CountOfName DEF Importing, KTypes
  <2>2. live[n] # NoId
    BY <2>1 DEF Holds, NoId
  <2>3. ASSUME NEW f \in 1..Count[n]
        PROVE \E d \in docs[n] : d.file = f /\ \A e \in docs[n] : e.file = f => e = d
    <3>1. f \in Nat /\ 1 <= f /\ f <= Count[n]
      BY <2>1
    <3>2. PICK d \in docs[n] : d.file = f
      BY <2>1, <3>1 DEF Holds
    <3>3. \A e \in docs[n] : e.file = f => e = d
      BY <2>0, <3>2 DEF Filed
    <3> QED
      BY <3>2, <3>3
  <2>4. \A d \in docs[n] : d.version \in Nat
    BY <2>0 DEF KTypes, Docs
  <2>5. basis \in Nat
    BY <2>0 DEF KTypes
  <2> QED
    BY <2>1, <2>2, <2>3, <2>4, <2>5 DEF Holds, Complete
<1> QED
  BY <1>1, KnowledgeSafety, PTL

\* No turn is answered from texts older than the last import that had ended when it
\* began.
THEOREM RulesAreCurrent == KSpec => []NoOldRules
<1>1. KInv => NoOldRules
  <2> SUFFICES ASSUME KInv, NEW r \in Runs, at[r] \in Retrievals, NEW x \in Searched(r)
               PROVE  x.version >= floor.turn[r]
    BY DEF NoOldRules
  <2>0. KTypes /\ Filed /\ Ordered
    BY DEF KInv, KRest
  <2>1. PICK n \in Uses[at[r]] : \E d \in docs[n] : x.version = d.version
    BY DEF Searched
  <2>2. n \in Names
    BY <2>1 DEF Uses, Names, Retrievals
  <2>3. PICK d \in docs[n] : x.version = d.version
    BY <2>1
  <2>4. d.version \in Nat /\ floor.now \in Nat /\ floor.turn[r] \in Nat
    BY <2>0, <2>2, <2>3 DEF KTypes, Docs
  <2>5. floor.now <= d.version /\ floor.turn[r] <= floor.now
    BY <2>0, <2>2, <2>3 DEF Filed, Ordered
  <2> QED
    BY <2>3, <2>4, <2>5
<1> QED
  BY <1>1, KnowledgeSafety, PTL

\* As long as no import was begun since the edit a patch was made with, every stored
\* workflow names the datasets that are there.
THEOREM GraphsNameDatasets == KSpec => []StaleUntilPatched
<1>1. KInv => StaleUntilPatched
  BY DEF KInv, KRest, Linked, StaleUntilPatched
<1> QED
  BY <1>1, KnowledgeSafety, PTL
================================================================================
