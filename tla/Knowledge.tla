------------------------------ MODULE Knowledge ------------------------------
(***************************************************************************)
(* The knowledge behind the chatflow's two retrievals:                     *)
(* docker/custom/import_kb.py, which deletes and refills the datasets one  *)
(* after the other, main() of patch_workflow.py, which writes the dataset  *)
(* ids into every stored workflow, the person who copies the ids from one  *)
(* to the other (README, after the import), and turns that run meanwhile.  *)
(* Dify's services commit each call on their own (import_kb.py commits     *)
(* nothing), and its worker indexes documents later; both are external.    *)
(* import_kb.py is modelled as its main() is written: the committed file   *)
(* does not parse, since its docstring is closed on line 1.                *)
(***************************************************************************)
EXTENDS Chatflow, Sequences

CONSTANTS
  Count,       \* markdown files _skip_file lets through, per dataset name
  MaxImports,  \* bound on the runs of import_kb.py
  MaxVersion   \* bound on the revisions of the files on disk

\* DATASETS, in their order.
Order == <<"oa", "project", "policy">>
Names == {"oa", "project", "policy"}

ASSUME KnowledgeAssumption ==
  /\ Count \in [Names -> Nat]
  /\ MaxImports \in Nat
  /\ MaxVersion \in Nat \ {0}

\* Mutant: the policies are searched with the projects.
BugUses == [kr_oa |-> {"oa"}, kr_project |-> {"project", "policy"}]

\* The dataset_ids _rebuild_graph() gives each retrieval.
Uses == [kr_oa |-> {"oa", "policy"}, kr_project |-> {"project"}]

\* The stored workflows of the app; a turn runs one of them.
Workflows == {"draft", "published"}

NoId == 0
Unlinked == [n \in Names |-> NoId]
Position(step) == [step |-> step, at |-> 1, next |-> 1, existing |-> {}]

VARIABLES
  disk,     \* revision of the files under KB_IMPORT_ROOT
  live,     \* id of each dataset; the n-th import creates ids n
  docs,     \* its documents
  begun,    \* imports begun
  import,   \* where import_kb.py is
  script,   \* DS_OA, DS_PROJECT, DS_POLICY
  graph,    \* ids in each stored workflow
  loaded,   \* ids in the graph a turn runs, until they cannot matter any more
  basis,    \* history: revision the running import began with
  floor,    \* history: that of the last import that finished, now and at the
            \* beginning of each turn, as long as `loaded`
  seen      \* history: imports begun when the script was edited, when it ran

kb == <<disk, live, docs, begun, import>>
links == <<script, graph>>
records == <<basis, seen>>
all == <<vars, kb, links, loaded, floor, records>>

KInit ==
  /\ Init
  /\ disk = 1
  /\ live = Unlinked
  /\ docs = [n \in Names |-> {}]
  /\ begun = 0
  /\ import = Position("idle")
  /\ script = Unlinked
  /\ graph = [w \in Workflows |-> Unlinked]
  /\ loaded = [r \in Runs |-> Unlinked]
  /\ basis = 0
  /\ floor = [now |-> 0, turn |-> [r \in Runs |-> 0]]
  /\ seen = [edit |-> 0, patch |-> 0]

--------------------------------------------------------------------------------
(* import_kb.py                                                               *)

current == Order[import.at]

\* A dataset holds every file once.
Complete(n) ==
  /\ live[n] # NoId
  /\ \A f \in 1..Count[n] : \E d \in docs[n] :
       d.file = f /\ \A e \in docs[n] : e.file = f => e = d

Running == import.step \in {"drop", "create", "files"}

Begin ==
  /\ ~Running /\ begun < MaxImports
  /\ begun' = begun + 1
  /\ import' = Position("drop")
  /\ basis' = disk
  /\ UNCHANGED <<vars, disk, live, docs, links, loaded, floor, seen>>

\* Mutant: a dataset that is there is kept.
BugDrop ==
  /\ import.step = "drop"
  /\ import' = [import EXCEPT !.step = "create"]
  /\ UNCHANGED <<vars, disk, live, docs, begun, links, loaded, floor, records>>

\* The dataset of this name is deleted with its documents, if there is one.
Drop ==
  /\ import.step = "drop"
  /\ live' = [live EXCEPT ![current] = NoId]
  /\ docs' = [docs EXCEPT ![current] = {}]
  /\ import' = [import EXCEPT !.step = "create"]
  /\ UNCHANGED <<vars, disk, begun, links, loaded, floor, records>>

\* Mutant: the names are those of the dataset that was deleted.
BugExisting == IF begun > 1 THEN {1} ELSE {}

\* existing_names: read from the dataset that was just created.
Existing == {d.file : d \in docs[current]}

\* A new dataset, and what it already holds.
Create ==
  /\ import.step = "create"
  /\ live' = [live EXCEPT ![current] = begun]
  /\ import' = [import EXCEPT !.step = "files", !.next = 1, !.existing = Existing]
  /\ UNCHANGED <<vars, disk, docs, begun, links, loaded, floor, records>>

\* The next file becomes a document the worker will index, unless the dataset
\* holds one of its name.
Queue ==
  /\ import.step = "files" /\ import.next <= Count[current]
  /\ docs' = [docs EXCEPT ![current] = @ \cup
       (IF import.next \in import.existing THEN {}
        ELSE {[file |-> import.next, version |-> disk, is |-> "queued"]})]
  /\ import' = [import EXCEPT !.next = @ + 1]
  /\ UNCHANGED <<vars, disk, live, begun, links, loaded, floor, records>>

\* All files of a folder are done: the next dataset, or the end.
Advance ==
  /\ import.step = "files" /\ import.next > Count[current]
  /\ IF import.at < Len(Order)
     THEN import' = [Position("drop") EXCEPT !.at = import.at + 1] /\ UNCHANGED floor
     ELSE import' = Position("done") /\ floor' = [floor EXCEPT !.now = basis]
  /\ UNCHANGED <<vars, disk, live, docs, begun, links, loaded, records>>

\* A call fails or the container is stopped: what was committed stays.
Die ==
  /\ Running
  /\ import' = Position("idle")
  /\ UNCHANGED <<vars, disk, live, docs, begun, links, loaded, floor, records>>

Importer == Begin \/ Drop \/ Create \/ Queue \/ Advance \/ Die

\* Dify's worker indexes a queued document.
Index(n, d) ==
  /\ d \in docs[n] /\ d.is = "queued"
  /\ docs' = [docs EXCEPT ![n] = (@ \ {d}) \cup {[d EXCEPT !.is = "indexed"]}]
  /\ UNCHANGED <<vars, disk, live, begun, import, links, loaded, floor, records>>

Worker == \E n \in Names : \E d \in docs[n] : Index(n, d)

\* Somebody changes the files.
Revise ==
  /\ disk < MaxVersion
  /\ disk' = disk + 1
  /\ UNCHANGED <<vars, live, docs, begun, import, links, loaded, floor, records>>

--------------------------------------------------------------------------------
(* patch_workflow.py                                                          *)

\* README: after the import the ids are copied into the script, when they are not
\* there already.
Edit ==
  /\ ~Running /\ \A n \in Names : live[n] # NoId
  /\ script # live
  /\ script' = live
  /\ seen' = [seen EXCEPT !.edit = begun]
  /\ UNCHANGED <<vars, kb, graph, loaded, floor, basis>>

\* Mutant: only the workflow in the editor is rewritten.
BugPatch ==
  /\ graph' = [graph EXCEPT !["draft"] = script]
  /\ seen' = [seen EXCEPT !.patch = seen.edit]
  /\ UNCHANGED <<vars, kb, script, loaded, floor, basis>>

\* main(): every stored workflow is rewritten, in one commit.
Patch ==
  /\ graph' = [w \in Workflows |-> script]
  /\ seen' = [seen EXCEPT !.patch = seen.edit]
  /\ UNCHANGED <<vars, kb, script, loaded, floor, basis>>

--------------------------------------------------------------------------------
(* The turns                                                                  *)

\* A turn loads a stored workflow and keeps it to its end.
TurnStarts(r) ==
  /\ Start(r)
  /\ \E w \in Workflows : loaded' = [loaded EXCEPT ![r] = graph[w]]
  /\ floor' = [floor EXCEPT !.turn[r] = floor.now]
  /\ UNCHANGED <<kb, links, records>>

\* Indexed documents of the datasets the node's ids still name.
Searched(r) ==
  UNION {{[name |-> n, version |-> d.version] : d \in {e \in docs[n] : e.is = "indexed"}} :
           n \in {m \in Uses[at[r]] : loaded[r][m] = live[m] /\ live[m] # NoId}}

\* Past the retrievals the ids play no part.
Forgotten(r) ==
  IF at'[r] \in Retrievals THEN UNCHANGED <<loaded, floor>>
  ELSE /\ loaded' = [loaded EXCEPT ![r] = Unlinked]
       /\ floor' = [floor EXCEPT !.turn[r] = 0]

\* The retrieval finds segments of such a document, or nothing that matches.
TurnRetrieves(r) ==
  /\ Retrieve(r)
  /\ found'[r][at[r]] = "empty" \/ Searched(r) # {}
  /\ Forgotten(r)
  /\ UNCHANGED <<kb, links, records>>

TurnGoesOn(r) ==
  /\ \/ Classify(r) \/ TestEmpty(r) \/ Generate(r) \/ HttpAnswered(r) \/ HttpFails(r)
     \/ TestStatus(r) \/ Say(r) \/ Fail(r)
  /\ Forgotten(r)
  /\ UNCHANGED <<kb, links, records>>

Turn(r) == TurnStarts(r) \/ TurnRetrieves(r) \/ TurnGoesOn(r)

KNext == Importer \/ Worker \/ Revise \/ Edit \/ Patch \/ \E r \in Runs : Turn(r)

\* Turns keep moving; nothing is assumed of people, the import or the worker.
KSpec ==
  /\ KInit /\ [][KNext]_all
  /\ \A r \in Runs : WF_all(Turn(r))

--------------------------------------------------------------------------------
\* Types; and a retrieval searches the datasets meant for its question only.
KTypeOK ==
  /\ TypeOK
  /\ disk \in 1..MaxVersion /\ basis \in 0..disk /\ floor.now \in 0..disk
  /\ begun \in 0..MaxImports /\ seen.patch <= seen.edit /\ seen.edit <= begun
  /\ \A n \in Names : live[n] \in 0..begun /\ script[n] \in 0..begun
  /\ \A n \in Names : docs[n] \subseteq [file : 1..Count[n], version : 1..disk,
                                         is : {"queued", "indexed"}]
  /\ import.at \in 1..Len(Order) /\ import.step \in {"idle", "drop", "create", "files", "done"}
  /\ \A r \in Runs : at[r] \in Retrievals => \A s \in Searched(r) :
       s.name \in (IF at[r] = "kr_oa" THEN {"oa", "policy"} ELSE {"project"})

\* An import that has ended has left every file in its dataset exactly once, and no
\* text older than the import, whatever crashed before it: the names it skips are
\* never those of the deleted dataset.
Rebuilt ==
  import.step = "done" =>
    \A n \in Names : /\ live[n] = begun /\ Complete(n)
                     /\ \A d \in docs[n] : d.version >= basis

\* A turn begun after an import has ended is never answered from texts older than
\* that import, even by a graph that still names the deleted datasets.
NoOldRules ==
  \A r \in Runs : at[r] \in Retrievals => \A s \in Searched(r) : s.version >= floor.turn[r]

\* A stored workflow names a dataset that is gone only after an import was begun
\* later than the edit its patch was made with.
StaleUntilPatched ==
  seen.patch = begun => \A w \in Workflows : graph[w] = live
================================================================================
