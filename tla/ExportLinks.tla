------------------------------ MODULE ExportLinks ------------------------------
(***************************************************************************)
(* What the query gateway promises about a download link, without saying   *)
(* how: a link is published once, stays valid until its deadline has       *)
(* passed or the gateway restarts, and only a valid link hands out a file. *)
(***************************************************************************)
EXTENDS Naturals

CONSTANTS
  Ids,      \* export identifiers
  Ttl       \* lifetime of a link

VARIABLES
  clock,    \* wall clock
  link,     \* state of each link: never published, live or dead
  deadline, \* last instant a published link is promised to work
  handed    \* links whose file has been handed out

vars == <<clock, link, deadline, handed>>

Init ==
  /\ clock = 0
  /\ link = [id \in Ids |-> "none"]
  /\ deadline = [id \in Ids |-> 0]
  /\ handed = {}

Tick ==
  /\ clock' = clock + 1
  /\ UNCHANGED <<link, deadline, handed>>

\* Mutant: a link is published without a lifetime.
BugPublish(id) ==
  /\ link[id] = "none"
  /\ link' = [link EXCEPT ![id] = "live"]
  /\ deadline' = [deadline EXCEPT ![id] = clock]
  /\ UNCHANGED <<clock, handed>>

Publish(id) ==
  /\ link[id] = "none"
  /\ link' = [link EXCEPT ![id] = "live"]
  /\ deadline' = [deadline EXCEPT ![id] = clock + Ttl]
  /\ UNCHANGED <<clock, handed>>

\* A link may be withdrawn only once its deadline lies in the past.
Expire(id) ==
  /\ link[id] = "live" /\ deadline[id] < clock
  /\ link' = [link EXCEPT ![id] = "dead"]
  /\ UNCHANGED <<clock, deadline, handed>>

\* The table of links lives in memory: a restart withdraws them all.
Restart ==
  /\ link' = [id \in Ids |-> IF link[id] = "live" THEN "dead" ELSE link[id]]
  /\ UNCHANGED <<clock, deadline, handed>>

Hand(id) ==
  /\ link[id] = "live"
  /\ handed' = handed \cup {id}
  /\ UNCHANGED <<clock, link, deadline>>

Next ==
  \/ Tick
  \/ Restart
  \/ \E id \in Ids : Publish(id) \/ Expire(id) \/ Hand(id)

Spec == Init /\ [][Next]_vars

================================================================================
