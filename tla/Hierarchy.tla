------------------------------- MODULE Hierarchy -------------------------------
(***************************************************************************)
(* `validate_instance_maps`: every `netlist_id` in a document must name a  *)
(* netlist of the document, and no netlist may contain itself, directly or *)
(* not.  `hierarchy_from_json`, `validate_hierarchy` and `flatten_netlist` *)
(* all stand on its answer.                                                *)
(*                                                                         *)
(* The document is a HashMap, so both loops over it visit the netlists in  *)
(* an arbitrary order: a nondeterministic choice here.  A step is one      *)
(* iteration of a loop.                                                    *)
(***************************************************************************)
EXTENDS Integers, Sequences, FiniteSets

CONSTANTS
  Name,     \* the netlist names that may occur in a document
  Docs      \* the documents: for each of its netlists, the ids it references

ASSUME DocsAssumption ==
  \A d \in Docs : DOMAIN d \subseteq Name /\ \A n \in DOMAIN d : d[n] \in Seq(Name)

VARIABLES
  refs,         \* the document under validation
  pc,           \* "scan", "dfs", or the verdict
  todo,         \* the netlists the running loop has still to visit
  stack,        \* entries [name, exiting]; the top is the last one
  active, done, \* the two sets of the depth-first search
  error         \* the names reported in the error returned

vars == <<refs, pc, todo, stack, active, done, error>>

Verdicts == {"ok", "missing", "cyclic"}
Keys     == DOMAIN refs
Entries  == [name : Keys, exiting : BOOLEAN]
Refs(n)  == {refs[n][i] : i \in DOMAIN refs[n]}

(* That every entry of the stack is a key makes the lookup `maps[name]` of *)
(* the search safe: it indexes without checking.                           *)
TypeOK ==
  /\ refs \in Docs
  /\ pc \in {"scan", "dfs"} \cup Verdicts
  /\ todo \in SUBSET Keys
  /\ stack \in Seq(Entries)
  /\ active \in SUBSET Keys
  /\ done \in SUBSET Keys
  /\ error \in Seq(Name)

Init ==
  /\ refs \in Docs
  /\ pc = "scan"
  /\ todo = Keys
  /\ stack = << >>
  /\ active = {}
  /\ done = {}
  /\ error = << >>
--------------------------------------------------------------------------------
(* First loop: every reference must resolve before the search follows any. *)
MutDangling(n, i) == i = 1 /\ refs[n][i] \notin Keys   \* only the first is checked
Dangling(n, i) == refs[n][i] \notin Keys

ScanNetlist(n) ==
  /\ pc = "scan"
  /\ n \in todo
  /\ \A i \in DOMAIN refs[n] : ~ Dangling(n, i)
  /\ todo' = todo \ {n}
  /\ UNCHANGED <<refs, pc, stack, active, done, error>>

ReportMissing(n) ==
  /\ pc = "scan"
  /\ n \in todo
  /\ \E i \in DOMAIN refs[n] :
        /\ Dangling(n, i)
        /\ \A j \in 1 .. i - 1 : ~ Dangling(n, j)
        /\ error' = <<n, refs[n][i]>>
  /\ pc' = "missing"
  /\ UNCHANGED <<refs, todo, stack, active, done>>

ScanDone ==
  /\ pc = "scan"
  /\ todo = {}
  /\ pc' = "dfs"
  /\ todo' = Keys
  /\ UNCHANGED <<refs, stack, active, done, error>>
--------------------------------------------------------------------------------
(* Second loop: an iterative depth-first search from every netlist.        *)
Top  == stack[Len(stack)]

MutRest == stack                        \* the entry is read, not popped
Rest == SubSeq(stack, 1, Len(stack) - 1)

Start(n) ==
  /\ pc = "dfs"
  /\ stack = << >>
  /\ n \in todo
  /\ todo' = todo \ {n}
  /\ stack' = <<[name |-> n, exiting |-> FALSE]>>
  /\ UNCHANGED <<refs, pc, active, done, error>>

Popping == pc = "dfs" /\ stack # << >>

Finished == done \cup {Top.name}

(* The marker pushed by Enter comes up again: the subtree is finished.     *)
Exit ==
  /\ Popping
  /\ Top.exiting
  /\ active' = active \ {Top.name}
  /\ done' = Finished
  /\ stack' = Rest
  /\ UNCHANGED <<refs, pc, todo, error>>

Skip ==
  /\ Popping
  /\ ~ Top.exiting
  /\ Top.name \in done
  /\ stack' = Rest
  /\ UNCHANGED <<refs, pc, todo, active, done, error>>

MutOnPath(n) ==                         \* a reference still waiting also counts
  n \in active \cup {Rest[i].name : i \in DOMAIN Rest}
OnPath(n) == n \in active

MutReported == <<stack[1].name>>        \* the netlist the search started from
Reported == <<Top.name>>

ReportCycle ==
  /\ Popping
  /\ ~ Top.exiting
  /\ Top.name \notin done
  /\ OnPath(Top.name)
  /\ pc' = "cyclic"
  /\ error' = Reported
  /\ stack' = Rest
  /\ UNCHANGED <<refs, todo, active, done>>

(* The references of n are pushed last to first, so that they are popped   *)
(* in document order.                                                      *)
Marker(n) == <<[name |-> n, exiting |-> TRUE]>>

Children(n) ==
  [i \in 1 .. Len(refs[n]) |->
      [name |-> refs[n][Len(refs[n]) + 1 - i], exiting |-> FALSE]]

Enter ==
  /\ Popping
  /\ ~ Top.exiting
  /\ Top.name \notin done
  /\ ~ OnPath(Top.name)
  /\ active' = active \cup {Top.name}
  /\ stack' = Rest \o Marker(Top.name) \o Children(Top.name)
  /\ UNCHANGED <<refs, pc, todo, done, error>>

Accept ==
  /\ pc = "dfs"
  /\ stack = << >>
  /\ todo = {}
  /\ pc' = "ok"
  /\ UNCHANGED <<refs, todo, stack, active, done, error>>

Scan   == (\E n \in Keys : ScanNetlist(n) \/ ReportMissing(n)) \/ ScanDone
Search == (\E n \in Keys : Start(n)) \/ Exit \/ Skip \/ ReportCycle \/ Enter \/ Accept
Next   == Scan \/ Search

(* One synchronous call: its loops keep running until it returns.          *)
Spec == Init /\ [][Next]_vars /\ WF_vars(Next)
--------------------------------------------------------------------------------
Resolved == \A n \in Keys : Refs(n) \subseteq Keys

(* In a finite document: no netlist contains itself, directly or not.      *)
Acyclic ==
  ~ \E S \in SUBSET Keys : S # {} /\ \A n \in S : \E r \in S : r \in Refs(n)

(* The verdict is right whatever order the HashMap yields: a document is   *)
(* accepted exactly when all its references resolve and none closes a      *)
(* cycle, so the order cannot change the verdict either.                   *)
VerdictIsRight ==
  /\ pc = "ok"      => Resolved /\ Acyclic
  /\ pc = "missing" => ~ Resolved
  /\ pc = "cyclic"  => Resolved /\ ~ Acyclic

(* The names in the error are the culprits, not bystanders: the netlist    *)
(* and the dangling id, or a netlist that contains itself (and not one     *)
(* that merely leads to such a netlist).                                   *)
ContainsItself(n) ==
  \A S \in SUBSET Keys :
    (\A m \in S \cup {n} : Refs(m) \cap Keys \subseteq S) => n \in S
ErrorNamesCulprit ==
  /\ pc = "missing" => error[1] \in Keys /\ error[2] \in Refs(error[1]) \ Keys
  /\ pc = "cyclic"  => error[1] \in Keys /\ ContainsItself(error[1])

(* Between steps, the netlists on the current path are exactly those with *)
(* an exit marker on the stack, each with one, and none of them is done.   *)
Markers == {i \in DOMAIN stack : stack[i].exiting}
MarkersAreActive ==
  pc = "dfs" =>
    /\ active = {stack[i].name : i \in Markers}
    /\ \A i, j \in Markers : stack[i].name = stack[j].name => i = j
    /\ active \cap done = {}

(* Everything a finished netlist references is finished: skipping it when  *)
(* it is met again misses no cycle.                                        *)
DoneIsClosed == \A n \in done : Refs(n) \subseteq done

(* Validation ends for every document, the cyclic ones included.           *)
Terminates == <>(pc \in Verdicts)
================================================================================
