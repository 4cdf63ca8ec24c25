---------------------------- MODULE GraphService ----------------------------
(***************************************************************************)
(* What the API comment of loadFromArtifact promises: a graph has at most  *)
(* one loaded artifact, a load that fails leaves none, the workspace size  *)
(* is queried anew after each load, and an execution runs the loaded       *)
(* artifact, on a handle of its backend, with the workspace it needs.      *)
(***************************************************************************)
EXTENDS Naturals

CONSTANTS Graph, Artifact, None

VARIABLES
  loaded,  \* loaded[g]: the artifact that execute would run, or None
  sized,   \* sized[g]: its workspace size has been queried
  ran      \* the invocation of the last step, or None

vars == <<loaded, sized, ran>>

Init ==
  /\ loaded = [g \in Graph |-> None]
  /\ sized  = [g \in Graph |-> FALSE]
  /\ ran    = None

Load(g) == \E a \in Artifact \cup {None} :
  /\ loaded' = [loaded EXCEPT ![g] = a]
  /\ sized'  = [sized EXCEPT ![g] = FALSE]
  /\ ran'    = None

Query(g) ==
  /\ loaded[g] # None
  /\ sized' = [sized EXCEPT ![g] = TRUE]
  /\ ran'   = None
  /\ UNCHANGED loaded

Run(g) ==
  /\ loaded[g] # None /\ sized[g]
  /\ ran' # None
  /\ ran'.graph = g
  /\ ran'.artifact = loaded[g] /\ ran'.context = loaded[g]
  /\ ran'.handle = loaded[g].backend
  /\ ran'.room >= loaded[g].need
  /\ UNCHANGED <<loaded, sized>>

Move(g, h) ==
  /\ loaded' = [loaded EXCEPT ![h] = loaded[g], ![g] = None]
  /\ sized'  = [sized EXCEPT ![h] = sized[g], ![g] = FALSE]
  /\ ran'    = None

\* Anything that concerns neither the loaded artifacts nor the device.
Other == ran' = None /\ UNCHANGED <<loaded, sized>>

Next ==
  \/ \E g \in Graph : Load(g) \/ Query(g) \/ Run(g)
  \/ \E g, h \in Graph : Move(g, h)
  \/ Other

Spec == Init /\ [][Next]_vars
=============================================================================
