--------------------------- MODULE CompileService ---------------------------
(***************************************************************************)
(* What a caller of Graph::compileToArtifact may rely on, with no cache in *)
(* sight: a call fails, or answers with the artifact of the input and      *)
(* backend it was given, or answers with bytes that are no artifact at all *)
(* (loadFromArtifact then refuses them).  It never answers with the        *)
(* artifact of something else.                                             *)
(***************************************************************************)
CONSTANTS
  Graph, Asm, Backend,
  Torn,       \* byte strings that are no artifact
  NoQuestion  \* no call made, or none that succeeded

VARIABLES
  calling,  \* calling[g]: g is inside a call
  asked,    \* asked[g]: what the call in progress, or the last success, was asked
  reply     \* reply[g]: what the latest call returned

vars == <<calling, asked, reply>>

Question == [asm : Asm, backend : Backend]
None     == [status |-> "none"]
Failed   == [status |-> "error"]
Answer(b) == [status |-> "ok", bytes |-> b]

Init ==
  /\ calling = [g \in Graph |-> FALSE]
  /\ asked   = [g \in Graph |-> NoQuestion]
  /\ reply   = [g \in Graph |-> None]

Ask(g) == \E q \in Question :
  /\ ~calling[g]
  /\ calling' = [calling EXCEPT ![g] = TRUE]
  /\ asked'   = [asked EXCEPT ![g] = q]
  /\ reply'   = [reply EXCEPT ![g] = None]

Succeed(g) ==
  /\ calling[g]
  /\ calling' = [calling EXCEPT ![g] = FALSE]
  /\ \E b \in Torn \cup {<<asked[g].asm, asked[g].backend>>} :
       reply' = [reply EXCEPT ![g] = Answer(b)]
  /\ UNCHANGED asked

Fail(g) ==
  /\ calling[g]
  /\ calling' = [calling EXCEPT ![g] = FALSE]
  /\ asked'   = [asked EXCEPT ![g] = NoQuestion]
  /\ reply'   = [reply EXCEPT ![g] = Failed]

\* Graph objects are destroyed or moved, and their answers with them.
Forget(S) ==
  /\ \A g \in S : ~calling[g]
  /\ asked' = [g \in Graph |-> IF g \in S THEN NoQuestion ELSE asked[g]]
  /\ reply' = [g \in Graph |-> IF g \in S THEN None ELSE reply[g]]
  /\ UNCHANGED calling

Next ==
  \/ \E g \in Graph : Ask(g) \/ Succeed(g) \/ Fail(g)
  \/ \E S \in SUBSET Graph : Forget(S)

Spec == Init /\ [][Next]_vars
=============================================================================
