------------------------ MODULE CompileCache_proofs ------------------------
(***************************************************************************)
(* Proofs about CompileCache: its invariants, and that it implements       *)
(* CompileService.                                                         *)
(***************************************************************************)
EXTENDS CompileCache, TLAPS

\* The table of file kinds, spelled out.
LEMMA KindsFacts ==
  /\ Kinds[1] = "input" /\ Kinds[2] = "output"
  /\ Kinds[3] = "command" /\ Kinds[4] = "statistics"
  /\ \A i \in 1..4 : Kinds[i] \in Kind
BY DEF Kinds, Kind

LEMMA PurgedType ==
  ASSUME NEW f \in [Dir -> [Kind -> Content]], NEW c \in Assets \cup {NoCache}, NEW d,
         \A x \in Dir : ContentOf(f[x])
  PROVE  /\ Purged(f, c, d) \in [Dir -> [Kind -> Content]]
         /\ \A x \in Dir : ContentOf(Purged(f, c, d)[x])
BY DEF Purged, Assets, NoFiles, Content, ContentOf, Kind

LEMMA ResultConstants ==
  NoResult \in Result /\ Errored \in Result /\ Missing \in Result
BY DEF NoResult, Errored, Missing, Result, Bytes

LEMMA UpdateType ==
  ASSUME NEW f \in [Dir -> [Kind -> Content]], \A x \in Dir : ContentOf(f[x]),
         NEW d \in Dir, NEW k \in Kind, NEW c \in Content,
         k = "input" => c \in Asm \cup {Absent, Empty},
         k = "command" => c \in Backend \cup {Absent, Empty},
         k = "output" => c \in Bytes \cup {Absent}
  PROVE  /\ [f EXCEPT ![d][k] = c] \in [Dir -> [Kind -> Content]]
         /\ \A x \in Dir : ContentOf([f EXCEPT ![d][k] = c][x])
BY DEF ContentOf, Kind

\* Every step keeps every variable in its type.
LEMMA TypeStep == TypeOK /\ [Next]_vars => TypeOK'
<1> SUFFICES ASSUME TypeOK, [Next]_vars PROVE TypeOK'
  OBVIOUS
<1> USE ResultConstants DEF TypeOK, Steps
<1>0. CASE UNCHANGED vars
  BY <1>0 DEF vars
<1>1. ASSUME NEW g \in Graph, Begin(g) PROVE TypeOK'
  <2>1. PICK a \in Asm, b \in Backend, rm \in Removes :
          req' = [req EXCEPT ![g] = [asm |-> a, backend |-> b, remove |-> rm]]
    BY <1>1 DEF Begin
  <2>2. [asm |-> a, backend |-> b, remove |-> rm] \in Request
    BY RemovesAssumption DEF Request
  <2>3. req' \in [Graph -> Request \cup {NoRequest}] /\ req'[g] # NoRequest
    BY <2>1, <2>2, NoRequestAssumption
  <2>4. \A h \in Graph : pc'[h] # "idle" => req'[h] # NoRequest
    BY <1>1, <2>1, <2>3 DEF Begin
  <2>5. QED BY <1>1, <2>3, <2>4 DEF Begin
<1>2. ASSUME NEW g \in Graph, CheckHit(g) \/ CheckMiss(g) PROVE TypeOK'
  BY <1>2 DEF CheckHit, CheckMiss, local
<1>3. ASSUME NEW g \in Graph, CheckFindsNoFile(g) \/ CheckBuildFails(g) PROVE TypeOK'
  BY <1>3 DEF CheckFindsNoFile, CheckBuildFails, Return
<1>4. ASSUME NEW g \in Graph, CreateFile(g) PROVE TypeOK'
  <2>1. /\ file' \in [Dir -> [Kind -> Content]]
        /\ \A x \in Dir : ContentOf(file'[x])
    <3>1. Kinds[made[g] + 1] \in Kind
      BY KindsFacts
    <3>2. Empty \in Content /\ Empty \in Bytes
      BY DEF Content, Bytes
    <3>3. file' = [file EXCEPT ![home[g]][Kinds[made[g] + 1]] = Empty]
      BY <1>4 DEF CreateFile
    <3>4. home[g] \in Dir
      OBVIOUS
    <3> HIDE DEF TypeOK
    <3>5. file \in [Dir -> [Kind -> Content]] /\ \A x \in Dir : ContentOf(file[x])
      BY DEF TypeOK
    <3>6. QED BY <3>1, <3>2, <3>3, <3>4, <3>5, UpdateType
  <2>2. /\ made' \in [Graph -> 0..3]
        /\ pc' \in [Graph -> Steps]
        /\ \A h \in Graph : pc'[h] # "idle" => req'[h] # NoRequest
    <3>1. CASE made[g] = 3
      <4>1. /\ made' = [made EXCEPT ![g] = 0]
            /\ pc'   = [pc EXCEPT ![g] = "write"]
            /\ pc[g] = "create"
            /\ req'  = req
        BY <1>4, <3>1 DEF CreateFile
      <4>2. QED BY <4>1
    <3>2. CASE made[g] # 3
      <4>1. made[g] + 1 \in 0..3
        BY <3>2
      <4>2. /\ made' = [made EXCEPT ![g] = made[g] + 1]
            /\ UNCHANGED <<pc, req>>
        BY <1>4, <3>2 DEF CreateFile
      <4>3. QED BY <4>1, <4>2
    <3>3. QED BY <3>1, <3>2
  <2>3. QED BY <1>4, <2>1, <2>2 DEF CreateFile
<1>5. ASSUME NEW g \in Graph, CreateFails(g) PROVE TypeOK'
  <2>1. /\ file' \in [Dir -> [Kind -> Content]]
        /\ \A x \in Dir : ContentOf(file'[x])
    BY <1>5 DEF CreateFails, Content, ContentOf, Kind
  <2>2. dirs' \in SUBSET Dir
    BY <1>5 DEF CreateFails
  <2>3. /\ UNCHANGED <<home, cache>> /\ made' = [made EXCEPT ![g] = 0]
        /\ Return(g, Errored)
    BY <1>5 DEF CreateFails
  <2>4. QED BY <2>1, <2>2, <2>3 DEF Return
<1>6. ASSUME NEW g \in Graph, WriteInput(g) PROVE TypeOK'
  <2>1. req[g].asm \in Asm
    BY <1>6 DEF WriteInput, Request
  <2>2. /\ file' \in [Dir -> [Kind -> Content]]
        /\ \A x \in Dir : ContentOf(file'[x])
    <3>1. file' = [file EXCEPT ![home[g]]["input"] = req[g].asm]
      BY <1>6 DEF WriteInput
    <3>2. /\ req[g].asm \in Content
          /\ req[g].asm \in Asm
      BY <2>1 DEF Content, Bytes
    <3>3. "input" \in Kind /\ home[g] \in Dir
      BY DEF Kind
    <3>4. file \in [Dir -> [Kind -> Content]] /\ \A x \in Dir : ContentOf(file[x])
      OBVIOUS
    <3> HIDE DEF TypeOK
    <3>5. QED BY <3>1, <3>2, <3>3, <3>4, UpdateType
  <2>3. QED BY <1>6, <2>2 DEF WriteInput, local
<1>7. ASSUME NEW g \in Graph, WriteCommand(g) PROVE TypeOK'
  <2>1. req[g].backend \in Backend
    BY <1>7 DEF WriteCommand, Request
  <2>2. /\ file' \in [Dir -> [Kind -> Content]]
        /\ \A x \in Dir : ContentOf(file'[x])
    <3>1. file' = [file EXCEPT ![home[g]]["command"] = req[g].backend]
      BY <1>7 DEF WriteCommand
    <3>2. /\ req[g].backend \in Content
          /\ req[g].backend \in Backend
      BY <2>1 DEF Content, Bytes
    <3>3. "command" \in Kind /\ home[g] \in Dir
      BY DEF Kind
    <3>4. file \in [Dir -> [Kind -> Content]] /\ \A x \in Dir : ContentOf(file[x])
      OBVIOUS
    <3> HIDE DEF TypeOK
    <3>5. QED BY <3>1, <3>2, <3>3, <3>4, UpdateType
  <2>3. QED BY <1>7, <2>2 DEF WriteCommand, local
<1>8. ASSUME NEW g \in Graph, Execute(g) PROVE TypeOK'
  <2>1. <<file[home[g]]["input"], req[g].backend>> \in Artifact
    BY <1>8 DEF Execute, Request, Artifact
  <2>2. /\ file' \in [Dir -> [Kind -> Content]]
        /\ \A x \in Dir : ContentOf(file'[x])
    <3>1. file' = [file EXCEPT ![home[g]]["output"] = <<file[home[g]]["input"], req[g].backend>>]
      BY <1>8 DEF Execute
    <3>2. /\ <<file[home[g]]["input"], req[g].backend>> \in Content
          /\ <<file[home[g]]["input"], req[g].backend>> \in Bytes
      BY <2>1 DEF Content, Bytes
    <3>3. "output" \in Kind /\ home[g] \in Dir
      BY DEF Kind
    <3>4. file \in [Dir -> [Kind -> Content]] /\ \A x \in Dir : ContentOf(file[x])
      OBVIOUS
    <3> HIDE DEF TypeOK
    <3>5. QED BY <3>1, <3>2, <3>3, <3>4, UpdateType
  <2>3. QED BY <1>8, <2>2 DEF Execute, local
<1>9. ASSUME NEW g \in Graph, GenerateFails(g) PROVE TypeOK'
  <2>1. [dir |-> home[g], remove |-> req[g].remove] \in Assets
    BY <1>9 DEF GenerateFails, Request, Assets
  <2>2. PICK out \in Bytes \cup {Absent} :
          file' = Purged([file EXCEPT ![home[g]]["output"] = out],
                         [dir |-> home[g], remove |-> req[g].remove], NoDir)
    BY <1>9 DEF GenerateFails, Bytes, ContentOf
  <2>3. LET f == [file EXCEPT ![home[g]]["output"] = out] IN
        f \in [Dir -> [Kind -> Content]] /\ \A x \in Dir : ContentOf(f[x])
    BY UpdateType DEF Kind, Content
  <2>4. /\ file' \in [Dir -> [Kind -> Content]]
        /\ \A x \in Dir : ContentOf(file'[x])
    BY <2>1, <2>2, <2>3, PurgedType
  <2>5. dirs' \in SUBSET Dir
    BY <1>9 DEF GenerateFails, Swept
  <2>6. QED BY <1>9, <2>4, <2>5 DEF GenerateFails, Return
<1>10. ASSUME NEW g \in Graph, Commit(g) PROVE TypeOK'
  <2>1. /\ file' \in [Dir -> [Kind -> Content]]
        /\ \A x \in Dir : ContentOf(file'[x])
    BY <1>10, PurgedType DEF Commit
  <2>2. [dir |-> home[g], remove |-> req[g].remove] \in Assets
    BY <1>10 DEF Commit, Request, Assets
  <2>3. dirs' \in SUBSET Dir
    BY <1>10 DEF Commit, Swept
  <2>4. QED BY <1>10, <2>1, <2>2, <2>3 DEF Commit
<1>11. ASSUME NEW g \in Graph, Read(g) PROVE TypeOK'
  <2> DEFINE out == file[home[g]]["output"]
             r == IF out = Absent THEN Missing
                  ELSE [status |-> "ok", bytes |-> out, fresh |-> pc[g] = "readFresh"]
  <2>1. out \in Bytes \cup {Absent}
    BY DEF ContentOf
  <2>2. r \in Result
    BY <2>1 DEF Result
  <2>3. Return(g, r)
    BY <1>11 DEF Read
  <2> HIDE DEF r
  <2>4. QED BY <1>11, <2>2, <2>3 DEF Read, Return
<1>12. ASSUME NEW g \in Graph, Rename(g) PROVE TypeOK'
  BY <1>12 DEF Rename
<1>13. ASSUME NEW g \in Graph, Destroy(g) PROVE TypeOK'
  <2>1. /\ file' \in [Dir -> [Kind -> Content]]
        /\ \A x \in Dir : ContentOf(file'[x])
    BY <1>13, PurgedType DEF Destroy
  <2>2. dirs' \in SUBSET Dir
    BY <1>13 DEF Destroy, Swept
  <2>3. QED BY <1>13, <2>1, <2>2 DEF Destroy, Busy
<1>14. ASSUME NEW g \in Graph, NEW h \in Graph, MoveAssign(g, h) PROVE TypeOK'
  <2>1. /\ file' \in [Dir -> [Kind -> Content]]
        /\ \A x \in Dir : ContentOf(file'[x])
    <3>1. CASE cache[g] = NoCache
      <4>1. file' = Purged(file, cache[h], NoDir)
        BY <1>14, <3>1 DEF MoveAssign
      <4>2. QED BY <4>1, PurgedType
    <3>2. CASE cache[g] # NoCache
      <4>1. file' = Purged(file, cache[h], cache[g].dir)
        BY <1>14, <3>2 DEF MoveAssign
      <4>2. QED BY <4>1, PurgedType
    <3>3. QED BY <3>1, <3>2
  <2>2. dirs' \in SUBSET Dir
    BY <1>14 DEF MoveAssign, Swept
  <2>3. /\ req' \in [Graph -> Request \cup {NoRequest}]
        /\ \A x \in Graph : pc'[x] # "idle" => req'[x] # NoRequest
    BY <1>14 DEF MoveAssign, Busy
  <2>4. QED BY <1>14, <2>1, <2>2, <2>3 DEF MoveAssign
<1>15. QED
  BY <1>0, <1>1, <1>2, <1>3, <1>4, <1>5, <1>6, <1>7, <1>8, <1>9, <1>10, <1>11,
     <1>12, <1>13, <1>14 DEF Next, Call

LEMMA TypeInit == Init => TypeOK
BY ResultConstants DEF Init, TypeOK, Steps, NoFiles, Content, ContentOf, Kind

\* Type correctness, for every instance and whether or not callers serialise.
THEOREM TypeCorrect == Spec => []TypeOK
<1>1. QED BY TypeInit, TypeStep, PTL DEF Spec

-----------------------------------------------------------------------------
(* Serialised callers: the inductive invariant Inv.                        *)

\* Two calls in progress stay in disjoint sets of directories.
LEMMA ExclusiveStep ==
  ASSUME Serialised, TypeOK, Exclusive, [Next]_vars
  PROVE  Exclusive'
<1> USE DEF Exclusive, Busy
<1>0. CASE UNCHANGED vars
  BY <1>0 DEF vars, Touches
<1>1. ASSUME NEW g \in Graph, Begin(g) PROVE Exclusive'
  <2>1. /\ \A x \in Graph : Touches(x)' = Touches(x)
        /\ \A x \in Graph \ {g} : pc'[x] = pc[x]
    BY <1>1 DEF Begin, Touches, TypeOK
  <2>2. \A h \in Graph \ {g} : Busy(h) => Touches(g) \cap Touches(h) = {}
    BY <1>1 DEF Begin, MayTouch
  <2>3. QED BY <2>1, <2>2
<1>2. ASSUME NEW g \in Graph, Call(g) PROVE Exclusive'
  <2>1. Busy(g) /\ \A x \in Graph \ {g} : pc'[x] = pc[x]
    BY <1>2 DEF Call, CheckHit, CheckMiss, CheckFindsNoFile, CheckBuildFails, Return,
       CreateFile, CreateFails, WriteInput, WriteCommand, Execute, GenerateFails,
       Commit, Read, TypeOK
  <2>2. home' = home /\ \A x \in Graph \ {g} : cache'[x] = cache[x]
    BY <1>2 DEF Call, CheckHit, CheckMiss, CheckFindsNoFile, CheckBuildFails,
       CreateFile, CreateFails, WriteInput, WriteCommand, Execute, GenerateFails,
       Commit, Read, local, TypeOK
  <2>3. cache'[g] = cache[g] \/ cache'[g] = [dir |-> home[g], remove |-> req[g].remove]
    BY <1>2 DEF Call, CheckHit, CheckMiss, CheckFindsNoFile, CheckBuildFails,
       CreateFile, CreateFails, WriteInput, WriteCommand, Execute, GenerateFails,
       Commit, Read, local, TypeOK
  <2>4. Touches(g)' \subseteq Touches(g) /\ \A x \in Graph \ {g} : Touches(x)' = Touches(x)
    BY <2>2, <2>3 DEF Touches
  <2>5. QED BY <2>1, <2>4
<1>3. ASSUME NEW g \in Graph, Rename(g) \/ Destroy(g) PROVE Exclusive'
  <2>1. /\ pc' = pc /\ pc[g] = "idle"
        /\ \A x \in Graph \ {g} : home'[x] = home[x] /\ cache'[x] = cache[x]
    BY <1>3 DEF Rename, Destroy, TypeOK
  <2>2. \A x \in Graph \ {g} : Touches(x)' = Touches(x)
    BY <2>1 DEF Touches
  <2>3. QED BY <2>1, <2>2
<1>4. ASSUME NEW g \in Graph, NEW h \in Graph, MoveAssign(g, h) PROVE Exclusive'
  BY <1>4 DEF MoveAssign, Touches, TypeOK
<1>5. QED BY <1>0, <1>1, <1>2, <1>3, <1>4 DEF Next

\* Destroying or replacing the cache files of c empties c's directory or nothing.
LEMMA PurgedFacts ==
  ASSUME NEW f \in [Dir -> [Kind -> Content]], NEW c \in Assets \cup {NoCache}, NEW d
  PROVE  /\ \A x \in Dir : Purged(f, c, d)[x] = f[x] \/ Purged(f, c, d)[x] = NoFiles
         /\ \A x \in Dir : (c # NoCache => c.dir # x) => Purged(f, c, d)[x] = f[x]
         /\ d \in Dir => Purged(f, c, d)[d] = f[d]
BY DEF Purged, Assets

\* The steps of one graph leave the directories of the calls of others alone.
LEMMA Untouched ==
  ASSUME Serialised, TypeOK, Exclusive,
         NEW g \in Graph, Call(g) \/ Destroy(g),
         NEW x \in Graph, x # g, Busy(x)
  PROVE  file'[home[x]] = file[home[x]]
<1>1. Busy(g) \/ MayTouch(g)
  BY DEF Call, CheckHit, CheckMiss, CheckFindsNoFile, CheckBuildFails,
     CreateFile, CreateFails, WriteInput, WriteCommand, Execute, GenerateFails,
     Commit, Read, Destroy, Busy
<1>2. Touches(g) \cap Touches(x) = {}
  BY <1>1 DEF Exclusive, MayTouch
<1>3. home[x] # home[g] /\ (cache[g] # NoCache => cache[g].dir # home[x])
  BY <1>2 DEF Touches
<1>4. /\ home[g] \in Dir /\ home[x] \in Dir /\ cache[g] \in Assets \cup {NoCache}
      /\ file \in [Dir -> [Kind -> Content]]
  BY DEF TypeOK
<1>5. CASE Destroy(g) \/ Commit(g)
  <2>1. PICK d : file' = Purged(file, cache[g], d)
    BY <1>5 DEF Destroy, Commit
  <2>2. cache[g] # NoCache => cache[g].dir # home[x]
    BY <1>3
  <2>3. Purged(file, cache[g], d)[home[x]] = file[home[x]]
    BY <1>4, <2>2 DEF Purged, Assets
  <2>4. QED BY <2>1, <2>3
<1>6. CASE GenerateFails(g)
  <2>1. PICK out \in Bytes \cup {Absent} :
          file' = Purged([file EXCEPT ![home[g]]["output"] = out],
                         [dir |-> home[g], remove |-> req[g].remove], NoDir)
    BY <1>6 DEF GenerateFails, Bytes, ContentOf, TypeOK
  <2>2. QED BY <1>3, <1>4, <2>1 DEF Purged
<1>7. CASE CreateFile(g) \/ CreateFails(g) \/ WriteInput(g) \/ WriteCommand(g) \/ Execute(g)
  BY <1>3, <1>4, <1>7 DEF CreateFile, CreateFails, WriteInput, WriteCommand, Execute
<1>8. CASE CheckHit(g) \/ CheckMiss(g) \/ CheckFindsNoFile(g) \/ CheckBuildFails(g) \/ Read(g)
  BY <1>8 DEF CheckHit, CheckMiss, CheckFindsNoFile, CheckBuildFails, Read
<1>9. QED BY <1>5, <1>6, <1>7, <1>8 DEF Call

\* What a graph that takes no step knows of its directory stays true.
LEMMA ProgressFrame ==
  ASSUME NEW x \in Graph, ProgressOf(x),
         home'[x] = home[x], pc'[x] = pc[x], made'[x] = made[x], req'[x] = req[x],
         Busy(x) => file'[home[x]] = file[home[x]]
  PROVE  ProgressOf(x)'
<1>1. CASE pc[x] = "idle"
  BY <1>1 DEF ProgressOf
<1>2. CASE pc[x] # "idle"
  BY <1>2 DEF ProgressOf, Busy
<1>3. QED BY <1>1, <1>2

\* The step of a call puts into the directory what the next step counts on.
LEMMA ProgressOwn ==
  ASSUME TypeOK, DiskConsistent, NEW g \in Graph, Call(g), ProgressOf(g)
  PROVE  ProgressOf(g)'
<1> USE DEF ProgressOf
<1>0. /\ home[g] \in Dir /\ made[g] \in 0..3 /\ req[g] \in Request \cup {NoRequest}
      /\ file \in [Dir -> [Kind -> Content]] /\ pc \in [Graph -> Steps]
      /\ made \in [Graph -> 0..3] /\ req \in [Graph -> Request \cup {NoRequest}]
  BY DEF TypeOK
<1>1. CASE CheckHit(g)
  BY <1>0, <1>1 DEF CheckHit, local, InputMatches, CommandMatches, FilesPresent, Kind
<1>2. CASE CheckMiss(g)
  BY <1>0, <1>2 DEF CheckMiss, local
<1>3. CASE CheckFindsNoFile(g) \/ CheckBuildFails(g) \/ Read(g)
  BY <1>0, <1>3 DEF CheckFindsNoFile, CheckBuildFails, Read, Return
<1>4. CASE CreateFile(g)
  <2>1. /\ home' = home /\ pc[g] = "create"
        /\ file'[home[g]] = [file[home[g]] EXCEPT ![Kinds[made[g] + 1]] = Empty]
    BY <1>0, <1>4 DEF CreateFile
  <2>2. \A i \in 1..4 : i <= made[g] + 1 => file'[home[g]][Kinds[i]] = Empty
    <3> SUFFICES ASSUME NEW i \in 1..4, i <= made[g] + 1
                 PROVE  file'[home[g]][Kinds[i]] = Empty
      OBVIOUS
    <3>1. CASE i = made[g] + 1
      BY <1>0, <2>1, <3>1, KindsFacts
    <3>2. CASE i # made[g] + 1
      <4>1. i \in 1..3 /\ i <= made[g]
        BY <1>0, <3>2
      <4>2. file[home[g]][Kinds[i]] = Empty
        BY <2>1, <4>1
      <4>3. QED BY <1>0, <2>1, <4>2, KindsFacts
    <3>3. QED BY <3>1, <3>2
  <2>3. CASE made[g] = 3
    <3>1. pc'[g] = "write" /\ made'[g] = 0
      BY <1>0, <1>4, <2>3 DEF CreateFile
    <3>2. file'[home[g]]["output"] = Empty /\ file'[home[g]]["command"] = Empty
      BY <2>2, <2>3, KindsFacts
    <3>3. QED BY <2>1, <3>1, <3>2
  <2>4. CASE made[g] # 3
    <3>1. pc'[g] = "create" /\ made'[g] = made[g] + 1
      BY <1>0, <1>4, <2>4 DEF CreateFile
    <3>2. QED BY <2>1, <2>2, <3>1
  <2>5. QED BY <2>3, <2>4
<1>5. CASE CreateFails(g)
  BY <1>0, <1>5 DEF CreateFails, Return
<1>6. CASE WriteInput(g)
  BY <1>0, <1>6 DEF WriteInput, local, Kind
<1>7. CASE WriteCommand(g)
  BY <1>0, <1>7 DEF WriteCommand, local, Kind
<1>8. CASE Execute(g)
  BY <1>0, <1>8 DEF Execute, local, Kind
<1>9. CASE GenerateFails(g)
  BY <1>0, <1>9 DEF GenerateFails, Return
<1>10. CASE Commit(g)
  <2>1. cache[g] \in Assets \cup {NoCache}
    BY DEF TypeOK
  <2>2. file'[home[g]] = file[home[g]]
    BY <1>0, <1>10, <2>1, PurgedFacts DEF Commit
  <2>3. QED BY <1>0, <1>10, <2>2 DEF Commit
<1>11. QED
  BY <1>1, <1>2, <1>3, <1>4, <1>5, <1>6, <1>7, <1>8, <1>9, <1>10 DEF Call

\* Calls in progress find in their directories what they put there.
LEMMA ProgressStep ==
  ASSUME Serialised, TypeOK, Exclusive, DiskConsistent, Progress, [Next]_vars
  PROVE  Progress'
<1> SUFFICES ASSUME NEW x \in Graph PROVE ProgressOf(x)'
  BY DEF Progress
<1>0. ProgressOf(x)
  BY DEF Progress
<1>1. CASE UNCHANGED vars
  BY <1>0, <1>1, ProgressFrame DEF vars
<1>2. ASSUME NEW g \in Graph, Begin(g) PROVE ProgressOf(x)'
  <2>1. CASE x = g
    BY <1>0, <1>2, <2>1 DEF Begin, ProgressOf, TypeOK, Busy
  <2>2. CASE x # g
    BY <1>0, <1>2, <2>2, ProgressFrame DEF Begin, TypeOK
  <2>3. QED BY <2>1, <2>2
<1>3. ASSUME NEW g \in Graph, Call(g) PROVE ProgressOf(x)'
  <2>1. CASE x = g
    BY <1>0, <1>3, <2>1, ProgressOwn
  <2>2. CASE x # g
    <3>1. home' = home /\ pc'[x] = pc[x] /\ made'[x] = made[x] /\ req'[x] = req[x]
      BY <1>3, <2>2 DEF Call, CheckHit, CheckMiss, CheckFindsNoFile, CheckBuildFails,
         Return, CreateFile, CreateFails, WriteInput, WriteCommand, Execute,
         GenerateFails, Commit, Read, local, TypeOK
    <3>2. Busy(x) => file'[home[x]] = file[home[x]]
      BY <1>3, <2>2, Untouched
    <3>3. QED BY <1>0, <3>1, <3>2, ProgressFrame
  <2>3. QED BY <2>1, <2>2
<1>4. ASSUME NEW g \in Graph, Rename(g) PROVE ProgressOf(x)'
  <2>1. CASE x = g
    BY <1>0, <1>4, <2>1 DEF Rename, ProgressOf, TypeOK, Busy
  <2>2. CASE x # g
    BY <1>0, <1>4, <2>2, ProgressFrame DEF Rename, TypeOK
  <2>3. QED BY <2>1, <2>2
<1>5. ASSUME NEW g \in Graph, Destroy(g) PROVE ProgressOf(x)'
  <2>1. CASE x = g
    BY <1>0, <1>5, <2>1 DEF Destroy, ProgressOf, TypeOK, Busy
  <2>2. CASE x # g
    <3>1. Busy(x) => file'[home[x]] = file[home[x]]
      BY <1>5, <2>2, Untouched
    <3>2. QED BY <1>0, <1>5, <2>2, <3>1, ProgressFrame DEF Destroy, TypeOK
  <2>3. QED BY <2>1, <2>2
<1>6. ASSUME NEW g \in Graph, NEW h \in Graph, MoveAssign(g, h) PROVE ProgressOf(x)'
  <2>1. CASE x = g \/ x = h
    BY <1>0, <1>6, <2>1 DEF MoveAssign, ProgressOf, TypeOK, Busy
  <2>2. CASE x # g /\ x # h
    <3>1. ASSUME Busy(x) PROVE file'[home[x]] = file[home[x]]
      <4>1. Touches(h) \cap Touches(x) = {}
        BY <1>6, <2>2, <3>1 DEF MoveAssign, MayTouch
      <4>2. cache[h] # NoCache => cache[h].dir # home[x]
        BY <4>1 DEF Touches
      <4>3. \E d : file' = Purged(file, cache[h], d)
        BY <1>6 DEF MoveAssign
      <4>4. /\ home[x] \in Dir /\ cache[h] \in Assets \cup {NoCache}
            /\ file \in [Dir -> [Kind -> Content]]
        BY DEF TypeOK
      <4>5. QED BY <4>2, <4>3, <4>4, PurgedFacts
    <3>2. QED BY <1>0, <1>6, <2>2, <3>1, ProgressFrame DEF MoveAssign, TypeOK
  <2>3. QED BY <2>1, <2>2
<1>7. QED BY <1>1, <1>2, <1>3, <1>4, <1>5, <1>6 DEF Next

LEMMA NoArtifact ==
  /\ Empty \notin Artifact \cup Asm \cup Backend
  /\ Absent \notin Artifact \cup Asm \cup Backend
  /\ Partial \notin Artifact
  /\ Consistent(NoFiles)
BY ContentAssumption DEF Bytes, Consistent, NoFiles, Kind

\* Emptying the files of a cache leaves the other directories consistent.
LEMMA PurgedConsistent ==
  ASSUME NEW f \in [Dir -> [Kind -> Content]], \A x \in Dir : Consistent(f[x]),
         NEW c \in Assets \cup {NoCache}, NEW d
  PROVE  \A x \in Dir : Consistent(Purged(f, c, d)[x])
<1> SUFFICES ASSUME NEW x \in Dir PROVE Consistent(Purged(f, c, d)[x])
  OBVIOUS
<1>1. Consistent(f[x]) /\ Consistent(NoFiles)
  BY NoArtifact
<1>2. Purged(f, c, d)[x] = f[x] \/ Purged(f, c, d)[x] = NoFiles
  BY DEF Purged, Assets
<1>3. QED BY <1>1, <1>2

\* An artifact on disk is the one of the input and the command beside it.
LEMMA DiskStep ==
  ASSUME TypeOK, DiskConsistent, Progress, [Next]_vars
  PROVE  DiskConsistent'
<1>0. file \in [Dir -> [Kind -> Content]] /\ home \in [Graph -> Dir]
      /\ cache \in [Graph -> Assets \cup {NoCache}]
  BY DEF TypeOK
<1>1. CASE file' = file
  BY <1>1 DEF DiskConsistent
<1>2. ASSUME NEW g \in Graph, CreateFile(g) PROVE DiskConsistent'
  <2>1. Kinds[made[g] + 1] \in Kind
    BY KindsFacts DEF TypeOK
  <2>2. file' = [file EXCEPT ![home[g]][Kinds[made[g] + 1]] = Empty]
    BY <1>2 DEF CreateFile
  <2>3. QED BY <1>0, <2>1, <2>2, NoArtifact DEF DiskConsistent, Consistent, Kind
<1>3. ASSUME NEW g \in Graph, CreateFails(g) PROVE DiskConsistent'
  BY <1>0, <1>3, NoArtifact DEF CreateFails, DiskConsistent, Consistent, Kind
<1>4. ASSUME NEW g \in Graph, WriteInput(g) \/ WriteCommand(g) PROVE DiskConsistent'
  <2>1. file[home[g]]["output"] = Empty
    BY <1>4 DEF Progress, ProgressOf, WriteInput, WriteCommand
  <2>2. /\ \A d \in Dir \ {home[g]} : file'[d] = file[d]
        /\ file'[home[g]]["output"] = Empty
    BY <1>0, <1>4, <2>1 DEF WriteInput, WriteCommand, Kind
  <2>3. QED BY <2>2, NoArtifact DEF DiskConsistent, Consistent
<1>5. ASSUME NEW g \in Graph, Execute(g) PROVE DiskConsistent'
  <2>1. file[home[g]]["command"] = req[g].backend
    BY <1>5 DEF Progress, ProgressOf, Execute
  <2>2. /\ \A d \in Dir \ {home[g]} : file'[d] = file[d]
        /\ file'[home[g]]["output"] = <<file[home[g]]["input"], req[g].backend>>
        /\ file'[home[g]]["input"] = file[home[g]]["input"]
        /\ file'[home[g]]["command"] = file[home[g]]["command"]
    BY <1>0, <1>5 DEF Execute, Kind
  <2>3. QED BY <2>1, <2>2 DEF DiskConsistent, Consistent
<1>6. ASSUME NEW g \in Graph, GenerateFails(g) PROVE DiskConsistent'
  <2>1. PICK out \in {file[home[g]]["output"], Partial} :
          file' = Purged([file EXCEPT ![home[g]]["output"] = out],
                         [dir |-> home[g], remove |-> req[g].remove], NoDir)
    BY <1>6 DEF GenerateFails
  <2>2. [dir |-> home[g], remove |-> req[g].remove] \in Assets
    BY <1>6 DEF GenerateFails, Request, Assets, TypeOK
  <2>3. out \in Content
    BY <1>0, <2>1 DEF Content, Bytes, Kind
  <2> DEFINE f == [file EXCEPT ![home[g]]["output"] = out]
  <2>4. f \in [Dir -> [Kind -> Content]]
    BY <1>0, <2>3
  <2>5. \A x \in Dir : Consistent(f[x])
    BY <1>0, NoArtifact DEF DiskConsistent, Consistent, Kind
  <2> HIDE DEF f
  <2>6. QED BY <2>1, <2>2, <2>4, <2>5, PurgedConsistent DEF DiskConsistent, f
<1>7. ASSUME NEW g \in Graph, Commit(g) \/ Destroy(g) PROVE DiskConsistent'
  <2>1. \E d : file' = Purged(file, cache[g], d)
    BY <1>7 DEF Commit, Destroy
  <2>2. QED BY <1>0, <2>1, PurgedConsistent DEF DiskConsistent
<1>8. ASSUME NEW g \in Graph, NEW h \in Graph, MoveAssign(g, h) PROVE DiskConsistent'
  <2>1. \E d : file' = Purged(file, cache[h], d)
    BY <1>8 DEF MoveAssign
  <2>2. QED BY <1>0, <2>1, PurgedConsistent DEF DiskConsistent
<1>9. QED
  BY <1>1, <1>2, <1>3, <1>4, <1>5, <1>6, <1>7, <1>8 DEF Next, Call, vars, Begin, Rename,
     CheckHit, CheckMiss, CheckFindsNoFile, CheckBuildFails, Read

\* What a successful call returned is an answer to what it was asked.
Answered == NeverAnotherArtifact /\ FreshExact

LEMMA AnswerStep ==
  ASSUME TypeOK, DiskConsistent, Progress, Answered, [Next]_vars
  PROVE  Answered'
<1> USE DEF Answered, NeverAnotherArtifact, FreshExact
<1>0. /\ result \in [Graph -> Result] /\ req \in [Graph -> Request \cup {NoRequest}]
      /\ home \in [Graph -> Dir]
  BY DEF TypeOK
<1>1. CASE UNCHANGED <<req, result>>
  BY <1>1
<1>2. ASSUME NEW g \in Graph, NEW h \in Graph,
             \A x \in Graph \ {g, h} : result'[x] = result[x] /\ req'[x] = req[x],
             result'[g].status # "ok", result'[h].status # "ok"
      PROVE  Answered'
  BY <1>2
<1>3. NoResult.status # "ok" /\ Errored.status # "ok" /\ Missing.status # "ok"
  BY DEF NoResult, Errored, Missing
<1>4. ASSUME NEW g \in Graph, Begin(g) PROVE Answered'
  <2>1. /\ result'[g] = NoResult
        /\ \A x \in Graph \ {g} : result'[x] = result[x] /\ req'[x] = req[x]
    BY <1>0, <1>4 DEF Begin
  <2>2. QED BY <1>2, <1>3, <2>1
<1>5. ASSUME NEW g \in Graph, CheckFindsNoFile(g) \/ CheckBuildFails(g)
                              \/ CreateFails(g) \/ GenerateFails(g)
      PROVE  Answered'
  <2>1. /\ result'[g] \in {Missing, Errored}
        /\ \A x \in Graph \ {g} : result'[x] = result[x] /\ req'[x] = req[x]
    BY <1>0, <1>3, <1>5 DEF CheckFindsNoFile, CheckBuildFails, CreateFails, GenerateFails,
       Return
  <2>2. QED BY <1>2, <1>3, <2>1
<1>6. ASSUME NEW g \in Graph, Read(g) PROVE Answered'
  <2> DEFINE out == file[home[g]]["output"]
  <2>1. CASE out = Absent
    <3>1. Return(g, Missing)
      BY <1>6, <2>1 DEF Read
    <3>2. /\ result'[g] = Missing
          /\ \A x \in Graph \ {g} : result'[x] = result[x] /\ req'[x] = req[x]
      BY <1>0, <1>3, <3>1 DEF Return
    <3>3. QED BY <1>2, <1>3, <3>2
  <2>2. CASE out # Absent
    <3>1. Return(g, [status |-> "ok", bytes |-> out, fresh |-> pc[g] = "readFresh"])
      BY <1>6, <2>2 DEF Read
    <3>2. /\ req' = req
          /\ result'[g] = [status |-> "ok", bytes |-> out, fresh |-> pc[g] = "readFresh"]
          /\ \A x \in Graph \ {g} : result'[x] = result[x]
      BY <1>0, <3>1 DEF Return
    <3>3. CASE pc[g] = "readFresh"
      <4>1. out = <<req[g].asm, req[g].backend>>
        BY <3>3 DEF Progress, ProgressOf
      <4>2. QED BY <3>2, <4>1
    <3>4. CASE pc[g] = "readCached"
      <4>1. file[home[g]]["input"] = req[g].asm /\ file[home[g]]["command"] = req[g].backend
        BY <3>4 DEF Progress, ProgressOf
      <4>2. req[g].asm \in Asm /\ req[g].backend \in Backend
        BY <1>0, <3>4 DEF TypeOK, Request
      <4>3. out \in Artifact => out = <<req[g].asm, req[g].backend>>
        BY <1>0, <4>1, <4>2 DEF DiskConsistent, Consistent
      <4>4. (pc[g] = "readFresh") = FALSE
        BY <3>4
      <4>5. result'[g] = [status |-> "ok", bytes |-> out, fresh |-> FALSE]
        BY <3>2, <4>4
      <4>6. QED BY <3>2, <4>3, <4>5
    <3>5. QED BY <1>6, <3>3, <3>4 DEF Read
  <2>3. QED BY <2>1, <2>2
<1>7. ASSUME NEW g \in Graph, Destroy(g) PROVE Answered'
  <2>1. /\ result'[g] = NoResult
        /\ \A x \in Graph \ {g} : result'[x] = result[x] /\ req'[x] = req[x]
    BY <1>0, <1>7 DEF Destroy
  <2>2. QED BY <1>2, <1>3, <2>1
<1>8. ASSUME NEW g \in Graph, NEW h \in Graph, MoveAssign(g, h) PROVE Answered'
  <2>1. /\ result'[g] = NoResult /\ result'[h] = NoResult
        /\ \A x \in Graph \ {g, h} : result'[x] = result[x] /\ req'[x] = req[x]
    BY <1>0, <1>8 DEF MoveAssign
  <2>2. QED BY <1>2, <1>3, <2>1
<1>9. QED
  BY <1>1, <1>4, <1>5, <1>6, <1>7, <1>8 DEF Next, Call, vars, local, Rename, CheckHit,
     CheckMiss, CreateFile, WriteInput, WriteCommand, Execute, Commit

LEMMA InvInit == Init => Inv
<1> SUFFICES ASSUME Init PROVE Inv
  OBVIOUS
<1>1. TypeOK
  BY TypeInit
<1>2. Exclusive /\ Progress
  BY DEF Init, Exclusive, Busy, Progress, ProgressOf
<1>3. DiskConsistent
  BY NoArtifact DEF Init, DiskConsistent
<1>4. NeverAnotherArtifact /\ FreshExact
  BY DEF Init, NeverAnotherArtifact, FreshExact, NoResult
<1>5. QED BY <1>1, <1>2, <1>3, <1>4 DEF Inv

LEMMA InvStep == ASSUME Serialised PROVE Inv /\ [Next]_vars => Inv'
BY TypeStep, ExclusiveStep, ProgressStep, DiskStep, AnswerStep DEF Inv, Answered

\* The inductive invariant, for any graphs, directories, inputs and backends,
\* when no two calls on one directory overlap.
THEOREM InvCorrect == ASSUME Serialised PROVE Spec => []Inv
BY InvInit, InvStep, PTL DEF Spec

\* An artifact on disk is the one compiled from the input and the command that
\* lie beside it, the two files validateCache compares.
THEOREM DiskConsistentCorrect == ASSUME Serialised PROVE Spec => []DiskConsistent
<1>1. Inv => DiskConsistent
  BY DEF Inv
<1>2. QED BY <1>1, InvCorrect, PTL

\* A call never returns the artifact of another input or backend.
THEOREM NeverAnotherArtifactCorrect ==
  ASSUME Serialised PROVE Spec => []NeverAnotherArtifact
<1>1. Inv => NeverAnotherArtifact
  BY DEF Inv
<1>2. QED BY <1>1, InvCorrect, PTL

\* A call that regenerated the cache returns what it was asked for.
THEOREM FreshExactCorrect == ASSUME Serialised PROVE Spec => []FreshExact
<1>1. Inv => FreshExact
  BY DEF Inv
<1>2. QED BY <1>1, InvCorrect, PTL

-----------------------------------------------------------------------------
(* Callers that all pass remove = false, overlapping or not.               *)

\* What a call in progress has created is there, and so is what a cache holds.
KeepInv ==
  /\ TypeOK
  /\ \A g \in Graph : cache[g] # NoCache => ~cache[g].remove
  /\ \A g \in Graph : req[g] # NoRequest => ~req[g].remove
  /\ CacheLivesWithGraph
  /\ \A g \in Graph : pc[g] # "create" => made[g] = 0
  /\ \A g \in Graph : pc[g] = "create" =>
       \A i \in 1..3 : i <= made[g] => file[home[g]][Kinds[i]] # Absent
  /\ \A g \in Graph : pc[g] \in {"write", "command", "execute", "commit"} =>
       FilesPresent(home[g])

\* No step removes a file.
LEMMA KeepFiles ==
  ASSUME KeepInv, [Next]_vars, NEW d \in Dir, NEW k \in Kind, file[d][k] # Absent
  PROVE  file'[d][k] # Absent
<1>0. /\ file \in [Dir -> [Kind -> Content]] /\ home \in [Graph -> Dir]
      /\ req \in [Graph -> Request \cup {NoRequest}]
      /\ \A g \in Graph : pc[g] # "idle" => req[g] # NoRequest
  BY DEF KeepInv, TypeOK
<1>1. CASE file' = file
  BY <1>1
<1>2. ASSUME NEW g \in Graph, CreateFile(g) PROVE file'[d][k] # Absent
  <2>1. file' = [file EXCEPT ![home[g]][Kinds[made[g] + 1]] = Empty]
    BY <1>2 DEF CreateFile
  <2>2. Empty # Absent
    BY ContentAssumption DEF Bytes
  <2>3. QED BY <1>0, <2>1, <2>2
<1>3. ASSUME NEW g \in Graph, CreateFails(g) PROVE file'[d][k] # Absent
  BY <1>0, <1>3 DEF CreateFails, KeepInv
<1>4. ASSUME NEW g \in Graph, WriteInput(g) PROVE file'[d][k] # Absent
  <2>1. req[g].asm # Absent
    BY <1>0, <1>4, ContentAssumption DEF WriteInput, Request
  <2>2. QED BY <1>0, <1>4, <2>1 DEF WriteInput
<1>5. ASSUME NEW g \in Graph, WriteCommand(g) PROVE file'[d][k] # Absent
  <2>1. req[g].backend # Absent
    BY <1>0, <1>5, ContentAssumption DEF WriteCommand, Request
  <2>2. QED BY <1>0, <1>5, <2>1 DEF WriteCommand
<1>6. ASSUME NEW g \in Graph, Execute(g) PROVE file'[d][k] # Absent
  <2>1. <<file[home[g]]["input"], req[g].backend>> \in Artifact
    BY <1>0, <1>6 DEF Execute, Request, Artifact
  <2>2. <<file[home[g]]["input"], req[g].backend>> # Absent
    BY <2>1, NoArtifact
  <2>3. QED BY <1>0, <1>6, <2>2 DEF Execute
<1>7. ASSUME NEW g \in Graph, GenerateFails(g) PROVE file'[d][k] # Absent
  <2>1. req[g].remove = FALSE
    BY <1>0, <1>7 DEF GenerateFails, KeepInv, Request
  <2>2. PICK out \in {file[home[g]]["output"], Partial} :
          file' = [file EXCEPT ![home[g]]["output"] = out]
    BY <1>7, <2>1 DEF GenerateFails, Purged
  <2>3. Partial # Absent
    BY ContentAssumption DEF Bytes
  <2>4. QED BY <1>0, <2>2, <2>3
<1>8. ASSUME NEW g \in Graph, NEW e, file' = Purged(file, cache[g], e)
      PROVE  file'[d][k] # Absent
  BY <1>8 DEF Purged, KeepInv
<1>9. ASSUME NEW g \in Graph, Commit(g) \/ Destroy(g) PROVE file'[d][k] # Absent
  BY <1>8, <1>9 DEF Commit, Destroy
<1>10. ASSUME NEW g \in Graph, NEW h \in Graph, MoveAssign(g, h)
       PROVE  file'[d][k] # Absent
  BY <1>8, <1>10 DEF MoveAssign
<1>11. QED
  BY <1>1, <1>2, <1>3, <1>4, <1>5, <1>6, <1>7, <1>9, <1>10 DEF Next, Call, vars, Begin,
     Rename, CheckHit, CheckMiss, CheckFindsNoFile, CheckBuildFails, Read

LEMMA KeepStep ==
  ASSUME Removes = {FALSE}
  PROVE  KeepInv /\ [Next]_vars => KeepInv'
<1> SUFFICES ASSUME KeepInv, [Next]_vars PROVE KeepInv'
  OBVIOUS
<1> DEFINE Kept(g) ==
      /\ cache[g] # NoCache => ~cache[g].remove /\ FilesPresent(cache[g].dir)
      /\ req[g] # NoRequest => ~req[g].remove
      /\ pc[g] # "create" => made[g] = 0
      /\ pc[g] = "create" =>
           \A i \in 1..3 : i <= made[g] => file[home[g]][Kinds[i]] # Absent
      /\ pc[g] \in {"write", "command", "execute", "commit"} => FilesPresent(home[g])
<1>1. TypeOK /\ TypeOK'
  BY TypeStep DEF KeepInv
<1>2. \A g \in Graph : Kept(g)
  BY DEF KeepInv, CacheLivesWithGraph
<1>3. \A d \in Dir, k \in Kind : file[d][k] # Absent => file'[d][k] # Absent
  BY KeepFiles
<1>4. \A d \in Dir : FilesPresent(d) => FilesPresent(d)'
  BY <1>3 DEF FilesPresent
<1>5. /\ home \in [Graph -> Dir] /\ made \in [Graph -> 0..3] /\ pc \in [Graph -> Steps]
      /\ cache \in [Graph -> Assets \cup {NoCache}]
      /\ req \in [Graph -> Request \cup {NoRequest}]
      /\ \A g \in Graph : pc[g] # "idle" => req[g] # NoRequest
      /\ \A g \in Graph : cache[g] # NoCache => cache[g].dir \in Dir
  BY <1>1 DEF TypeOK, Assets
<1>6. ASSUME NEW g \in Graph, cache'[g] = cache[g], req'[g] = req[g],
             pc'[g] = pc[g] /\ made'[g] = made[g] /\ home'[g] = home[g]
      PROVE  Kept(g)'
  <2>1. \A i \in 1..3 : i <= made[g] /\ file[home[g]][Kinds[i]] # Absent
                          => file'[home[g]][Kinds[i]] # Absent
    BY <1>3, <1>5, KindsFacts
  <2>2. QED BY <1>2, <1>4, <1>5, <1>6, <2>1
<1>7. ASSUME NEW g \in Graph, cache'[g] \in {cache[g], NoCache}, req'[g] \in {req[g], NoRequest},
             pc'[g] \in {"idle", "check", "readCached", "readFresh"}, made'[g] = 0
      PROVE  Kept(g)'
  BY <1>2, <1>4, <1>5, <1>7
<1>8. SUFFICES ASSUME NEW g \in Graph PROVE Kept(g)'
  BY <1>1 DEF KeepInv, CacheLivesWithGraph
<1>9. CASE UNCHANGED vars
  BY <1>6, <1>9 DEF vars
<1>10. ASSUME NEW h \in Graph, h # g,
              Begin(h) \/ Call(h) \/ Rename(h) \/ Destroy(h)
       PROVE  Kept(g)'
  BY <1>5, <1>6, <1>10 DEF Begin, Rename, Destroy, Call, CheckHit, CheckMiss,
     CheckFindsNoFile, CheckBuildFails, Return, CreateFile, CreateFails, WriteInput,
     WriteCommand, Execute, GenerateFails, Commit, Read, local
<1>11. ASSUME Begin(g) PROVE Kept(g)'
  <2>1. PICK a \in Asm, b \in Backend, rm \in Removes :
          req' = [req EXCEPT ![g] = [asm |-> a, backend |-> b, remove |-> rm]]
    BY <1>11 DEF Begin
  <2>2. rm = FALSE
    OBVIOUS
  <2>3. ~req'[g].remove /\ cache' = cache /\ pc'[g] = "check" /\ made'[g] = 0
    <3>1. pc[g] = "idle"
      BY <1>11 DEF Begin, Busy
    <3>2. cache' = cache /\ made' = made /\ pc' = [pc EXCEPT ![g] = "check"]
      BY <1>11 DEF Begin
    <3>3. made'[g] = 0 /\ pc'[g] = "check"
      BY <1>2, <1>5, <3>1, <3>2
    <3>4. ~req'[g].remove
      BY <1>5, <2>1, <2>2
    <3>5. QED BY <3>2, <3>3, <3>4
  <2>4. QED BY <1>2, <1>4, <1>5, <2>3
<1>12. CASE CheckHit(g) \/ Rename(g) \/ Destroy(g)
            \/ CheckFindsNoFile(g) \/ CheckBuildFails(g) \/ CreateFails(g)
            \/ GenerateFails(g) \/ Read(g)
  <2>1. /\ cache'[g] \in {cache[g], NoCache} /\ req'[g] \in {req[g], NoRequest}
        /\ pc'[g] \in {"idle", "readCached"} /\ made'[g] = 0
    BY <1>2, <1>5, <1>12 DEF CheckHit, Rename, Destroy, CheckFindsNoFile, CheckBuildFails,
       CreateFails, GenerateFails, Read, Return, Busy, local
  <2>2. QED BY <1>7, <2>1
<1>13. CASE CheckMiss(g)
  <2>1. /\ made'[g] = 0 /\ pc'[g] = "create"
        /\ cache' = cache /\ req' = req /\ home' = home
    BY <1>2, <1>5, <1>13 DEF CheckMiss, local
  <2>2. QED BY <1>2, <1>4, <1>5, <2>1
<1>14. CASE CreateFile(g)
  <2>1. /\ file' = [file EXCEPT ![home[g]][Kinds[made[g] + 1]] = Empty]
        /\ pc[g] = "create" /\ home' = home /\ cache' = cache /\ req' = req
    BY <1>14 DEF CreateFile
  <2>2. Empty # Absent
    BY ContentAssumption DEF Bytes
  <2>3. \A i \in 1..4 : i <= made[g] + 1 => file'[home[g]][Kinds[i]] # Absent
    <3> SUFFICES ASSUME NEW i \in 1..4, i <= made[g] + 1
                 PROVE  file'[home[g]][Kinds[i]] # Absent
      OBVIOUS
    <3>1. CASE i = made[g] + 1
      BY <1>1, <1>5, <2>1, <2>2, <3>1, KindsFacts DEF TypeOK
    <3>2. CASE i # made[g] + 1
      <4>1. i \in 1..3 /\ i <= made[g]
        BY <1>5, <3>2
      <4>2. QED BY <1>2, <1>3, <1>5, <2>1, <4>1, KindsFacts
    <3>3. QED BY <3>1, <3>2
  <2>4. CASE made[g] = 3
    <3>1. pc'[g] = "write" /\ made'[g] = 0
      BY <1>5, <1>14, <2>4 DEF CreateFile
    <3>2. FilesPresent(home[g])'
      BY <2>1, <2>3, <2>4, KindsFacts DEF FilesPresent, Kind
    <3>3. QED BY <1>2, <1>4, <1>5, <2>1, <3>1, <3>2
  <2>5. CASE made[g] # 3
    <3>1. pc'[g] = "create" /\ made'[g] = made[g] + 1
      BY <1>5, <1>14, <2>5 DEF CreateFile
    <3>2. QED BY <1>2, <1>4, <1>5, <2>1, <2>3, <3>1
  <2>6. QED BY <2>4, <2>5
<1>15. CASE WriteInput(g) \/ WriteCommand(g) \/ Execute(g)
  <2>1. /\ home' = home /\ cache' = cache /\ req' = req
        /\ pc[g] \in {"write", "command", "execute"}
        /\ pc'[g] \in {"command", "execute", "commit"} /\ made'[g] = 0
    BY <1>2, <1>5, <1>15 DEF WriteInput, WriteCommand, Execute, local
  <2>2. QED BY <1>2, <1>4, <1>5, <2>1
<1>16. CASE Commit(g)
  <2>1. /\ cache'[g] = [dir |-> home[g], remove |-> req[g].remove]
        /\ pc[g] = "commit" /\ pc'[g] = "readFresh" /\ req' = req /\ home' = home
        /\ made'[g] = 0
    BY <1>2, <1>5, <1>16 DEF Commit
  <2>2. cache'[g].remove = req[g].remove /\ cache'[g].dir = home[g]
    BY <2>1
  <2>3. ~req[g].remove /\ FilesPresent(home[g])'
    BY <1>2, <1>4, <1>5, <2>1
  <2>4. FilesPresent(cache[g].dir)'
    <3>1. \A k \in Kind : file'[home[g]][k] # Absent
      BY <2>1, <2>3 DEF FilesPresent
    <3>2. \A k \in Kind : file'[cache'[g].dir][k] # Absent
      BY <2>2, <3>1
    <3>3. QED BY <3>2 DEF FilesPresent
  <2>5. cache'[g] # NoCache => ~cache'[g].remove
    BY <2>2, <2>3
  <2>6. (pc'[g] # "create" /\ pc'[g] \notin {"write", "command", "execute", "commit"})
        /\ made'[g] = 0
    BY <2>1
  <2>7. QED BY <1>2, <2>1, <2>4, <2>5, <2>6
<1>17. ASSUME NEW a \in Graph, NEW b \in Graph, MoveAssign(a, b) PROVE Kept(g)'
  <2>1. CASE g # a /\ g # b
    BY <1>5, <1>6, <1>17, <2>1 DEF MoveAssign
  <2>2. CASE g = a
    BY <1>2, <1>5, <1>7, <1>17, <2>2 DEF MoveAssign, Busy
  <2>3. CASE g = b
    <3>1. cache'[g] = cache[a] /\ req'[g] = NoRequest /\ pc'[g] = "idle" /\ made'[g] = 0
      BY <1>2, <1>5, <1>17, <2>3 DEF MoveAssign, Busy
    <3>2. QED BY <1>2, <1>4, <1>5, <3>1
  <2>4. QED BY <2>1, <2>2, <2>3
<1>18. QED
  BY <1>9, <1>10, <1>11, <1>12, <1>13, <1>14, <1>15, <1>16, <1>17 DEF Next, Call

\* When no caller asks for removal, the cached files stay while the graph does,
\* however the calls of several graphs overlap in a directory, and fail.
THEOREM CacheLivesCorrect ==
  ASSUME Removes = {FALSE} PROVE Spec => []CacheLivesWithGraph
<1>1. Init => KeepInv
  BY TypeInit DEF Init, KeepInv, CacheLivesWithGraph
<1>2. KeepInv => CacheLivesWithGraph
  BY DEF KeepInv
<1>3. QED BY <1>1, <1>2, KeepStep, PTL DEF Spec

-----------------------------------------------------------------------------
(* Callers that all pass remove = true, overlapping or not.                *)

\* File k of directory d belongs to the cache of g, or to its call.
Owns(g, d, k) ==
  \/ cache[g] # NoCache /\ cache[g].dir = d
  \/ home[g] = d /\ pc[g] \in {"write", "command", "execute", "commit"}
  \/ home[g] = d /\ pc[g] = "create" /\ \E i \in 1..3 : i <= made[g] /\ Kinds[i] = k

Owned == \A d \in Dir, k \in Kind :
  file[d][k] # Absent => \E g \in Graph : Owns(g, d, k)

RemoveInv ==
  /\ TypeOK
  /\ \A g \in Graph : cache[g] # NoCache => cache[g].remove
  /\ \A g \in Graph : req[g] # NoRequest => req[g].remove
  /\ Owned

\* A removing CachedAssets leaves no file of its directory when it goes.
LEMMA PurgedEmpties ==
  ASSUME NEW f \in [Dir -> [Kind -> Content]], NEW c \in Assets, c.remove, NEW d,
         NEW x \in Dir
  PROVE  Purged(f, c, d)[x] = IF x = c.dir /\ c.dir # d THEN NoFiles ELSE f[x]
BY NoCacheAssumption DEF Purged, Assets

\* A graph that takes no step owns what it owned.
LEMMA OwnsFrame ==
  ASSUME NEW x \in Graph, cache'[x] = cache[x], home'[x] = home[x],
         pc'[x] = pc[x], made'[x] = made[x]
  PROVE  \A d \in Dir, k \in Kind : Owns(x, d, k) => Owns(x, d, k)'
BY DEF Owns

LEMMA OwnedStep ==
  ASSUME RemoveInv, [Next]_vars
  PROVE  Owned'
<1> SUFFICES ASSUME NEW d \in Dir, NEW k \in Kind, file'[d][k] # Absent
             PROVE  \E x \in Graph : Owns(x, d, k)'
  BY DEF Owned
<1>0. /\ home \in [Graph -> Dir] /\ made \in [Graph -> 0..3] /\ pc \in [Graph -> Steps]
      /\ cache \in [Graph -> Assets \cup {NoCache}]
      /\ req \in [Graph -> Request \cup {NoRequest}]
      /\ file \in [Dir -> [Kind -> Content]]
      /\ \A g \in Graph : pc[g] # "idle" => req[g] # NoRequest
      /\ \A g \in Graph : cache[g] # NoCache => cache[g] \in Assets /\ cache[g].remove
      /\ \A g \in Graph : req[g] # NoRequest => req[g].remove
  BY DEF RemoveInv, TypeOK
<1>1. file[d][k] # Absent => \E x \in Graph : Owns(x, d, k)
  BY DEF RemoveInv, Owned
<1>2. ASSUME NEW g \in Graph,
             \A x \in Graph \ {g} : /\ cache'[x] = cache[x] /\ home'[x] = home[x]
                                    /\ pc'[x] = pc[x] /\ made'[x] = made[x],
             file[d][k] # Absent, Owns(g, d, k) => Owns(g, d, k)'
      PROVE  \E x \in Graph : Owns(x, d, k)'
  <2>1. PICK x \in Graph : Owns(x, d, k)
    BY <1>1, <1>2
  <2>2. CASE x = g
    BY <1>2, <2>1, <2>2
  <2>3. CASE x # g
    BY <1>2, <2>1, <2>3, OwnsFrame
  <2>4. QED BY <2>2, <2>3
<1>3. CASE UNCHANGED vars
  BY <1>1, <1>3, OwnsFrame DEF vars
<1>4. ASSUME NEW g \in Graph, Begin(g) \/ Rename(g) \/ CheckHit(g) \/ CheckMiss(g)
             \/ CheckFindsNoFile(g) \/ CheckBuildFails(g) \/ Read(g)
      PROVE  \E x \in Graph : Owns(x, d, k)'
  <2>1. /\ file' = file /\ cache' = cache /\ made' = made
        /\ \A x \in Graph \ {g} : home'[x] = home[x] /\ pc'[x] = pc[x]
        /\ pc[g] \in {"idle", "check", "readCached", "readFresh"}
    BY <1>0, <1>4 DEF Begin, Rename, CheckHit, CheckMiss, CheckFindsNoFile,
       CheckBuildFails, Read, Return, Busy, local
  <2>2. Owns(g, d, k) => Owns(g, d, k)'
    BY <2>1 DEF Owns
  <2>3. QED BY <1>2, <2>1, <2>2
<1>5. ASSUME NEW g \in Graph, CreateFile(g) PROVE \E x \in Graph : Owns(x, d, k)'
  <2>1. /\ file' = [file EXCEPT ![home[g]][Kinds[made[g] + 1]] = Empty]
        /\ pc[g] = "create" /\ home' = home /\ cache' = cache
        /\ \A x \in Graph \ {g} : pc'[x] = pc[x] /\ made'[x] = made[x]
    BY <1>0, <1>5 DEF CreateFile
  <2>2. \/ pc'[g] = "write"
        \/ pc'[g] = "create" /\ made'[g] = made[g] + 1 /\ made[g] + 1 \in 1..3
    BY <1>0, <1>5 DEF CreateFile
  <2>3. Owns(g, d, k) => Owns(g, d, k)'
    BY <1>0, <2>1, <2>2 DEF Owns
  <2>4. CASE d = home[g] /\ k = Kinds[made[g] + 1]
    <3>1. Owns(g, d, k)'
      BY <1>0, <2>1, <2>2, <2>4 DEF Owns
    <3>2. QED BY <3>1
  <2>5. CASE ~(d = home[g] /\ k = Kinds[made[g] + 1])
    <3>1. file[d][k] # Absent
      BY <1>0, <2>1, <2>5
    <3>2. QED BY <1>2, <2>1, <2>3, <3>1
  <2>6. QED BY <2>4, <2>5
<1>6. ASSUME NEW g \in Graph, CreateFails(g) PROVE \E x \in Graph : Owns(x, d, k)'
  <2>1. req[g].remove
    BY <1>0, <1>6 DEF CreateFails
  <2>2. file' = [file EXCEPT ![home[g]] =
                  [j \in Kind |-> IF j \in {Kinds[i] : i \in 1..made[g]}
                                    THEN Absent ELSE @[j]]]
    BY <1>6, <2>1 DEF CreateFails
  <2>3. /\ home' = home /\ cache' = cache /\ pc[g] = "create"
        /\ \A x \in Graph \ {g} : pc'[x] = pc[x] /\ made'[x] = made[x]
    BY <1>0, <1>6 DEF CreateFails, Return
  <2>4. /\ file[d][k] # Absent
        /\ ~(d = home[g] /\ k \in {Kinds[i] : i \in 1..made[g]})
    BY <1>0, <2>2
  <2>5. Owns(g, d, k) => Owns(g, d, k)'
    <3>1. ~(d = home[g] /\ \E i \in 1..3 : i <= made[g] /\ Kinds[i] = k)
      BY <1>0, <2>4
    <3>2. QED BY <2>3, <3>1 DEF Owns
  <2>6. QED BY <1>2, <2>3, <2>4, <2>5
<1>7. ASSUME NEW g \in Graph, WriteInput(g) \/ WriteCommand(g) \/ Execute(g)
      PROVE  \E x \in Graph : Owns(x, d, k)'
  <2>1. /\ home' = home /\ cache' = cache /\ made' = made
        /\ \A x \in Graph \ {g} : pc'[x] = pc[x]
        /\ pc'[g] \in {"command", "execute", "commit"}
        /\ pc[g] \in {"write", "command", "execute"}
        /\ d # home[g] => file'[d] = file[d]
    BY <1>0, <1>7 DEF WriteInput, WriteCommand, Execute, local
  <2>2. CASE d = home[g]
    <3>1. Owns(g, d, k)'
      BY <2>1, <2>2 DEF Owns
    <3>2. QED BY <3>1
  <2>3. CASE d # home[g]
    <3>1. Owns(g, d, k) => Owns(g, d, k)'
      BY <2>1, <2>3 DEF Owns
    <3>2. QED BY <1>2, <2>1, <2>3, <3>1
  <2>4. QED BY <2>2, <2>3
<1>8. ASSUME NEW g \in Graph, GenerateFails(g) PROVE \E x \in Graph : Owns(x, d, k)'
  <2>1. req[g].remove /\ [dir |-> home[g], remove |-> req[g].remove] \in Assets
    BY <1>0, <1>8 DEF GenerateFails, Request, Assets
  <2>2. PICK out \in {file[home[g]]["output"], Partial} :
          file' = Purged([file EXCEPT ![home[g]]["output"] = out],
                         [dir |-> home[g], remove |-> req[g].remove], NoDir)
    BY <1>8 DEF GenerateFails
  <2>3. home[g] # NoDir
    BY <1>0, NoCacheAssumption
  <2>4. file' = [[file EXCEPT ![home[g]]["output"] = out] EXCEPT ![home[g]] = NoFiles]
    BY <2>1, <2>2, <2>3, NoCacheAssumption DEF Purged
  <2>5. file'[d] = IF d = home[g] THEN NoFiles ELSE file[d]
    BY <1>0, <2>4
  <2>6. d # home[g] /\ file[d][k] # Absent
    BY <2>5 DEF NoFiles
  <2>7. /\ home' = home /\ cache' = cache /\ made' = made
        /\ \A x \in Graph \ {g} : pc'[x] = pc[x]
    BY <1>0, <1>8 DEF GenerateFails, Return
  <2>8. Owns(g, d, k) => Owns(g, d, k)'
    BY <2>6, <2>7 DEF Owns
  <2>9. QED BY <1>2, <2>6, <2>7, <2>8
<1>9. ASSUME NEW g \in Graph, Commit(g) PROVE \E x \in Graph : Owns(x, d, k)'
  <2>1. /\ cache'[g] = [dir |-> home[g], remove |-> req[g].remove]
        /\ home' = home /\ made' = made
        /\ \A x \in Graph \ {g} : pc'[x] = pc[x] /\ cache'[x] = cache[x]
    BY <1>0, <1>9 DEF Commit
  <2>2. CASE d = home[g]
    <3>1. cache'[g] # NoCache
      BY <1>0, <1>9, <2>1, NoCacheAssumption DEF Commit, Assets, Request
    <3>2. Owns(g, d, k)'
      BY <2>1, <2>2, <3>1 DEF Owns
    <3>3. QED BY <3>2
  <2>3. CASE d # home[g]
    <3>1. file'[d] # NoFiles
      BY DEF NoFiles
    <3>2. file' = Purged(file, cache[g], home[g])
      BY <1>9 DEF Commit
    <3>3. file'[d] = file[d] /\ ~(cache[g] # NoCache /\ cache[g].dir = d)
      <4>1. CASE cache[g] = NoCache
        BY <3>2, <4>1 DEF Purged
      <4>2. CASE cache[g] # NoCache
        <5>1. file'[d] = IF d = cache[g].dir /\ cache[g].dir # home[g]
                           THEN NoFiles ELSE file[d]
          BY <1>0, <3>2, <4>2, PurgedEmpties
        <5>2. QED BY <2>3, <3>1, <5>1
      <4>3. QED BY <4>1, <4>2
    <3>4. Owns(g, d, k) => Owns(g, d, k)'
      BY <2>3, <3>3 DEF Owns
    <3>5. QED BY <1>2, <2>1, <3>3, <3>4
  <2>4. QED BY <2>2, <2>3
<1>10. ASSUME NEW g \in Graph, Destroy(g) PROVE \E x \in Graph : Owns(x, d, k)'
  <2>1. /\ home' = home /\ made' = made /\ pc' = pc /\ pc[g] = "idle"
        /\ \A x \in Graph \ {g} : cache'[x] = cache[x]
        /\ cache[g] # NoCache /\ file' = Purged(file, cache[g], NoDir)
    BY <1>0, <1>10 DEF Destroy, Busy
  <2>2. cache[g].dir # NoDir
    BY <1>0, <2>1, NoCacheAssumption DEF Assets
  <2>3. file'[d] = IF d = cache[g].dir THEN NoFiles ELSE file[d]
    BY <1>0, <2>1, <2>2, PurgedEmpties
  <2>4. d # cache[g].dir /\ file[d][k] # Absent
    BY <2>3 DEF NoFiles
  <2>5. ~Owns(g, d, k)
    BY <2>1, <2>4 DEF Owns
  <2>6. QED BY <1>2, <2>1, <2>4, <2>5
<1>11. ASSUME NEW g \in Graph, NEW h \in Graph, MoveAssign(g, h)
       PROVE  \E x \in Graph : Owns(x, d, k)'
  <2>1. /\ cache' = [cache EXCEPT ![h] = cache[g], ![g] = NoCache]
        /\ g # h /\ pc[g] = "idle" /\ pc[h] = "idle"
        /\ home' = [home EXCEPT ![h] = home[g]]
        /\ made' = made /\ pc' = pc
    BY <1>0, <1>11 DEF MoveAssign, Busy
  <2>2. CASE cache[g] # NoCache /\ cache[g].dir = d
    <3>1. Owns(h, d, k)'
      BY <1>0, <2>1, <2>2 DEF Owns
    <3>2. QED BY <3>1
  <2>3. CASE ~(cache[g] # NoCache /\ cache[g].dir = d)
    <3>1. ~Owns(g, d, k)
      BY <2>1, <2>3 DEF Owns
    <3>2. PICK e : /\ file' = Purged(file, cache[h], e)
                   /\ e = NoDir \/ e # d
      BY <1>11, <2>3, NoCacheAssumption DEF MoveAssign
    <3>3. file'[d] # NoFiles
      BY DEF NoFiles
    <3>4. file'[d] = file[d] /\ ~(cache[h] # NoCache /\ cache[h].dir = d)
      <4>1. CASE cache[h] = NoCache
        BY <3>2, <4>1 DEF Purged
      <4>2. CASE cache[h] # NoCache
        <5>1. file'[d] = IF d = cache[h].dir /\ cache[h].dir # e
                           THEN NoFiles ELSE file[d]
          BY <1>0, <3>2, <4>2, PurgedEmpties
        <5>2. e # d
          BY <3>2, NoCacheAssumption
        <5>3. QED BY <3>3, <5>1, <5>2
      <4>3. QED BY <4>1, <4>2
    <3>5. ~Owns(h, d, k)
      BY <2>1, <3>4 DEF Owns
    <3>6. PICK x \in Graph : Owns(x, d, k)
      BY <1>1, <3>4
    <3>7. x # g /\ x # h
      BY <3>1, <3>5, <3>6
    <3>8. cache'[x] = cache[x] /\ home'[x] = home[x]
      BY <1>0, <2>1, <3>7
    <3>9. QED BY <2>1, <3>6, <3>8, OwnsFrame
  <2>4. QED BY <2>2, <2>3
<1>12. QED
  BY <1>3, <1>4, <1>5, <1>6, <1>7, <1>8, <1>9, <1>10, <1>11 DEF Next, Call

LEMMA RemoveStep ==
  ASSUME Removes = {TRUE}
  PROVE  RemoveInv /\ [Next]_vars => RemoveInv'
<1> SUFFICES ASSUME RemoveInv, [Next]_vars PROVE RemoveInv'
  OBVIOUS
<1>1. TypeOK /\ TypeOK' /\ Owned'
  BY TypeStep, OwnedStep DEF RemoveInv
<1> DEFINE Removing(g) == /\ cache[g] # NoCache => cache[g].remove
                          /\ req[g] # NoRequest => req[g].remove
<1>2. \A g \in Graph : Removing(g)
  BY DEF RemoveInv
<1>3. /\ cache \in [Graph -> Assets \cup {NoCache}] /\ pc \in [Graph -> Steps]
      /\ req \in [Graph -> Request \cup {NoRequest}]
      /\ \A g \in Graph : pc[g] # "idle" => req[g] # NoRequest
  BY <1>1 DEF TypeOK
<1>4. SUFFICES ASSUME NEW x \in Graph PROVE Removing(x)'
  BY <1>1 DEF RemoveInv
<1>5. CASE UNCHANGED <<cache, req>>
  BY <1>2, <1>5
<1>6. ASSUME NEW g \in Graph, Begin(g) PROVE Removing(x)'
  <2>1. PICK a \in Asm, b \in Backend, rm \in Removes :
          req' = [req EXCEPT ![g] = [asm |-> a, backend |-> b, remove |-> rm]]
    BY <1>6 DEF Begin
  <2>2. rm = TRUE /\ cache' = cache
    BY <1>6 DEF Begin
  <2>3. QED BY <1>2, <1>3, <2>1, <2>2
<1>7. ASSUME NEW g \in Graph, CheckFindsNoFile(g) \/ CheckBuildFails(g) \/ CreateFails(g)
             \/ GenerateFails(g) \/ Read(g)
      PROVE  Removing(x)'
  <2>1. cache' = cache /\ req' \in {req, [req EXCEPT ![g] = NoRequest]}
    BY <1>7 DEF CheckFindsNoFile, CheckBuildFails, CreateFails, GenerateFails, Read, Return
  <2>2. QED BY <1>2, <1>3, <2>1
<1>8. ASSUME NEW g \in Graph, Commit(g) PROVE Removing(x)'
  <2>1. cache' = [cache EXCEPT ![g] = [dir |-> home[g], remove |-> req[g].remove]]
        /\ req' = req /\ req[g] # NoRequest
    BY <1>3, <1>8 DEF Commit
  <2>2. QED BY <1>2, <1>3, <2>1
<1>9. ASSUME NEW g \in Graph, Destroy(g) PROVE Removing(x)'
  BY <1>2, <1>3, <1>9 DEF Destroy
<1>10. ASSUME NEW g \in Graph, NEW h \in Graph, MoveAssign(g, h) PROVE Removing(x)'
  BY <1>2, <1>3, <1>10 DEF MoveAssign
<1>11. QED
  BY <1>5, <1>6, <1>7, <1>8, <1>9, <1>10 DEF Next, Call, vars, local, Rename, CheckHit,
     CheckMiss, CreateFile, WriteInput, WriteCommand, Execute

\* When every caller asks for removal, every cache file on disk belongs to a live
\* cache or to a call in progress, however calls overlap in a directory, and fail.
THEOREM NoOrphanFilesCorrect ==
  ASSUME Removes = {TRUE} PROVE Spec => []NoOrphanFiles
<1>1. Init => RemoveInv
  BY TypeInit DEF Init, RemoveInv, Owned, NoFiles
<1>2. RemoveInv => NoOrphanFiles
  <2> SUFFICES ASSUME RemoveInv, NEW d \in Dir, file[d] # NoFiles
               PROVE  \E g \in Graph : \/ cache[g] # NoCache /\ cache[g].dir = d
                                       \/ pc[g] \notin {"idle", "check"} /\ home[g] = d
    BY DEF NoOrphanFiles
  <2>1. file[d] \in [Kind -> Content]
    BY DEF RemoveInv, TypeOK
  <2>2. PICK k \in Kind : file[d][k] # Absent
    BY <2>1 DEF NoFiles
  <2>3. PICK g \in Graph : Owns(g, d, k)
    BY <2>2 DEF RemoveInv, Owned
  <2>4. QED BY <2>3 DEF Owns
<1>3. QED BY <1>1, <1>2, RemoveStep, PTL DEF Spec

-----------------------------------------------------------------------------
(* CompileCache implements CompileService: every step of the detailed       *)
(* specification is a step of the service, or changes nothing it shows.    *)

\* What the service shows of one graph.
Asked(g) == IF req[g] = NoRequest THEN NoRequest
            ELSE [asm |-> req[g].asm, backend |-> req[g].backend]
Reply(g) == CASE result[g].status = "none" -> [status |-> "none"]
              [] result[g].status = "ok"   -> [status |-> "ok", bytes |-> result[g].bytes]
              [] OTHER                     -> [status |-> "error"]

LEMMA Shown ==
  /\ serviceCalling = [g \in Graph |-> Busy(g)]
  /\ serviceAsked   = [g \in Graph |-> Asked(g)]
  /\ serviceReply   = [g \in Graph |-> Reply(g)]
BY DEF serviceCalling, serviceAsked, serviceReply, Asked, Reply

\* A step that shows nothing.
LEMMA Stutter ==
  ASSUME req' = req, result' = result, \A g \in Graph : Busy(g)' = Busy(g)
  PROVE  UNCHANGED Service!vars
<1>1. serviceCalling' = serviceCalling
  BY DEF serviceCalling
<1>2. serviceAsked' = serviceAsked /\ serviceReply' = serviceReply
  BY DEF serviceAsked, serviceReply
<1>3. QED BY <1>1, <1>2 DEF Service!vars

\* A step after which one graph shows something else.
LEMMA Change ==
  ASSUME NEW g \in Graph,
         \A x \in Graph \ {g} :
           pc'[x] = pc[x] /\ req'[x] = req[x] /\ result'[x] = result[x]
  PROVE  /\ serviceCalling' = [serviceCalling EXCEPT ![g] = Busy(g)']
         /\ serviceAsked'   = [serviceAsked EXCEPT ![g] = Asked(g)']
         /\ serviceReply'   = [serviceReply EXCEPT ![g] = Reply(g)']
<1>1. \A x \in Graph \ {g} : Busy(x)' = Busy(x)
  BY DEF Busy
<1>2. \A x \in Graph \ {g} : Asked(x)' = Asked(x) /\ Reply(x)' = Reply(x)
  BY DEF Asked, Reply
<1>3. serviceCalling' = [serviceCalling EXCEPT ![g] = Busy(g)']
  BY <1>1 DEF serviceCalling
<1>4. serviceAsked = [x \in Graph |-> Asked(x)] /\ serviceReply = [x \in Graph |-> Reply(x)]
  BY Shown
<1>5. serviceAsked' = [x \in Graph |-> Asked(x)'] /\ serviceReply' = [x \in Graph |-> Reply(x)']
  BY DEF serviceAsked, serviceReply, Asked, Reply
<1>6. \A x \in Graph : Asked(x)' = IF x = g THEN Asked(g)' ELSE Asked(x)
  BY <1>2
<1>7. \A x \in Graph : Reply(x)' = IF x = g THEN Reply(g)' ELSE Reply(x)
  BY <1>2
<1>8. serviceAsked' = [serviceAsked EXCEPT ![g] = Asked(g)']
  BY <1>4, <1>5, <1>6
<1>9. serviceReply' = [serviceReply EXCEPT ![g] = Reply(g)']
  BY <1>4, <1>5, <1>7
<1>10. QED BY <1>3, <1>8, <1>9

\* A step after which some graphs show no answer at all.
LEMMA Forgotten ==
  ASSUME NEW S \in SUBSET Graph, pc' = pc, \A g \in S : ~Busy(g),
         \A x \in Graph \ S : req'[x] = req[x] /\ result'[x] = result[x],
         \A x \in S : req'[x] = NoRequest /\ result'[x] = NoResult
  PROVE  Service!Forget(S)
<1>1. \A g \in S : ~serviceCalling[g]
  BY DEF serviceCalling
<1>2. serviceCalling' = serviceCalling
  BY DEF serviceCalling, Busy
<1>3. serviceAsked' = [g \in Graph |-> IF g \in S THEN NoRequest ELSE serviceAsked[g]]
  BY DEF serviceAsked
<1>4. \A g \in Graph : Reply(g)' = IF g \in S THEN [status |-> "none"] ELSE Reply(g)
  BY DEF Reply, NoResult
<1>5. serviceReply' =
        [g \in Graph |-> IF g \in S THEN [status |-> "none"] ELSE serviceReply[g]]
  <2>1. serviceReply = [x \in Graph |-> Reply(x)]
    BY Shown
  <2>2. serviceReply' = [x \in Graph |-> Reply(x)']
    BY DEF serviceReply, Reply
  <2>3. QED BY <1>4, <2>1, <2>2
<1>6. QED BY <1>1, <1>2, <1>3, <1>5 DEF Service!Forget, Service!None

\* A failing call is one of the service's.
LEMMA FailedCall ==
  ASSUME TypeOK, NEW g \in Graph, Busy(g), \E r \in {Errored, Missing} : Return(g, r)
  PROVE  Service!Fail(g)
<1>1. /\ pc' = [pc EXCEPT ![g] = "idle"] /\ req' = [req EXCEPT ![g] = NoRequest]
      /\ result'[g].status \in {"error", "missing"}
      /\ \A x \in Graph \ {g} : result'[x] = result[x]
  BY DEF Return, Errored, Missing, NoResult, TypeOK
<1>2. \A x \in Graph \ {g} :
        pc'[x] = pc[x] /\ req'[x] = req[x] /\ result'[x] = result[x]
  BY <1>1 DEF TypeOK
<1>3. Asked(g)' = NoRequest /\ Reply(g)' = [status |-> "error"]
  BY <1>1 DEF TypeOK, Asked, Reply
<1>4. (Busy(g)') = FALSE
  BY <1>1 DEF Busy, TypeOK
<1>5. serviceCalling' = [serviceCalling EXCEPT ![g] = FALSE]
  BY <1>2, <1>4, Change
<1>6. /\ serviceAsked' = [serviceAsked EXCEPT ![g] = NoRequest]
      /\ serviceReply' = [serviceReply EXCEPT ![g] = [status |-> "error"]]
  BY <1>2, <1>3, Change
<1>7. serviceCalling[g]
  BY DEF serviceCalling
<1>8. QED BY <1>5, <1>6, <1>7 DEF Service!Fail, Service!Failed

LEMMA ServiceInit == Init => Service!Init
<1> SUFFICES ASSUME Init PROVE Service!Init
  OBVIOUS
<1>1. serviceCalling = [g \in Graph |-> FALSE]
  BY DEF Init, serviceCalling, Busy
<1>2. serviceAsked = [g \in Graph |-> NoRequest]
  BY DEF Init, serviceAsked
<1>3. serviceReply = [g \in Graph |-> [status |-> "none"]]
  BY DEF Init, serviceReply, NoResult
<1>4. QED BY <1>1, <1>2, <1>3 DEF Service!Init, Service!None

LEMMA ServiceStep ==
  ASSUME Inv, [Next]_vars
  PROVE  [Service!Next]_(Service!vars)
<1>0. /\ TypeOK /\ DiskConsistent /\ Progress
      /\ pc \in [Graph -> Steps] /\ req \in [Graph -> Request \cup {NoRequest}]
      /\ result \in [Graph -> Result] /\ home \in [Graph -> Dir]
      /\ \A g \in Graph : pc[g] # "idle" => req[g] # NoRequest
  BY DEF Inv, TypeOK
<1>1. CASE UNCHANGED vars
  BY <1>1, Stutter DEF vars, Busy
<1>2. ASSUME NEW g \in Graph, Begin(g) PROVE Service!Ask(g)
  <2>1. PICK a \in Asm, b \in Backend, rm \in Removes :
          req' = [req EXCEPT ![g] = [asm |-> a, backend |-> b, remove |-> rm]]
    BY <1>2 DEF Begin
  <2>2. /\ ~Busy(g) /\ pc' = [pc EXCEPT ![g] = "check"]
        /\ result' = [result EXCEPT ![g] = NoResult]
    BY <1>2 DEF Begin
  <2>3. \A x \in Graph \ {g} :
          pc'[x] = pc[x] /\ req'[x] = req[x] /\ result'[x] = result[x]
    BY <1>0, <2>1, <2>2
  <2>4. [asm |-> a, backend |-> b, remove |-> rm] # NoRequest
    BY NoRequestAssumption, RemovesAssumption DEF Request
  <2>5. Asked(g)' = [asm |-> a, backend |-> b]
    BY <1>0, <2>1, <2>4 DEF Asked
  <2>6. Reply(g)' = [status |-> "none"]
    BY <1>0, <2>2 DEF Reply, NoResult
  <2>7. (Busy(g)') = TRUE
    BY <1>0, <2>2 DEF Busy
  <2>8. serviceCalling' = [serviceCalling EXCEPT ![g] = TRUE]
    BY <2>3, <2>7, Change
  <2>9. /\ serviceAsked' = [serviceAsked EXCEPT ![g] = [asm |-> a, backend |-> b]]
        /\ serviceReply' = [serviceReply EXCEPT ![g] = [status |-> "none"]]
    BY <2>3, <2>5, <2>6, Change
  <2>10. ~serviceCalling[g]
    BY <2>2 DEF serviceCalling
  <2>11. [asm |-> a, backend |-> b] \in Service!Question
    BY DEF Service!Question
  <2>12. QED BY <2>8, <2>9, <2>10, <2>11 DEF Service!Ask, Service!None
<1>3. ASSUME NEW g \in Graph, CheckFindsNoFile(g) \/ CheckBuildFails(g) \/ CreateFails(g)
             \/ GenerateFails(g)
      PROVE  Service!Fail(g)
  <2>1. Busy(g) /\ \E r \in {Errored, Missing} : Return(g, r)
    BY <1>3 DEF CheckFindsNoFile, CheckBuildFails, CreateFails, GenerateFails, Busy
  <2>2. QED BY <1>0, <2>1, FailedCall
<1>4. ASSUME NEW g \in Graph, Read(g) PROVE Service!Fail(g) \/ Service!Succeed(g)
  <2> DEFINE out == file[home[g]]["output"]
  <2>0. Busy(g) /\ pc[g] \in {"readFresh", "readCached"}
    BY <1>4 DEF Read, Busy
  <2>1. CASE out = Absent
    <3>1. Return(g, Missing)
      BY <1>4, <2>1 DEF Read
    <3>2. QED BY <1>0, <2>0, <3>1, FailedCall
  <2>2. CASE out # Absent
    <3>1. Return(g, [status |-> "ok", bytes |-> out, fresh |-> pc[g] = "readFresh"])
      BY <1>4, <2>2 DEF Read
    <3>2. /\ req' = req /\ pc' = [pc EXCEPT ![g] = "idle"]
          /\ result'[g].status = "ok" /\ result'[g].bytes = out
          /\ \A x \in Graph \ {g} : result'[x] = result[x]
      BY <1>0, <3>1 DEF Return
    <3>3. \A x \in Graph \ {g} :
            pc'[x] = pc[x] /\ req'[x] = req[x] /\ result'[x] = result[x]
      BY <1>0, <3>2
    <3>4. out \in {Empty, Partial} \cup {<<req[g].asm, req[g].backend>>}
      <4>1. out \in Artifact \cup {Empty, Partial}
        BY <1>0, <2>2 DEF TypeOK, ContentOf, Bytes
      <4>2. file[home[g]]["input"] = req[g].asm /\ file[home[g]]["command"] = req[g].backend
        BY <1>0, <2>0 DEF Progress, ProgressOf
      <4>3. req[g].asm \in Asm /\ req[g].backend \in Backend
        BY <1>0, <2>0 DEF Request
      <4>4. Consistent(file[home[g]])
        BY <1>0 DEF DiskConsistent
      <4>5. QED BY <4>1, <4>2, <4>3, <4>4 DEF Consistent
    <3>5. Reply(g)' = [status |-> "ok", bytes |-> out]
      BY <3>2 DEF Reply
    <3>6. Asked(g)' = Asked(g)
      BY <3>2 DEF Asked
    <3>7. (Busy(g)') = FALSE
      BY <1>0, <3>2 DEF Busy
    <3>8. serviceCalling' = [serviceCalling EXCEPT ![g] = FALSE]
      BY <3>3, <3>7, Change
    <3>9. serviceReply' = [serviceReply EXCEPT ![g] = [status |-> "ok", bytes |-> out]]
      BY <3>3, <3>5, Change
    <3>10. serviceAsked' = serviceAsked
      BY <3>2 DEF serviceAsked
    <3>11. /\ serviceAsked[g].asm = req[g].asm
           /\ serviceAsked[g].backend = req[g].backend
           /\ serviceCalling[g]
      BY <1>0, <2>0, Shown DEF Asked, serviceCalling
    <3>12. QED BY <3>4, <3>8, <3>9, <3>10, <3>11 DEF Service!Succeed, Service!Answer
  <2>3. QED BY <2>1, <2>2
<1>5. ASSUME NEW g \in Graph, Destroy(g) PROVE Service!Forget({g})
  <2>1. /\ pc' = pc /\ ~Busy(g)
        /\ \A x \in Graph \ {g} : req'[x] = req[x] /\ result'[x] = result[x]
        /\ req'[g] = NoRequest /\ result'[g] = NoResult
    BY <1>0, <1>5 DEF Destroy
  <2>2. QED BY <2>1, Forgotten
<1>6. ASSUME NEW g \in Graph, NEW h \in Graph, MoveAssign(g, h)
      PROVE  Service!Forget({g, h})
  <2>1. /\ pc' = pc /\ ~Busy(g) /\ ~Busy(h)
        /\ \A x \in Graph \ {g, h} : req'[x] = req[x] /\ result'[x] = result[x]
        /\ \A x \in {g, h} : req'[x] = NoRequest /\ result'[x] = NoResult
    BY <1>0, <1>6 DEF MoveAssign
  <2>2. QED BY <2>1, Forgotten
<1>7. ASSUME NEW g \in Graph,
             Rename(g) \/ CheckHit(g) \/ CheckMiss(g) \/ CreateFile(g) \/ WriteInput(g)
             \/ WriteCommand(g) \/ Execute(g) \/ Commit(g)
      PROVE  UNCHANGED Service!vars
  <2>1. req' = req /\ result' = result
    BY <1>7 DEF Rename, CheckHit, CheckMiss, CreateFile, WriteInput, WriteCommand,
       Execute, Commit, local
  <2>2. \A x \in Graph : pc'[x] = pc[x] \/ (pc[x] # "idle" /\ pc'[x] # "idle")
    BY <1>0, <1>7 DEF Rename, CheckHit, CheckMiss, CreateFile, WriteInput, WriteCommand,
       Execute, Commit
  <2>3. \A x \in Graph : Busy(x)' = Busy(x)
    BY <2>2 DEF Busy
  <2>4. QED BY <2>1, <2>3, Stutter
<1>8. CASE Next
  <2>1. PICK g \in Graph : \/ Begin(g) \/ Call(g) \/ Rename(g) \/ Destroy(g)
                           \/ \E h \in Graph : MoveAssign(g, h)
    BY <1>8 DEF Next
  <2>2. CASE Begin(g) \/ Call(g) \/ Rename(g)
    BY <1>2, <1>3, <1>4, <1>7, <2>2 DEF Call, Service!Next
  <2>3. CASE Destroy(g)
    <3>1. {g} \in SUBSET Graph
      OBVIOUS
    <3>2. QED BY <1>5, <2>3, <3>1 DEF Service!Next
  <2>4. ASSUME NEW h \in Graph, MoveAssign(g, h) PROVE Service!Next
    <3>1. {g, h} \in SUBSET Graph
      OBVIOUS
    <3>2. QED BY <1>6, <2>4, <3>1 DEF Service!Next
  <2>5. QED BY <2>1, <2>2, <2>3, <2>4
<1>9. QED BY <1>1, <1>8

\* compileToArtifact, with its cache, its files, its failures and other graphs in
\* its directory, implements the service, when no two calls on one directory overlap.
THEOREM ImplementsServiceCorrect ==
  ASSUME Serialised PROVE Spec => ImplementsService
<1>1. Init => Service!Init
  BY ServiceInit
<1>2. Inv /\ [Next]_vars => [Service!Next]_(Service!vars)
  BY ServiceStep
<1>3. Spec => []Inv
  BY InvCorrect
<1>4. QED BY <1>1, <1>2, <1>3, PTL DEF Spec, ImplementsService, Service!Spec
=============================================================================
