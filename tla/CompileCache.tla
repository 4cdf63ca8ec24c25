---------------------------- MODULE CompileCache ----------------------------
(***************************************************************************)
(* The compile cache of fusilli: Graph::getCompiledArtifact, the cache     *)
(* files it owns, and the readFileBytes with which compileToArtifact ends. *)
(*                                                                         *)
(* A Graph object compiles into a directory that its sanitised name        *)
(* selects.  Four files live there: the MLIR input, the VMFB output, the   *)
(* compile command and the statistics.  The object keeps a CachedAssets    *)
(* record of the directory and of whether its files go when it goes; the   *)
(* contents live on disk only, and any other Graph whose name sanitises to *)
(* the same directory writes the same files.                               *)
(*                                                                         *)
(* A call is a sequence of steps, one per file-system effect, so that      *)
(* calls of several graphs interleave and a call can fail between any two  *)
(* of its effects.                                                         *)
(***************************************************************************)
EXTENDS Naturals, FiniteSets

CONSTANTS
  Graph,       \* slots for Graph objects; a destroyed one leaves its slot to a new object
  Dir,         \* cache directories, one per sanitised graph name
  Asm,         \* MLIR texts emitAsm may return; a graph may be edited between calls
  Backend,     \* backends; in one directory the command text is determined by the backend
  Removes,     \* the values callers pass as `remove`
  Serialised,  \* callers never run two calls on one directory at the same time
  Absent, Empty, Partial,  \* a file that is not there, is empty, or was only partly written
  NoCache,     \* std::nullopt for cache_
  NoDir,       \* the empty path of a moved-from CacheFile
  NoRequest    \* no successful call to speak of

Artifact == Asm \X Backend          \* the bytes iree-compile makes of an input
Bytes    == Artifact \cup {Empty, Partial}

ASSUME RemovesAssumption == Removes \subseteq BOOLEAN /\ Serialised \in BOOLEAN
ASSUME ContentAssumption ==
  /\ Absent \notin Bytes \cup Asm \cup Backend
  /\ Empty  \notin Artifact \cup Asm \cup Backend
  /\ Partial \notin Artifact \cup Asm \cup Backend
  /\ Empty # Partial
  /\ Asm \cap Backend = {}
  /\ Artifact \cap (Asm \cup Backend) = {}

Kinds   == <<"input", "output", "command", "statistics">>
Kind    == {"input", "output", "command", "statistics"}
Content == Bytes \cup Asm \cup Backend \cup {Absent}
Assets  == [dir : Dir, remove : BOOLEAN]

ASSUME NoCacheAssumption == NoCache \notin Assets /\ NoDir \notin Dir


VARIABLES
  home,    \* home[g]: the directory g's current name selects (CacheFile::getPath)
  cache,   \* cache[g]: Graph::cache_, NoCache or the CachedAssets held
  pc,      \* pc[g]: where g's call stands
  made,    \* made[g]: how many of Kinds the call has created
  req,     \* req[g]: the arguments of g's call, or of the one that succeeded last
  result,  \* result[g]: what g's latest call returned
  file,    \* file[d][k]: content of file k of directory d
  dirs     \* the directories that exist

vars  == <<home, cache, pc, made, req, result, file, dirs>>
local == <<home, cache, made, req, result>>

Steps   == {"idle", "check", "create", "write", "command", "execute",
            "commit", "readFresh", "readCached"}
Request == [asm : Asm, backend : Backend, remove : BOOLEAN]
ASSUME NoRequestAssumption == NoRequest \notin Request
Result  == [status : {"none", "ok", "error", "missing"},
            bytes  : Bytes, fresh : BOOLEAN]

NoFiles  == [k \in Kind |-> Absent]
NoResult == [status |-> "none", bytes |-> Empty, fresh |-> FALSE]
Errored  == [NoResult EXCEPT !.status = "error"]
Missing  == [NoResult EXCEPT !.status = "missing"]

\* What each of the files can hold.
ContentOf(f) ==
  /\ f["input"]   \in Asm \cup {Absent, Empty}
  /\ f["command"] \in Backend \cup {Absent, Empty}
  /\ f["output"]  \in Bytes \cup {Absent}

TypeOK ==
  /\ home   \in [Graph -> Dir]
  /\ cache  \in [Graph -> Assets \cup {NoCache}]
  /\ pc     \in [Graph -> Steps]
  /\ made   \in [Graph -> 0..3]
  /\ req    \in [Graph -> Request \cup {NoRequest}]
  /\ \A g \in Graph : pc[g] # "idle" => req[g] # NoRequest
  /\ result \in [Graph -> Result]
  /\ file   \in [Dir -> [Kind -> Content]]
  /\ \A d \in Dir : ContentOf(file[d])
  /\ dirs   \in SUBSET Dir

Init ==
  /\ home   \in [Graph -> Dir]
  /\ cache  = [g \in Graph |-> NoCache]
  /\ pc     = [g \in Graph |-> "idle"]
  /\ made   = [g \in Graph |-> 0]
  /\ req    = [g \in Graph |-> NoRequest]
  /\ result = [g \in Graph |-> NoResult]
  /\ file   = [d \in Dir |-> NoFiles]
  /\ dirs   = {}

-----------------------------------------------------------------------------
(* The RAII helpers of support/cache.h.                                    *)

\* Mutant of Purged: only the destructor of CacheFile removes files, and its move
\* assignment does not.
PurgedOnDestruction(f, c, d) ==
  IF c # NoCache /\ c.remove /\ d = NoDir THEN [f EXCEPT ![c.dir] = NoFiles] ELSE f

\* The files left when the CacheFiles of c are destroyed, or assigned from
\* ones whose paths are in directory d: a file being taken over is kept.
Purged(f, c, d) ==
  IF c # NoCache /\ c.remove /\ c.dir # d
    THEN [f EXCEPT ![c.dir] = NoFiles] ELSE f

\* ~CleanupCacheDirectory of directory d, after its files became f.
Swept(f, d) == IF f[d] = NoFiles THEN dirs \ {d} ELSE dirs

\* The directories a call or a destruction of g may touch.
Touches(g) == {home[g]} \cup (IF cache[g] = NoCache THEN {} ELSE {cache[g].dir})

Busy(g) == pc[g] # "idle"

\* Serialised callers keep off the directories of a call in progress.
MayTouch(g) ==
  Serialised => \A h \in Graph \ {g} : Busy(h) => Touches(g) \cap Touches(h) = {}

-----------------------------------------------------------------------------
(* getCompiledArtifact(backend, generatedAsm, remove)                      *)

Begin(g) == \E a \in Asm, b \in Backend, rm \in Removes :
  /\ ~Busy(g)
  /\ MayTouch(g)
  /\ pc'     = [pc EXCEPT ![g] = "check"]
  /\ req'    = [req EXCEPT ![g] = [asm |-> a, backend |-> b, remove |-> rm]]
  /\ result' = [result EXCEPT ![g] = NoResult]
  /\ UNCHANGED <<home, cache, made, file, dirs>>

\* validateCache, up to the point where a session may be built.
PathsMatch(g)   == cache[g] # NoCache /\ cache[g].dir = home[g]
FilesPresent(d) == \A k \in Kind : file[d][k] # Absent

\* Mutants: validateCache forgets the input, or the command.
AnyInput(g)   == TRUE
AnyCommand(g) == TRUE

InputMatches(g)   == file[home[g]]["input"] = req[g].asm
CommandMatches(g) == file[home[g]]["command"] = req[g].backend

Return(g, r) ==
  /\ pc'     = [pc EXCEPT ![g] = "idle"]
  /\ result' = [result EXCEPT ![g] = r]
  /\ req'    = IF r.status = "ok" THEN req ELSE [req EXCEPT ![g] = NoRequest]

CheckHit(g) ==
  /\ pc[g] = "check"
  /\ PathsMatch(g) /\ FilesPresent(home[g]) /\ InputMatches(g) /\ CommandMatches(g)
  /\ pc' = [pc EXCEPT ![g] = "readCached"]
  /\ UNCHANGED <<local, file, dirs>>

CheckMiss(g) ==
  /\ pc[g] = "check"
  /\ \/ ~PathsMatch(g)
     \/ FilesPresent(home[g]) /\ ~(InputMatches(g) /\ CommandMatches(g))
  /\ pc' = [pc EXCEPT ![g] = "create"]
  /\ UNCHANGED <<local, file, dirs>>

\* CacheFile::open fails on a file that is gone, and the error is returned.
CheckFindsNoFile(g) ==
  /\ pc[g] = "check"
  /\ PathsMatch(g) /\ ~FilesPresent(home[g])
  /\ Return(g, Missing)
  /\ UNCHANGED <<home, cache, made, file, dirs>>

\* CompileSession::build fails while the expected command is computed.
CheckBuildFails(g) ==
  /\ pc[g] = "check"
  /\ PathsMatch(g) /\ FilesPresent(home[g]) /\ InputMatches(g)
  /\ Return(g, Errored)
  /\ UNCHANGED <<home, cache, made, file, dirs>>

(* generateCompiledArtifact                                                *)

\* Mutant of CreateFile: a file that is there already is not truncated.
CreateFileKeeps(g) ==
  LET k == Kinds[made[g] + 1] IN
  /\ pc[g] = "create"
  /\ file' = IF file[home[g]][k] = Absent
               THEN [file EXCEPT ![home[g]][k] = Empty] ELSE file
  /\ dirs' = dirs \cup {home[g]}
  /\ pc'   = IF made[g] = 3 THEN [pc EXCEPT ![g] = "write"] ELSE pc
  /\ made' = [made EXCEPT ![g] = IF @ = 3 THEN 0 ELSE @ + 1]
  /\ UNCHANGED <<home, cache, req, result>>

\* CacheFile::create: make the directory, truncate the next file.
CreateFile(g) ==
  /\ pc[g] = "create"
  /\ file' = [file EXCEPT ![home[g]][Kinds[made[g] + 1]] = Empty]
  /\ dirs' = dirs \cup {home[g]}
  /\ IF made[g] = 3
       THEN /\ pc' = [pc EXCEPT ![g] = "write"]
            /\ made' = [made EXCEPT ![g] = 0]
       ELSE /\ made' = [made EXCEPT ![g] = @ + 1]
            /\ UNCHANGED pc
  /\ UNCHANGED <<home, cache, req, result>>

\* CacheFile::create fails: the CacheFiles made so far are destroyed.  There
\* is no CachedAssets yet, so nothing sweeps the directory.
CreateFails(g) ==
  LET gone == {Kinds[i] : i \in 1..made[g]} IN
  /\ pc[g] = "create"
  /\ file' = IF req[g].remove
               THEN [file EXCEPT ![home[g]] =
                       [k \in Kind |-> IF k \in gone THEN Absent ELSE @[k]]]
               ELSE file
  /\ dirs' \in {dirs, dirs \cup {home[g]}}
  /\ made' = [made EXCEPT ![g] = 0]
  /\ Return(g, Errored)
  /\ UNCHANGED <<home, cache>>

\* The ofstream of CacheFile::write creates or truncates the file.
WriteInput(g) ==
  /\ pc[g] = "write"
  /\ home[g] \in dirs
  /\ file' = [file EXCEPT ![home[g]]["input"] = req[g].asm]
  /\ pc'   = [pc EXCEPT ![g] = "command"]
  /\ UNCHANGED <<local, dirs>>

WriteCommand(g) ==
  /\ pc[g] = "command"
  /\ home[g] \in dirs
  /\ file' = [file EXCEPT ![home[g]]["command"] = req[g].backend]
  /\ pc'   = [pc EXCEPT ![g] = "execute"]
  /\ UNCHANGED <<local, dirs>>

\* Mutant of Execute: the exit status of the compiler is not looked at.
ExecuteUnchecked(g) ==
  /\ pc[g] = "execute"
  /\ \E out \in {<<file[home[g]]["input"], req[g].backend>>, Empty} :
       file' = [file EXCEPT ![home[g]]["output"] = out]
  /\ pc' = [pc EXCEPT ![g] = "commit"]
  /\ UNCHANGED <<local, dirs>>

\* The compiler reads the input from disk and writes the output there.
Execute(g) ==
  /\ pc[g] = "execute"
  /\ file[home[g]]["input"] \in Asm
  /\ file' = [file EXCEPT ![home[g]]["output"] =
                <<file[home[g]]["input"], req[g].backend>>]
  /\ pc'   = [pc EXCEPT ![g] = "commit"]
  /\ UNCHANGED <<local, dirs>>

\* A write, CompileSession::build or the compiler fails, the last perhaps
\* with the output half written; the local CachedAssets is destroyed.
GenerateFails(g) ==
  LET d == home[g]
      own == [dir |-> d, remove |-> req[g].remove]
  IN
  /\ pc[g] \in {"write", "command", "execute"}
  /\ \E out \in {file[d]["output"]} \cup
                 (IF pc[g] = "execute" /\ d \in dirs THEN {Partial} ELSE {}) :
       file' = Purged([file EXCEPT ![d]["output"] = out], own, NoDir)
  /\ dirs' = Swept(file', d)
  /\ Return(g, Errored)
  /\ UNCHANGED <<home, cache, made>>

\* cache_ = std::move(generated).  The base class has no move operations: its
\* cacheDir is copied, so the old directory is forgotten and the destructor of
\* the moved-from CachedAssets sweeps the new one.
Commit(g) ==
  /\ pc[g] = "commit"
  /\ file'  = Purged(file, cache[g], home[g])
  /\ dirs'  = Swept(file', home[g])
  /\ cache' = [cache EXCEPT ![g] = [dir |-> home[g], remove |-> req[g].remove]]
  /\ pc'    = [pc EXCEPT ![g] = "readFresh"]
  /\ UNCHANGED <<home, made, req, result>>

\* readFileBytes(vmfbPath): whatever the output file holds by now.
Read(g) ==
  LET out == file[home[g]]["output"] IN
  /\ pc[g] \in {"readFresh", "readCached"}
  /\ Return(g, IF out = Absent THEN Missing
               ELSE [status |-> "ok", bytes |-> out, fresh |-> pc[g] = "readFresh"])
  /\ UNCHANGED <<home, cache, made, file, dirs>>

-----------------------------------------------------------------------------
(* What else happens to Graph objects between calls.                       *)

\* setName
Rename(g) == \E d \in Dir \ {home[g]} :
  /\ ~Busy(g)
  /\ home' = [home EXCEPT ![g] = d]
  /\ UNCHANGED <<cache, pc, made, req, result, file, dirs>>

\* ~Graph; the slot is then a new Graph's.
Destroy(g) ==
  /\ ~Busy(g)
  /\ cache[g] # NoCache
  /\ MayTouch(g)
  /\ file'   = Purged(file, cache[g], NoDir)
  /\ dirs'   = Swept(file', cache[g].dir)
  /\ cache'  = [cache EXCEPT ![g] = NoCache]
  /\ result' = [result EXCEPT ![g] = NoResult]
  /\ req'    = [req EXCEPT ![g] = NoRequest]
  /\ UNCHANGED <<home, pc, made>>

\* Mutant of MoveAssign: g lives on, with the moved-from CachedAssets.
MoveAssignKeeps(g, h) ==
  /\ g # h /\ ~Busy(g) /\ ~Busy(h) /\ MayTouch(g) /\ MayTouch(h)
  /\ cache[g] # NoCache
  /\ home'  = [home EXCEPT ![h] = home[g]]
  /\ cache' = [cache EXCEPT ![h] = cache[g], ![g] = [dir |-> NoDir, remove |-> FALSE]]
  /\ file'  = Purged(file, cache[h], cache[g].dir)
  /\ UNCHANGED <<pc, made, req, result, dirs>>

\* h = std::move(g), after which g goes out of scope.
MoveAssign(g, h) ==
  /\ g # h
  /\ ~Busy(g) /\ ~Busy(h)
  /\ MayTouch(g) /\ MayTouch(h)
  /\ cache[g] # NoCache \/ cache[h] # NoCache
  /\ home'   = [home EXCEPT ![h] = home[g]]
  /\ cache'  = [cache EXCEPT ![h] = cache[g], ![g] = NoCache]
  /\ result' = [result EXCEPT ![h] = NoResult, ![g] = NoResult]
  /\ req'    = [req EXCEPT ![h] = NoRequest, ![g] = NoRequest]
  /\ IF cache[g] = NoCache
       THEN /\ file' = Purged(file, cache[h], NoDir)
            /\ dirs' = Swept(file', cache[h].dir)
       ELSE /\ file' = Purged(file, cache[h], cache[g].dir)
            /\ dirs' = Swept(file', cache[g].dir)
  /\ UNCHANGED <<pc, made>>

-----------------------------------------------------------------------------
Call(g) ==
  \/ CheckHit(g) \/ CheckMiss(g) \/ CheckFindsNoFile(g) \/ CheckBuildFails(g)
  \/ CreateFile(g) \/ CreateFails(g)
  \/ WriteInput(g) \/ WriteCommand(g) \/ Execute(g) \/ GenerateFails(g)
  \/ Commit(g) \/ Read(g)

Next == \E g \in Graph :
  \/ Begin(g) \/ Call(g) \/ Rename(g) \/ Destroy(g)
  \/ \E h \in Graph : MoveAssign(g, h)

Spec == Init /\ [][Next]_vars

-----------------------------------------------------------------------------
(* Properties.                                                             *)

\* A complete artifact on disk is the one compiled from the input and for the
\* backend recorded beside it, whatever calls failed and whichever graphs took
\* turns in the directory: generateCompiledArtifact truncates the output before
\* it writes the new input and command.  validateCache relies on this, as it
\* compares the input and the command and never looks at the output.
Consistent(f) ==
  f["output"] \in Artifact /\ f["input"] \in Asm /\ f["command"] \in Backend
    => f["output"] = <<f["input"], f["command"]>>

DiskConsistent == \A d \in Dir : Consistent(file[d])

\* A call never returns the artifact of another input or another backend, be it
\* an earlier version of this graph or a graph whose name selects the same
\* directory (the test "should not read cached items from other/previous Graph
\* instances").  It says nothing of a truncated output: see ResultExact.
NeverAnotherArtifact == \A g \in Graph :
  result[g].status = "ok" /\ result[g].bytes \in Artifact
    => result[g].bytes = <<req[g].asm, req[g].backend>>

\* A call that regenerated the cache returns the artifact it was asked for.
FreshExact == \A g \in Graph :
  result[g].status = "ok" /\ result[g].fresh
    => result[g].bytes = <<req[g].asm, req[g].backend>>

\* Every successful call returns the artifact it was asked for ("Return compiled
\* artifact", getCompiledArtifact).
ResultExact == \A g \in Graph :
  result[g].status = "ok" => result[g].bytes = <<req[g].asm, req[g].backend>>

\* When every caller passes remove = true, no cache file outlives its users: a
\* file on disk belongs to a live cache or to a call that is generating it,
\* through failures, renames, moves and shared directories.
NoOrphanFiles == \A d \in Dir :
  file[d] # NoFiles =>
    \E g \in Graph :
      \/ cache[g] # NoCache /\ cache[g].dir = d
      \/ pc[g] \notin {"idle", "check"} /\ home[g] = d

\* The cached files of a graph are on disk as long as the graph is ("tied to the
\* lifetime of the Graph instance", README).
CacheLivesWithGraph == \A g \in Graph :
  cache[g] # NoCache => FilesPresent(cache[g].dir)

-----------------------------------------------------------------------------
(* The inductive invariant of the serialised specification.                *)

\* No two calls in progress touch one directory.
Exclusive == \A g, h \in Graph :
  g # h /\ Busy(g) /\ Busy(h) => Touches(g) \cap Touches(h) = {}

\* What a call in progress has put into its directory so far.
ProgressOf(g) ==
  LET f == file[home[g]] IN
  /\ pc[g] # "create" => made[g] = 0
  /\ pc[g] = "create" =>
       \A i \in 1..3 : i <= made[g] => f[Kinds[i]] = Empty
  /\ pc[g] \in {"write", "command", "execute"} => f["output"] = Empty
  /\ pc[g] \in {"write", "command"} => f["command"] = Empty
  /\ pc[g] \in {"command", "execute", "commit", "readFresh", "readCached"}
       => f["input"] = req[g].asm
  /\ pc[g] \in {"execute", "commit", "readFresh", "readCached"}
       => f["command"] = req[g].backend
  /\ pc[g] \in {"commit", "readFresh"}
       => f["output"] = <<req[g].asm, req[g].backend>>
  /\ pc[g] = "readCached" => f["output"] # Absent

Progress == \A g \in Graph : ProgressOf(g)

Inv ==
  /\ TypeOK
  /\ Exclusive
  /\ Progress
  /\ DiskConsistent
  /\ NeverAnotherArtifact
  /\ FreshExact

-----------------------------------------------------------------------------
(* The abstract specification this one implements.                         *)

serviceCalling == [g \in Graph |-> Busy(g)]
serviceAsked   == [g \in Graph |->
  IF req[g] = NoRequest THEN NoRequest
  ELSE [asm |-> req[g].asm, backend |-> req[g].backend]]
serviceReply   == [g \in Graph |->
  CASE result[g].status = "none" -> [status |-> "none"]
    [] result[g].status = "ok"   -> [status |-> "ok", bytes |-> result[g].bytes]
    [] OTHER                     -> [status |-> "error"]]

Service == INSTANCE CompileService WITH
  Torn <- {Empty, Partial}, NoQuestion <- NoRequest,
  calling <- serviceCalling, asked <- serviceAsked, reply <- serviceReply

\* compileToArtifact, with its cache, files, failures and shared directories,
\* keeps the promise of CompileService.
ImplementsService == Service!Spec
=============================================================================
