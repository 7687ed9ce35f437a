-------------------------- MODULE AnalysisCoordinator --------------------------
(***************************************************************************)
(* The analysis cache of the language server: AnalysisCoordinator in        *)
(* packages/language-server/src/server/analysis-coordinator.ts, for one     *)
(* project.  Edits, closed documents and watched files move a revision      *)
(* forward; requests are answered from analyses that read the files one     *)
(* after the other, reuse what the cached analysis had of unchanged files,  *)
(* and start again when the revision has moved.  Between two turns of the   *)
(* event loop a request waits for an analysis; everything that follows the  *)
(* end of one happens in that turn.                                         *)
(***************************************************************************)
EXTENDS Naturals, FiniteSets

CONSTANTS
  File,                \* the modules of the project, one in each file
  Dependents,          \* the modules to be analysed again when one has changed
  Context,             \* the cache keys: what the package.json files resolve to
  Request,             \* the requests of the client
  MaxIncrementalRuns,  \* maxIncrementalAnalysisRuns
  Text,                \* what may be written in a file
  Kind,                \* what is asked for, of "core" and "navigation"
  MaxRevision          \* bound: revisions

ASSUME AnalysisAssumption ==
  /\ Dependents \in [File -> SUBSET File] /\ \A f \in File : f \in Dependents[f]
  /\ Kind \subseteq {"core", "navigation"}
  /\ MaxIncrementalRuns \in Nat /\ MaxRevision \in Nat

VARIABLES
  revision,
  openDocuments,            \* a map: the texts of the documents that are open
  disk,                     \* the texts of the files
  manifest,                 \* what the package.json files say
  packageContext,           \* a map with at most one key, the entry of the project
  unannounced,              \* the files changed on disk the watcher has to report
  manifestUnannounced,
  closing,                  \* removeDocument waits for the disk
  watching,                 \* the files of a watch event that waits for the disk
  changedFilesByRevision,   \* a map
  coreCache, navigationCache,  \* maps
  coreInFlight,             \* the analyses in progress
  requests,                 \* what each request waits for
  answers                   \* the answers given in the last step

editVars == <<openDocuments, disk, manifest>>
watchVars == <<unannounced, manifestUnannounced, closing, watching>>
cacheVars == <<coreCache, navigationCache, coreInFlight, requests, packageContext>>
vars == <<revision, changedFilesByRevision, editVars, watchVars, cacheVars, answers>>

Entry == "entry"              \* the entry path of the project
Revision == 0..MaxRevision
IsMap(m, keys, values) == DOMAIN m \subseteq keys /\ m \in [DOMAIN m -> values]

CoreEntry ==
  [revision : Revision,
   graph : [File -> Text],          \* the texts the modules were parsed from
   semantics : [File -> Text],      \* ... and those their semantics describe
   recomputed : SUBSET File, runs : 0..MaxIncrementalRuns]
NavigationEntry == [revision : Revision, index : [File -> Text]]
Analysis ==
  [context : Context, revision : Revision,
   cached : SUBSET CoreEntry,       \* none or one
   at : {"starting", "reading"}, changed : SUBSET File,
   toRead : SUBSET File, read : UNION {[files -> Text] : files \in SUBSET File}]
Idle == [at |-> "idle"]
RequestState ==
  {Idle} \cup [at : {"waiting"}, kind : Kind, context : Context, revision : Revision]
Answer == [kind : Kind, context : Context, content : [File -> Text]]

TypeOK ==
  /\ revision \in Revision
  /\ disk \in [File -> Text] /\ IsMap(openDocuments, File, Text)
  /\ manifest \in Context /\ IsMap(packageContext, {Entry}, Context)
  /\ unannounced \subseteq File /\ manifestUnannounced \in BOOLEAN
  /\ closing \subseteq File /\ watching \subseteq File
  /\ IsMap(changedFilesByRevision, 1..revision, SUBSET File)
  /\ IsMap(coreCache, Context, CoreEntry)
  /\ IsMap(navigationCache, Context, NavigationEntry)
  /\ coreInFlight \subseteq Analysis
  /\ requests \in [Request -> RequestState]
  /\ answers \subseteq Answer

NoKeys == [k \in {} |-> 0]

Init ==
  /\ revision = 0
  /\ openDocuments = NoKeys
  /\ \E t \in Text : disk = [f \in File |-> t]
  /\ manifest \in Context
  /\ packageContext = NoKeys
  /\ unannounced = {} /\ manifestUnannounced = FALSE
  /\ closing = {} /\ watching = {}
  /\ changedFilesByRevision = NoKeys
  /\ coreCache = NoKeys /\ navigationCache = NoKeys
  /\ coreInFlight = {}
  /\ requests = [q \in Request |-> Idle]
  /\ answers = {}

-----------------------------------------------------------------------------
Put(map, key, value) ==
  [k \in DOMAIN map \cup {key} |-> IF k = key THEN value ELSE map[k]]
Only(map, keys) == [k \in DOMAIN map \cap keys |-> map[k]]

(* What the overlay module host reads.                                      *)
TextOf(f) == IF f \in DOMAIN openDocuments THEN openDocuments[f] ELSE disk[f]

(* Mutant: the changed files are not recorded.                              *)
RegisterNothing(files) ==
  /\ revision' = revision + 1
  /\ UNCHANGED changedFilesByRevision

(* registerFileChanges.                                                     *)
RegisterFileChanges(files) ==
  /\ revision' = revision + 1
  /\ changedFilesByRevision' = Put(changedFilesByRevision, revision + 1, files)

ChangedFilesSince(n) ==
  UNION {changedFilesByRevision[m] : m \in {k \in DOMAIN changedFilesByRevision : k > n}}

(* Bound: every change that has begun can still be given its revision.      *)
MayChange ==
  revision + Cardinality(closing) + (IF watching = {} THEN 0 ELSE 1) < MaxRevision

-----------------------------------------------------------------------------
(* The editor.  A document is opened with the text of its file, or edited.  *)
UpdateDocument(f) ==
  /\ MayChange
  /\ \E t \in Text : openDocuments' = Put(openDocuments, f, t)
  /\ answers' = {}
  /\ RegisterFileChanges({f})
  /\ UNCHANGED <<disk, manifest, watchVars, cacheVars>>

(* removeDocument up to its await, and what follows it.                     *)
RemoveDocument(f) ==
  /\ MayChange
  /\ f \in DOMAIN openDocuments
  /\ f \notin closing                            \* bound: one at a time
  /\ openDocuments' = Only(openDocuments, File \ {f})
  /\ closing' = closing \cup {f}
  /\ answers' = {}
  /\ UNCHANGED <<revision, changedFilesByRevision, disk, manifest, unannounced,
                 manifestUnannounced, watching, cacheVars>>

DocumentRemoved(f) ==
  /\ f \in closing
  /\ closing' = closing \ {f}
  /\ answers' = {}
  /\ RegisterFileChanges({f})
  /\ UNCHANGED <<editVars, unannounced, manifestUnannounced, watching, cacheVars>>

(* A file is saved, or written by somebody else.                            *)
DiskChanges(f) ==
  /\ MayChange
  /\ f \notin unannounced                        \* bound: one unreported change
  /\ \E t \in Text \ {disk[f]} : disk' = [disk EXCEPT ![f] = t]
  /\ answers' = {}
  /\ unannounced' = unannounced \cup {f}
  /\ UNCHANGED <<revision, changedFilesByRevision, openDocuments, manifest,
                 manifestUnannounced, closing, watching, cacheVars>>

ManifestChanges ==
  /\ MayChange
  /\ \E c \in Context \ {manifest} : manifest' = c
  /\ manifestUnannounced' = TRUE
  /\ answers' = {}
  /\ UNCHANGED <<revision, changedFilesByRevision, openDocuments, disk,
                 unannounced, closing, watching, cacheVars>>

(* handleWatchedFileChanges up to its await: package.json files at once.    *)
WatchedFilesChange(files, withManifest) ==
  /\ MayChange
  /\ watching = {}                               \* bound: one event at a time
  /\ files # {} \/ withManifest
  /\ files \subseteq unannounced /\ (withManifest => manifestUnannounced)
  /\ unannounced' = unannounced \ files
  /\ manifestUnannounced' = (manifestUnannounced /\ ~withManifest)
  /\ packageContext' = IF withManifest THEN NoKeys ELSE packageContext
  /\ watching' = files
  /\ answers' = {}
  /\ revision' = IF files = {} /\ DOMAIN packageContext # {} THEN revision + 1 ELSE revision
  /\ UNCHANGED <<changedFilesByRevision, editVars, closing, coreCache, navigationCache,
                 coreInFlight, requests>>

WatchedFilesChanged ==
  /\ watching # {}
  /\ watching' = {}
  /\ answers' = {}
  /\ RegisterFileChanges(watching)
  /\ UNCHANGED <<editVars, unannounced, manifestUnannounced, closing, cacheVars>>

-----------------------------------------------------------------------------
(* getNavigationForContext: the index of the entry's revision.              *)
Navigation(c, entry) ==
  LET had == c \in DOMAIN navigationCache
  IN IF had /\ navigationCache[c].revision = entry.revision THEN navigationCache[c]
     ELSE [revision |-> entry.revision,
           index |-> [f \in File |->
             IF had /\ f \notin entry.recomputed THEN navigationCache[c].index[f]
             ELSE entry.semantics[f]]]

CurrentUnchecked(c, cache) == c \in DOMAIN cache          \* mutant: any entry
Current(c, cache) == c \in DOMAIN cache /\ cache[c].revision = revision

(* getCoreForContext, for requests that reach it in the same turn: the      *)
(* cached entry if it is current, the analysis of this revision if one is   *)
(* in progress, and a new one otherwise.                                    *)
GetCore(asking, kinds, c, cache, inFlight) ==
  IF Current(c, cache)
  THEN LET navigation == Navigation(c, cache[c])
       IN /\ requests' = [q \in Request |-> IF q \in asking THEN Idle ELSE requests[q]]
          /\ answers' = {[kind |-> kinds[q], context |-> c,
                          content |-> IF kinds[q] = "core" THEN cache[c].semantics
                                      ELSE navigation.index] : q \in asking}
          /\ navigationCache' = IF \E q \in asking : kinds[q] = "navigation"
                                THEN Put(navigationCache, c, navigation)
                                ELSE navigationCache
          /\ coreInFlight' = inFlight
  ELSE /\ requests' = [q \in Request |->
            IF q \notin asking THEN requests[q]
            ELSE [at |-> "waiting", kind |-> kinds[q], context |-> c, revision |-> revision]]
       /\ coreInFlight' =
            IF asking = {} \/ \E run \in inFlight : run.context = c /\ run.revision = revision
            THEN inFlight
            ELSE inFlight \cup
                 {[context |-> c, revision |-> revision, at |-> "starting",
                   cached |-> {cache[k] : k \in DOMAIN cache \cap {c}},
                   changed |-> {}, toRead |-> {}, read |-> NoKeys]}
       /\ answers' = {}
       /\ UNCHANGED navigationCache

(* getCoreForUri or getNavigationForUri, from resolveUriContext on.         *)
Ask(q, kind) ==
  /\ requests[q].at # "waiting"
  /\ LET c == IF Entry \in DOMAIN packageContext THEN packageContext[Entry] ELSE manifest
     IN /\ packageContext' = Put(packageContext, Entry, c)
        /\ GetCore({q}, [r \in {q} |-> kind], c, coreCache, coreInFlight)
  /\ UNCHANGED <<revision, changedFilesByRevision, editVars, watchVars, coreCache>>

-----------------------------------------------------------------------------
Stale(run) == run.revision # revision
Waiting(run) ==
  {q \in Request : /\ requests[q].at = "waiting"
                   /\ requests[q].context = run.context
                   /\ requests[q].revision = run.revision}

(* Mutant: the requests that waited are forgotten.                          *)
AgainForgotten(run, cache) ==
  /\ coreInFlight' = coreInFlight \ {run}
  /\ answers' = {}
  /\ UNCHANGED <<requests, navigationCache>>

(* The requests that waited for the run ask again, in their own context.    *)
Again(run, cache) ==
  GetCore(Waiting(run), [q \in Waiting(run) |-> requests[q].kind], run.context, cache,
          coreInFlight \ {run})

(* A check of isCancelled, or of the module host, finds the run stale.      *)
RunIsCancelled(run) ==
  /\ Stale(run)
  /\ Again(run, coreCache)
  /\ UNCHANGED <<revision, changedFilesByRevision, editVars, watchVars, coreCache, packageContext>>

(* The analysis begins, after ensureInitialized.  It reads the changed      *)
(* files only if the modules there were import what they did (the graph is  *)
(* reused), and otherwise all of them.                                      *)
RunBegins(run) ==
  /\ run.at = "starting" /\ ~Stale(run)
  /\ LET changed == UNION {ChangedFilesSince(e.revision) : e \in run.cached}
     IN \E files \in {File} \cup (IF changed = {} THEN {} ELSE {changed}) :
          coreInFlight' = (coreInFlight \ {run}) \cup
            {[run EXCEPT !.at = "reading", !.changed = changed, !.toRead = files]}
  /\ answers' = {}
  /\ UNCHANGED <<revision, changedFilesByRevision, editVars, watchVars, coreCache,
                 navigationCache, requests, packageContext>>

RunReads(run, f) ==
  /\ run.at = "reading" /\ ~Stale(run)
  /\ f \in run.toRead
  /\ coreInFlight' = (coreInFlight \ {run}) \cup
       {[run EXCEPT !.toRead = @ \ {f}, !.read = Put(@, f, TextOf(f))]}
  /\ answers' = {}
  /\ UNCHANGED <<revision, changedFilesByRevision, editVars, watchVars, coreCache,
                 navigationCache, requests, packageContext>>

(* The read of the entry file fails, for example: the error is thrown to    *)
(* every request that waits.  A run may fail before it finds itself stale.  *)
RunFails(run) ==
  /\ run.at = "reading"
  /\ coreInFlight' = coreInFlight \ {run}
  /\ answers' = {}
  /\ requests' = [q \in Request |-> IF q \in Waiting(run) THEN Idle ELSE requests[q]]
  /\ UNCHANGED <<revision, changedFilesByRevision, editVars, watchVars, coreCache,
                 navigationCache, packageContext>>

(* The changed modules and those that depend on them are analysed again.    *)
Recomputed(changed) == UNION {Dependents[f] : f \in changed}

ReusesOnceMore(run) == \E e \in run.cached : e.runs <= MaxIncrementalRuns   \* mutant
Reuses(run) == \E e \in run.cached : e.runs < MaxIncrementalRuns

(* analyzeProjectCoreIncremental once everything has been read.             *)
EntryOf(run) ==
  LET reuse == Reuses(run)
      before == CHOOSE e \in run.cached : TRUE
      again == IF reuse THEN Recomputed(run.changed) ELSE File
      graph == [f \in File |-> IF f \in DOMAIN run.read THEN run.read[f] ELSE before.graph[f]]
  IN [revision |-> run.revision, graph |-> graph,
      semantics |-> [f \in File |-> IF f \in again THEN graph[f] ELSE before.semantics[f]],
      recomputed |-> again, runs |-> IF reuse THEN before.runs + 1 ELSE 0]

(* Mutant: the history is cut at the newest entry.                          *)
PrunedToNewest(cache) ==
  Only(changedFilesByRevision, {n \in Revision : \A c \in DOMAIN cache : cache[c].revision < n})

(* pruneChangedFileHistory: what the oldest entry does not need.            *)
Pruned(cache) ==
  Only(changedFilesByRevision, {n \in Revision : \E c \in DOMAIN cache : cache[c].revision < n})

RunSucceeds(run) ==
  /\ run.at = "reading" /\ ~Stale(run)
  /\ run.toRead = {}
  /\ LET cache == Put(coreCache, run.context, EntryOf(run))
     IN /\ coreCache' = cache
        /\ changedFilesByRevision' = Pruned(cache)
        /\ Again(run, cache)
  /\ UNCHANGED <<revision, editVars, watchVars, packageContext>>

RunMoves(run) ==
  \/ RunIsCancelled(run) \/ RunBegins(run) \/ RunFails(run) \/ RunSucceeds(run)
  \/ \E f \in File : RunReads(run, f)

Edits(f) == UpdateDocument(f) \/ RemoveDocument(f) \/ DocumentRemoved(f) \/ DiskChanges(f)
Watcher ==
  \/ ManifestChanges \/ WatchedFilesChanged
  \/ \E files \in SUBSET File, withManifest \in BOOLEAN : WatchedFilesChange(files, withManifest)
Analyses == \E run \in coreInFlight : RunMoves(run)

Next ==
  \/ \E f \in File : Edits(f)
  \/ Watcher
  \/ \E q \in Request, kind \in Kind : Ask(q, kind)
  \/ Analyses

Spec == Init /\ [][Next]_vars

(* Each file is read in the end, with success or not, so every analysis     *)
(* comes to an end; the rest is the client's and the watcher's.             *)
AnalysisOf(c, n) == \E run \in coreInFlight : run.context = c /\ run.revision = n /\ RunMoves(run)
FairSpec == Spec /\ \A c \in Context, n \in Revision : WF_vars(AnalysisOf(c, n))
-----------------------------------------------------------------------------
(* The files about which the coordinator cannot know yet.                   *)
Unsettled == unannounced \cup closing \cup watching

(* The history of changes reaches back to the oldest entry: what an entry   *)
(* has wrong of a settled file will be in the changed files of the analysis *)
(* that starts from it (changedFilesSince, pruneChangedFileHistory).        *)
HistoryKept ==
  \A c \in DOMAIN coreCache : \A f \in File \ Unsettled :
    coreCache[c].semantics[f] # TextOf(f) => f \in ChangedFilesSince(coreCache[c].revision)

(* An answer with an analysis describes the texts at the moment it is given *)
(* ("preempts stale core runs during rapid edits").                         *)
FreshNow(answer) == \A f \in File \ Unsettled : answer.content[f] = TextOf(f)
CoreAnswersFresh == \A answer \in answers : answer.kind = "core" => FreshNow(answer)

(* A request is answered, or told of the failure, however often its         *)
(* analysis is preempted and started again, since edits end.                *)
RequestsAnswered ==
  \A q \in Request : (requests[q].at = "waiting") ~> (requests[q].at # "waiting")

-----------------------------------------------------------------------------
(* An index is returned only `if (runRevision === this.#revision)`: it      *)
(* describes the current texts too (getNavigationForUri).                   *)
NavigationAnswersFresh ==
  \A answer \in answers : answer.kind = "navigation" => FreshNow(answer)
=============================================================================
