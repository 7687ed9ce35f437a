---------------------- MODULE AnalysisCoordinatorProofs ----------------------
(***************************************************************************)
(* What AnalysisCoordinator keeps for every project, every set of texts,    *)
(* contexts and requests and every limit: the types (TypeCorrect), that the *)
(* history of changes reaches back to the oldest analysis in the cache      *)
(* (HistoryAlwaysKept), and that an answer with an analysis describes the   *)
(* texts of the moment it is given (AnswersAlwaysFresh).                    *)
(***************************************************************************)
EXTENDS AnalysisCoordinator, FiniteSetTheorems, TLAPS

-----------------------------------------------------------------------------
(* Maps.                                                                    *)
LEMMA PutMap ==
  ASSUME NEW keys, NEW values, NEW m, IsMap(m, keys, values), NEW k \in keys, NEW v \in values
  PROVE  IsMap(Put(m, k, v), keys, values)
<1>1. \A j \in DOMAIN m : m[j] \in values  BY DEF IsMap
<1> QED  BY <1>1 DEF IsMap, Put

LEMMA OnlyMap ==
  ASSUME NEW keys, NEW values, NEW m, IsMap(m, keys, values), NEW kept
  PROVE  IsMap(Only(m, kept), keys, values)
<1>1. \A j \in DOMAIN m : m[j] \in values  BY DEF IsMap
<1> QED  BY <1>1 DEF IsMap, Only

LEMMA EmptyMap == ASSUME NEW keys, NEW values PROVE IsMap(NoKeys, keys, values)
BY DEF IsMap, NoKeys

-----------------------------------------------------------------------------
(* An analysis in progress: it starts from one cached entry at most, and it *)
(* has read, or will read, every file or all that its entry has wrong.      *)
Covers(run) ==
  \/ DOMAIN run.read \cup run.toRead = File
  \/ run.cached # {} /\ run.changed \subseteq DOMAIN run.read \cup run.toRead

Formed(run) ==
  /\ \A d, e \in run.cached : d = e
  /\ run.at = "reading" => Covers(run)

(* Every change that has begun can still be given its revision.             *)
Bounded ==
  /\ IsFiniteSet(closing)
  /\ revision + Cardinality(closing) + (IF watching = {} THEN 0 ELSE 1) <= MaxRevision

Books == TypeOK /\ Bounded /\ \A run \in coreInFlight : Formed(run)

LEMMA Readings == \A m : m \in UNION {[files -> Text] : files \in SUBSET File} <=> IsMap(m, File, Text)
<1> SUFFICES ASSUME NEW m
             PROVE  m \in UNION {[files -> Text] : files \in SUBSET File} <=> IsMap(m, File, Text)
  OBVIOUS
<1>1. ASSUME NEW files \in SUBSET File, m \in [files -> Text]  PROVE IsMap(m, File, Text)
  BY <1>1 DEF IsMap
<1>2. ASSUME IsMap(m, File, Text)  PROVE \E files \in SUBSET File : m \in [files -> Text]
  BY <1>2 DEF IsMap
<1> QED  BY <1>1, <1>2

LEMMA Parts ==
  ASSUME NEW run \in Analysis
  PROVE  /\ run.context \in Context /\ run.revision \in Revision
         /\ run.cached \in SUBSET CoreEntry /\ run.at \in {"starting", "reading"}
         /\ run.changed \in SUBSET File /\ run.toRead \in SUBSET File
         /\ IsMap(run.read, File, Text)
BY Readings DEF Analysis

LEMMA Started ==
  ASSUME NEW c \in Context, NEW n \in Revision, NEW cached \in SUBSET CoreEntry,
         NEW at \in {"starting", "reading"}, NEW changed \in SUBSET File,
         NEW toRead \in SUBSET File, NEW read, IsMap(read, File, Text)
  PROVE  [context |-> c, revision |-> n, at |-> at, cached |-> cached, changed |-> changed,
          toRead |-> toRead, read |-> read] \in Analysis
<1>1. read \in UNION {[files -> Text] : files \in SUBSET File}  BY Readings
<1> QED  BY <1>1 DEF Analysis

(* The entry an analysis ends in: what it has read, and for the rest what   *)
(* its cached entry has of files that have not changed.                     *)
LEMMA EntryFacts ==
  ASSUME NEW run \in Analysis, Formed(run), run.at = "reading", run.toRead = {}
  PROVE  /\ EntryOf(run) \in CoreEntry /\ EntryOf(run).revision = run.revision
         /\ \A f \in File :
              \/ f \in DOMAIN run.read /\ EntryOf(run).graph[f] = run.read[f]
              \/ f \notin run.changed /\ \E e \in run.cached : EntryOf(run).graph[f] = e.graph[f]
         /\ \A f \in File :
              \/ EntryOf(run).semantics[f] = EntryOf(run).graph[f]
              \/ f \notin run.changed
                   /\ \E e \in run.cached : EntryOf(run).semantics[f] = e.semantics[f]
<1> DEFINE reuse == Reuses(run)
           before == CHOOSE e \in run.cached : TRUE
           again == IF reuse THEN Recomputed(run.changed) ELSE File
           graph == [f \in File |-> IF f \in DOMAIN run.read THEN run.read[f] ELSE before.graph[f]]
           semantics == [f \in File |-> IF f \in again THEN graph[f] ELSE before.semantics[f]]
           runs == IF reuse THEN before.runs + 1 ELSE 0
<1>1. EntryOf(run) = [revision |-> run.revision, graph |-> graph, semantics |-> semantics,
                      recomputed |-> again, runs |-> runs]
  BY DEF EntryOf
<1>2. /\ run.revision \in Revision /\ run.cached \in SUBSET CoreEntry
      /\ run.changed \in SUBSET File /\ IsMap(run.read, File, Text)
  BY Parts
<1>3. run.cached # {} => before \in run.cached /\ before \in CoreEntry  BY <1>2
<1>4. ASSUME NEW f \in File, f \notin DOMAIN run.read
      PROVE  run.cached # {} /\ f \notin run.changed
  BY <1>4 DEF Formed, Covers
<1>5. \A f \in DOMAIN run.read : run.read[f] \in Text  BY <1>2 DEF IsMap
<1>6. ASSUME run.cached # {}
      PROVE  /\ before.graph \in [File -> Text] /\ before.semantics \in [File -> Text]
             /\ before.runs \in 0..MaxIncrementalRuns
  BY <1>3, <1>6 DEF CoreEntry
<1>7. reuse => run.cached # {} /\ before.runs < MaxIncrementalRuns
  BY <1>3 DEF Reuses, Formed
<1> HIDE DEF before
<1>8. graph \in [File -> Text]  BY <1>4, <1>5, <1>6
<1>9. again \in SUBSET File /\ \A f \in run.changed : f \in again
  <2>1. Recomputed(run.changed) \in SUBSET File
        /\ \A f \in run.changed : f \in Recomputed(run.changed)
    BY <1>2, AnalysisAssumption DEF Recomputed
  <2> QED  BY <1>2, <2>1
<1>10. ASSUME NEW f \in File, f \notin again  PROVE run.cached # {} /\ f \notin run.changed
  BY <1>7, <1>9, <1>10
<1> HIDE DEF graph
<1>11. semantics \in [File -> Text]  BY <1>6, <1>8, <1>10
<1>12. runs \in 0..MaxIncrementalRuns  BY <1>6, <1>7, AnalysisAssumption
<1>13. \A f \in File : semantics[f] = IF f \in again THEN graph[f] ELSE before.semantics[f]
  OBVIOUS
<1>14. \A f \in File : graph[f] = IF f \in DOMAIN run.read THEN run.read[f] ELSE before.graph[f]
  BY DEF graph
<1> HIDE DEF again, semantics, runs, reuse
<1>15. EntryOf(run) \in CoreEntry  BY <1>1, <1>2, <1>8, <1>9, <1>11, <1>12 DEF CoreEntry
<1>16. /\ EntryOf(run).revision = run.revision /\ EntryOf(run).graph = graph
       /\ EntryOf(run).semantics = semantics
  BY <1>1
<1>17. ASSUME NEW f \in File
       PROVE  \/ f \in DOMAIN run.read /\ graph[f] = run.read[f]
              \/ f \notin run.changed /\ \E e \in run.cached : graph[f] = e.graph[f]
  BY <1>3, <1>4, <1>14
<1>18. ASSUME NEW f \in File
       PROVE  \/ semantics[f] = graph[f]
              \/ f \notin run.changed /\ \E e \in run.cached : semantics[f] = e.semantics[f]
  BY <1>3, <1>10, <1>13
<1> QED  BY <1>15, <1>16, <1>17, <1>18

-----------------------------------------------------------------------------
(* The types.                                                               *)
LEMMA Texts == ASSUME TypeOK, NEW f \in File PROVE TextOf(f) \in Text
BY DEF TypeOK, IsMap, TextOf

LEMMA NavigationIs ==
  ASSUME TypeOK, NEW c \in Context, NEW entry \in CoreEntry
  PROVE  Navigation(c, entry) \in NavigationEntry
<1>1. c \in DOMAIN navigationCache => navigationCache[c] \in NavigationEntry
  BY DEF TypeOK, IsMap
<1> DEFINE had == c \in DOMAIN navigationCache
           kept == [f \in File |-> IF had /\ f \notin entry.recomputed
                                   THEN navigationCache[c].index[f] ELSE entry.semantics[f]]
<1>2. kept \in [File -> Text]  BY <1>1 DEF NavigationEntry, CoreEntry
<1>3. entry.revision \in Revision  BY DEF CoreEntry
<1>4. Navigation(c, entry) = IF had /\ navigationCache[c].revision = entry.revision
                             THEN navigationCache[c]
                             ELSE [revision |-> entry.revision, index |-> kept]
  BY DEF Navigation
<1> HIDE DEF kept
<1>5. [revision |-> entry.revision, index |-> kept] \in NavigationEntry
  BY <1>2, <1>3 DEF NavigationEntry
<1> QED  BY <1>1, <1>4, <1>5

LEMMA GetCoreBooks ==
  ASSUME Books, NEW asking \in SUBSET Request, NEW kinds, \A q \in asking : kinds[q] \in Kind,
         NEW c \in Context, NEW cache, IsMap(cache, Context, CoreEntry),
         NEW inFlight \in SUBSET coreInFlight,
         GetCore(asking, kinds, c, cache, inFlight)
  PROVE  /\ requests' \in [Request -> RequestState] /\ answers' \subseteq Answer
         /\ IsMap(navigationCache', Context, NavigationEntry)
         /\ coreInFlight' \subseteq Analysis
         /\ \A run \in coreInFlight' : Formed(run)
<1>1. /\ revision \in Revision /\ requests \in [Request -> RequestState]
      /\ IsMap(navigationCache, Context, NavigationEntry)
      /\ coreInFlight \subseteq Analysis
      /\ \A run \in coreInFlight : Formed(run)
  BY DEF Books, TypeOK
<1>2. \A k \in DOMAIN cache : cache[k] \in CoreEntry /\ k \in Context  BY DEF IsMap
<1>3. CASE Current(c, cache)
  <2>1. c \in DOMAIN cache /\ cache[c] \in CoreEntry  BY <1>2, <1>3 DEF Current
  <2>2. PICK navigation \in NavigationEntry : navigation = Navigation(c, cache[c])
    BY <2>1, NavigationIs DEF Books
  <2>3. /\ requests' = [q \in Request |-> IF q \in asking THEN Idle ELSE requests[q]]
        /\ answers' = {[kind |-> kinds[q], context |-> c,
                        content |-> IF kinds[q] = "core" THEN cache[c].semantics
                                    ELSE navigation.index] : q \in asking}
        /\ navigationCache' \in {Put(navigationCache, c, navigation), navigationCache}
        /\ coreInFlight' = inFlight
    BY <1>3, <2>2 DEF GetCore
  <2>4. requests' \in [Request -> RequestState]  BY <1>1, <2>3 DEF RequestState
  <2>5. cache[c].semantics \in [File -> Text] /\ navigation.index \in [File -> Text]
    BY <2>1 DEF CoreEntry, NavigationEntry
  <2>6. answers' \subseteq Answer  BY <2>3, <2>5 DEF Answer
  <2>7. IsMap(navigationCache', Context, NavigationEntry)  BY <1>1, <2>3, PutMap
  <2> QED  BY <1>1, <2>3, <2>4, <2>6, <2>7
<1>4. CASE ~Current(c, cache)
  <2> DEFINE run == [context |-> c, revision |-> revision, at |-> "starting",
                     cached |-> {cache[k] : k \in DOMAIN cache \cap {c}},
                     changed |-> {}, toRead |-> {}, read |-> NoKeys]
  <2>1. /\ requests' = [q \in Request |->
               IF q \notin asking THEN requests[q]
               ELSE [at |-> "waiting", kind |-> kinds[q], context |-> c, revision |-> revision]]
        /\ coreInFlight' \in {inFlight, inFlight \cup {run}}
        /\ answers' = {} /\ UNCHANGED navigationCache
    BY <1>4 DEF GetCore
  <2>2. requests' \in [Request -> RequestState]  BY <1>1, <2>1 DEF RequestState
  <2>3. {cache[k] : k \in DOMAIN cache \cap {c}} \in SUBSET CoreEntry  BY <1>2
  <2>4. run \in Analysis  BY <1>1, <2>3, EmptyMap, Started
  <2>5. Formed(run)  BY DEF Formed
  <2> HIDE DEF run
  <2> QED  BY <1>1, <2>1, <2>2, <2>4, <2>5
<1> QED  BY <1>3, <1>4

LEMMA Registered ==
  ASSUME TypeOK, NEW files \in SUBSET File, RegisterFileChanges(files),
         revision + 1 <= MaxRevision
  PROVE  /\ revision' = revision + 1 /\ revision' \in Revision
         /\ IsMap(changedFilesByRevision', 1..revision', SUBSET File)
         /\ DOMAIN changedFilesByRevision' = DOMAIN changedFilesByRevision \cup {revision + 1}
         /\ changedFilesByRevision'[revision + 1] = files
         /\ \A k \in DOMAIN changedFilesByRevision :
              /\ k \in 1..revision
              /\ changedFilesByRevision'[k] = changedFilesByRevision[k]
<1>1. revision \in Nat /\ revision' = revision + 1
      /\ changedFilesByRevision' = Put(changedFilesByRevision, revision + 1, files)
  BY DEF TypeOK, Revision, RegisterFileChanges
<1>2. revision' \in Revision  BY <1>1, AnalysisAssumption DEF Revision
<1>3. IsMap(changedFilesByRevision, 1..revision, SUBSET File)  BY DEF TypeOK
<1>4. IsMap(changedFilesByRevision, 1..revision', SUBSET File)
  <2>1. 1..revision \subseteq 1..revision'  BY <1>1
  <2> QED  BY <1>3, <2>1 DEF IsMap
<1>5. revision + 1 \in 1..revision'  BY <1>1
<1>6. \A k \in DOMAIN changedFilesByRevision : k \in 1..revision /\ k # revision + 1
  BY <1>1, <1>3 DEF IsMap
<1>7. IsMap(changedFilesByRevision', 1..revision', SUBSET File)
  BY <1>1, <1>4, <1>5, PutMap
<1>8. /\ DOMAIN changedFilesByRevision' = DOMAIN changedFilesByRevision \cup {revision + 1}
      /\ changedFilesByRevision'[revision + 1] = files
      /\ \A k \in DOMAIN changedFilesByRevision :
           k # revision + 1 => changedFilesByRevision'[k] = changedFilesByRevision[k]
  BY <1>1 DEF Put
<1> QED  BY <1>1, <1>2, <1>6, <1>7, <1>8

(* The changes that are under way, and the one that begins or ends.         *)
LEMMA Closing ==
  ASSUME Books, NEW f \in File
  PROVE  /\ IsFiniteSet(closing) /\ Cardinality(closing) \in Nat
         /\ IsFiniteSet(closing \cup {f}) /\ IsFiniteSet(closing \ {f})
         /\ f \notin closing => Cardinality(closing \cup {f}) = Cardinality(closing) + 1
         /\ f \in closing => Cardinality(closing \ {f}) = Cardinality(closing) - 1
                             /\ Cardinality(closing) > 0
<1>1. IsFiniteSet(closing)  BY DEF Books, Bounded
<1>2. IsFiniteSet(closing \ {f}) /\ Cardinality(closing \ {f}) \in Nat
  BY <1>1, FS_RemoveElement, FS_CardinalityType
<1>3. Cardinality(closing) \in Nat  BY <1>1, FS_CardinalityType
<1>4. f \in closing => Cardinality(closing \ {f}) = Cardinality(closing) - 1
  BY <1>1, FS_RemoveElement
<1>5. f \in closing => Cardinality(closing) > 0  BY <1>2, <1>3, <1>4
<1>6. IsFiniteSet(closing \cup {f})
      /\ (f \notin closing => Cardinality(closing \cup {f}) = Cardinality(closing) + 1)
  BY <1>1, FS_AddElement
<1> QED  BY <1>1, <1>2, <1>3, <1>4, <1>5, <1>6

LEMMA EditsBooks ==
  ASSUME Books, NEW f \in File, Edits(f)
  PROVE  Books'
<1> USE DEF Books
<1>1. revision \in Nat /\ MaxRevision \in Nat  BY AnalysisAssumption DEF TypeOK, Revision
<1>2. /\ UNCHANGED <<manifest, packageContext, manifestUnannounced, watching, coreCache,
                     navigationCache, coreInFlight, requests>>
      /\ answers' = {}
  BY DEF Edits, UpdateDocument, RemoveDocument, DocumentRemoved, DiskChanges, watchVars,
         cacheVars, editVars
<1>3. Cardinality(closing) \in Nat /\ IsFiniteSet(closing)  BY Closing
<1> DEFINE watched == IF watching = {} THEN 0 ELSE 1
<1>4. watched \in Nat  OBVIOUS
<1>5. watched' = watched  BY <1>2
<1>6. revision + Cardinality(closing) + watched <= MaxRevision  BY DEF Bounded
<1>7. MayChange => revision + Cardinality(closing) + watched < MaxRevision  BY DEF MayChange
<1> HIDE DEF watched
<1>8. CASE UpdateDocument(f)
  <2>1. /\ RegisterFileChanges({f}) /\ UNCHANGED <<disk, unannounced, closing>>
        /\ \E t \in Text : openDocuments' = Put(openDocuments, f, t)
    BY <1>8 DEF UpdateDocument, watchVars
  <2>2. revision + 1 <= MaxRevision  BY <1>1, <1>3, <1>4, <1>7, <1>8 DEF UpdateDocument
  <2>3. revision' = revision + 1 /\ revision' \in Revision
        /\ IsMap(changedFilesByRevision', 1..revision', SUBSET File)
    BY <2>1, <2>2, Registered
  <2>4. IsMap(openDocuments', File, Text)  BY <2>1, PutMap DEF TypeOK
  <2>5. revision' + Cardinality(closing') + watched' <= MaxRevision
    BY <1>1, <1>3, <1>4, <1>5, <1>7, <1>8, <2>1, <2>3 DEF UpdateDocument
  <2> QED  BY <1>2, <1>3, <2>1, <2>3, <2>4, <2>5 DEF TypeOK, Bounded, watched
<1>9. CASE RemoveDocument(f)
  <2>1. /\ f \notin closing /\ closing' = closing \cup {f}
        /\ openDocuments' = Only(openDocuments, File \ {f})
        /\ UNCHANGED <<revision, changedFilesByRevision, disk, unannounced>>
    BY <1>9 DEF RemoveDocument
  <2>2. IsMap(openDocuments', File, Text)  BY <2>1, OnlyMap DEF TypeOK
  <2>3. IsFiniteSet(closing') /\ Cardinality(closing') = Cardinality(closing) + 1
    BY <2>1, Closing
  <2>4. revision' + Cardinality(closing') + watched' <= MaxRevision
    BY <1>1, <1>3, <1>4, <1>5, <1>7, <1>9, <2>1, <2>3 DEF RemoveDocument
  <2> QED  BY <1>2, <2>1, <2>2, <2>3, <2>4 DEF TypeOK, Bounded, watched
<1>10. CASE DocumentRemoved(f)
  <2>1. /\ f \in closing /\ closing' = closing \ {f} /\ RegisterFileChanges({f})
        /\ UNCHANGED <<openDocuments, disk, unannounced>>
    BY <1>10 DEF DocumentRemoved, editVars
  <2>2. IsFiniteSet(closing') /\ Cardinality(closing') = Cardinality(closing) - 1
        /\ Cardinality(closing) > 0
    BY <2>1, Closing
  <2>3. revision + 1 <= MaxRevision  BY <1>1, <1>3, <1>4, <1>6, <2>2
  <2>4. revision' = revision + 1 /\ revision' \in Revision
        /\ IsMap(changedFilesByRevision', 1..revision', SUBSET File)
    BY <2>1, <2>3, Registered
  <2>5. revision' + Cardinality(closing') + watched' <= MaxRevision
    BY <1>1, <1>3, <1>4, <1>5, <1>6, <2>2, <2>4
  <2> QED  BY <1>2, <2>1, <2>2, <2>4, <2>5 DEF TypeOK, Bounded, watched
<1>11. CASE DiskChanges(f)
  <2>1. /\ \E t \in Text : disk' = [disk EXCEPT ![f] = t]
        /\ unannounced' = unannounced \cup {f}
        /\ UNCHANGED <<revision, changedFilesByRevision, openDocuments, closing>>
    BY <1>11 DEF DiskChanges
  <2>2. disk' \in [File -> Text]  BY <2>1 DEF TypeOK
  <2> QED  BY <1>2, <2>1, <2>2 DEF TypeOK, Bounded
<1> QED  BY <1>8, <1>9, <1>10, <1>11 DEF Edits

LEMMA WatcherBooks ==
  ASSUME Books, Watcher
  PROVE  Books'
<1> USE DEF Books
<1>1. revision \in Nat /\ MaxRevision \in Nat  BY AnalysisAssumption DEF TypeOK, Revision
<1>2. /\ UNCHANGED <<openDocuments, disk, closing, coreCache, navigationCache, coreInFlight,
                     requests>>
      /\ answers' = {}
  BY DEF Watcher, ManifestChanges, WatchedFilesChange, WatchedFilesChanged, editVars, cacheVars
<1>3. Cardinality(closing) \in Nat /\ IsFiniteSet(closing)
  BY FS_CardinalityType DEF Bounded
<1>4. CASE ManifestChanges
  BY <1>2, <1>4 DEF ManifestChanges, TypeOK, Bounded, cacheVars
<1>5. CASE WatchedFilesChanged
  <2>1. /\ watching # {} /\ watching' = {} /\ RegisterFileChanges(watching)
        /\ UNCHANGED <<manifest, packageContext, unannounced, manifestUnannounced>>
    BY <1>5 DEF WatchedFilesChanged, editVars, cacheVars
  <2>2. revision + Cardinality(closing) + 1 <= MaxRevision  BY <2>1 DEF Bounded
  <2>3. revision + 1 <= MaxRevision  BY <1>1, <1>3, <2>2
  <2>4. revision' = revision + 1 /\ revision' \in Revision
        /\ IsMap(changedFilesByRevision', 1..revision', SUBSET File)
    BY <2>1, <2>3, Registered DEF TypeOK
  <2>5. revision' + Cardinality(closing') + 0 <= MaxRevision
    BY <1>1, <1>2, <1>3, <2>2, <2>4
  <2> QED  BY <1>2, <1>3, <2>1, <2>4, <2>5 DEF TypeOK, Bounded
<1>6. ASSUME NEW files \in SUBSET File, NEW withManifest \in BOOLEAN,
             WatchedFilesChange(files, withManifest)
      PROVE  Books'
  <2>1. /\ watching = {} /\ watching' = files
        /\ unannounced' = unannounced \ files
        /\ manifestUnannounced' = (manifestUnannounced /\ ~withManifest)
        /\ packageContext' \in {NoKeys, packageContext}
        /\ revision' \in {revision, revision + 1} /\ (files # {} => revision' = revision)
        /\ UNCHANGED <<changedFilesByRevision, manifest>>
    BY <1>6 DEF WatchedFilesChange, editVars
  <2>2. revision + Cardinality(closing) < MaxRevision
    BY <1>1, <1>3, <1>6, <2>1 DEF WatchedFilesChange, MayChange
  <2>3. revision' \in Revision /\ IsMap(changedFilesByRevision', 1..revision', SUBSET File)
    <3>1. revision' \in Nat /\ revision' <= MaxRevision /\ revision <= revision'
      BY <1>1, <1>3, <2>1, <2>2
    <3>2. 1..revision \subseteq 1..revision'  BY <1>1, <3>1
    <3>3. IsMap(changedFilesByRevision, 1..revision, SUBSET File)  BY DEF TypeOK
    <3>4. IsMap(changedFilesByRevision, 1..revision', SUBSET File)  BY <3>2, <3>3 DEF IsMap
    <3> QED  BY <2>1, <3>1, <3>4 DEF Revision
  <2>4. IsMap(packageContext', {Entry}, Context)  BY <2>1, EmptyMap DEF TypeOK
  <2>5. revision' + Cardinality(closing') + (IF watching' = {} THEN 0 ELSE 1) <= MaxRevision
    <3>1. CASE files = {}  BY <1>1, <1>2, <1>3, <2>1, <2>2, <3>1
    <3>2. CASE files # {}  BY <1>1, <1>2, <1>3, <2>1, <2>2, <3>2
    <3> QED  BY <3>1, <3>2
  <2> QED  BY <1>2, <1>3, <2>1, <2>3, <2>4, <2>5 DEF TypeOK, Bounded
<1> QED  BY <1>4, <1>5, <1>6 DEF Watcher

LEMMA AskBooks ==
  ASSUME Books, NEW q \in Request, NEW kind \in Kind, Ask(q, kind)
  PROVE  Books'
<1> DEFINE c == IF Entry \in DOMAIN packageContext THEN packageContext[Entry] ELSE manifest
<1>1. /\ packageContext' = Put(packageContext, Entry, c)
      /\ GetCore({q}, [r \in {q} |-> kind], c, coreCache, coreInFlight)
      /\ UNCHANGED <<revision, changedFilesByRevision, editVars, watchVars, coreCache>>
  BY DEF Ask
<1>2. c \in Context  BY DEF Books, TypeOK, IsMap
<1> HIDE DEF c
<1>3. IsMap(packageContext', {Entry}, Context)  BY <1>1, <1>2, PutMap DEF Books, TypeOK
<1>4. IsMap(coreCache, Context, CoreEntry)  BY DEF Books, TypeOK
<1>5. \A r \in {q} : [x \in {q} |-> kind][r] \in Kind  OBVIOUS
<1>6. /\ requests' \in [Request -> RequestState] /\ answers' \subseteq Answer
      /\ IsMap(navigationCache', Context, NavigationEntry)
      /\ coreInFlight' \subseteq Analysis
      /\ \A run \in coreInFlight' : Formed(run)
  BY <1>1, <1>2, <1>4, <1>5, GetCoreBooks
<1> QED  BY <1>1, <1>3, <1>6 DEF Books, TypeOK, Bounded, editVars, watchVars

(* The requests that waited for an analysis ask again.                      *)
LEMMA AgainBooks ==
  ASSUME Books, NEW run \in coreInFlight, NEW cache, IsMap(cache, Context, CoreEntry),
         Again(run, cache)
  PROVE  /\ requests' \in [Request -> RequestState] /\ answers' \subseteq Answer
         /\ IsMap(navigationCache', Context, NavigationEntry)
         /\ coreInFlight' \subseteq Analysis
         /\ \A r \in coreInFlight' : Formed(r)
<1> DEFINE kinds == [q \in Waiting(run) |-> requests[q].kind]
<1>1. run.context \in Context  BY Parts DEF Books, TypeOK
<1>2. Waiting(run) \in SUBSET Request  BY DEF Waiting
<1>3. \A q \in Waiting(run) : kinds[q] \in Kind
  BY DEF Waiting, Books, TypeOK, RequestState, Idle
<1>4. GetCore(Waiting(run), kinds, run.context, cache, coreInFlight \ {run})  BY DEF Again
<1>5. coreInFlight \ {run} \in SUBSET coreInFlight  OBVIOUS
<1> HIDE DEF kinds
<1> QED  BY <1>1, <1>2, <1>3, <1>4, <1>5, GetCoreBooks

LEMMA ChangedFiles ==
  ASSUME TypeOK, NEW n  PROVE ChangedFilesSince(n) \in SUBSET File
BY DEF TypeOK, IsMap, ChangedFilesSince

(* The analysis as it goes on.                                              *)
LEMMA Begun ==
  ASSUME Books, NEW run \in coreInFlight, RunBegins(run)
  PROVE  \E next \in Analysis :
           /\ coreInFlight' = (coreInFlight \ {run}) \cup {next}
           /\ next.context = run.context /\ next.revision = run.revision
           /\ next.cached = run.cached /\ next.read = run.read /\ next.at = "reading"
           /\ next.changed = UNION {ChangedFilesSince(e.revision) : e \in run.cached}
           /\ next.toRead = File \/ (run.cached # {} /\ next.toRead = next.changed)
<1> DEFINE changed == UNION {ChangedFilesSince(e.revision) : e \in run.cached}
<1>1. run \in Analysis  BY DEF Books, TypeOK
<1>2. changed \in SUBSET File  BY ChangedFiles DEF Books
<1>3. changed # {} => run.cached # {}  OBVIOUS
<1>4. PICK files \in SUBSET File :
        /\ files = File \/ (changed # {} /\ files = changed)
        /\ coreInFlight' = (coreInFlight \ {run}) \cup
             {[run EXCEPT !.at = "reading", !.changed = changed, !.toRead = files]}
  BY <1>2 DEF RunBegins
<1> HIDE DEF changed
<1>5. PICK next :
        next = [run EXCEPT !.at = "reading", !.changed = changed, !.toRead = files]
  OBVIOUS
<1>6. /\ next \in Analysis /\ next.changed = changed /\ next.toRead = files
      /\ next.read = run.read /\ next.cached = run.cached /\ next.at = "reading"
      /\ next.context = run.context /\ next.revision = run.revision
  BY <1>1, <1>2, <1>5 DEF Analysis
<1> QED  BY <1>3, <1>4, <1>5, <1>6 DEF changed

LEMMA OneRead ==
  ASSUME Books, NEW run \in coreInFlight, NEW f \in File, RunReads(run, f)
  PROVE  \E next \in Analysis :
           /\ coreInFlight' = (coreInFlight \ {run}) \cup {next}
           /\ next.context = run.context /\ next.revision = run.revision
           /\ next.cached = run.cached /\ next.changed = run.changed /\ next.at = run.at
           /\ next.toRead = run.toRead \ {f}
           /\ DOMAIN next.read = DOMAIN run.read \cup {f} /\ next.read[f] = TextOf(f)
           /\ \A g \in DOMAIN run.read : g # f => next.read[g] = run.read[g]
<1>1. run \in Analysis  BY DEF Books, TypeOK
<1>2. TextOf(f) \in Text /\ IsMap(run.read, File, Text)  BY <1>1, Texts, Parts DEF Books
<1>3. PICK read : read = Put(run.read, f, TextOf(f))  OBVIOUS
<1>4. IsMap(read, File, Text)  BY <1>2, <1>3, PutMap
<1>5. read \in UNION {[files -> Text] : files \in SUBSET File}  BY <1>4, Readings
<1>6. PICK rest : rest = run.toRead \ {f}  OBVIOUS
<1>7. rest \in SUBSET File  BY <1>1, <1>6, Parts
<1>8. PICK next : next = [run EXCEPT !.toRead = rest, !.read = read]  OBVIOUS
<1>9. /\ next.toRead = rest /\ next.read = read /\ next.at = run.at
      /\ next.changed = run.changed /\ next.cached = run.cached
      /\ next.context = run.context /\ next.revision = run.revision
  BY <1>1, <1>8 DEF Analysis
<1>10. next \in Analysis  BY <1>1, <1>5, <1>7, <1>8 DEF Analysis
<1>11. /\ DOMAIN read = DOMAIN run.read \cup {f} /\ read[f] = TextOf(f)
       /\ \A g \in DOMAIN run.read : g # f => read[g] = run.read[g]
  BY <1>3 DEF Put
<1>12. coreInFlight' = (coreInFlight \ {run}) \cup {next}  BY <1>3, <1>6, <1>8 DEF RunReads
<1> QED  BY <1>6, <1>9, <1>10, <1>11, <1>12

LEMMA MovesBooks ==
  ASSUME Books, NEW run \in coreInFlight, RunBegins(run) \/ \E f \in File : RunReads(run, f)
  PROVE  coreInFlight' \subseteq Analysis /\ \A r \in coreInFlight' : Formed(r)
<1>1. run \in Analysis /\ Formed(run)  BY DEF Books, TypeOK
<1>2. CASE RunBegins(run)
  <2>1. PICK next \in Analysis :
           /\ coreInFlight' = (coreInFlight \ {run}) \cup {next}
           /\ next.cached = run.cached /\ next.read = run.read
           /\ next.toRead = File \/ (run.cached # {} /\ next.toRead = next.changed)
    BY <1>2, Begun
  <2>2. DOMAIN run.read \subseteq File  BY <1>1, Parts DEF IsMap
  <2>3. Formed(next)  BY <1>1, <2>1, <2>2 DEF Formed, Covers
  <2> QED  BY <2>1, <2>3 DEF Books, TypeOK
<1>3. ASSUME NEW f \in File, RunReads(run, f)
      PROVE  coreInFlight' \subseteq Analysis /\ \A r \in coreInFlight' : Formed(r)
  <2>1. PICK next \in Analysis :
           /\ coreInFlight' = (coreInFlight \ {run}) \cup {next}
           /\ next.cached = run.cached /\ next.changed = run.changed /\ next.at = run.at
           /\ next.toRead = run.toRead \ {f} /\ DOMAIN next.read = DOMAIN run.read \cup {f}
    BY <1>3, OneRead
  <2>2. Formed(next)  BY <1>1, <2>1 DEF Formed, Covers
  <2> QED  BY <2>1, <2>2 DEF Books, TypeOK
<1> QED  BY <1>2, <1>3

LEMMA SucceedsBooks ==
  ASSUME Books, NEW run \in coreInFlight, RunSucceeds(run)
  PROVE  Books'
<1>1. run \in Analysis /\ Formed(run) /\ run.at = "reading" /\ run.toRead = {}
  BY DEF Books, TypeOK, RunSucceeds
<1>2. PICK cache : cache = Put(coreCache, run.context, EntryOf(run))  OBVIOUS
<1>3. EntryOf(run) \in CoreEntry /\ run.context \in Context  BY <1>1, EntryFacts, Parts
<1>4. IsMap(cache, Context, CoreEntry)  BY <1>2, <1>3, PutMap DEF Books, TypeOK
<1>5. /\ coreCache' = cache /\ changedFilesByRevision' = Pruned(cache) /\ Again(run, cache)
      /\ UNCHANGED <<revision, editVars, watchVars, packageContext>>
  BY <1>2 DEF RunSucceeds
<1>6. IsMap(changedFilesByRevision', 1..revision', SUBSET File)
  BY <1>5, OnlyMap DEF Books, TypeOK, Pruned
<1>7. /\ requests' \in [Request -> RequestState] /\ answers' \subseteq Answer
      /\ IsMap(navigationCache', Context, NavigationEntry)
      /\ coreInFlight' \subseteq Analysis
      /\ \A r \in coreInFlight' : Formed(r)
  BY <1>4, <1>5, AgainBooks
<1> QED  BY <1>4, <1>5, <1>6, <1>7 DEF Books, TypeOK, Bounded, editVars, watchVars

LEMMA AnalysesBooks ==
  ASSUME Books, NEW run \in coreInFlight, RunMoves(run)
  PROVE  Books'
<1>1. CASE RunIsCancelled(run)
  <2>1. Again(run, coreCache) /\ IsMap(coreCache, Context, CoreEntry)
    BY <1>1 DEF RunIsCancelled, Books, TypeOK
  <2>2. /\ requests' \in [Request -> RequestState] /\ answers' \subseteq Answer
        /\ IsMap(navigationCache', Context, NavigationEntry)
        /\ coreInFlight' \subseteq Analysis
        /\ \A r \in coreInFlight' : Formed(r)
    BY <2>1, AgainBooks
  <2> QED  BY <1>1, <2>2 DEF RunIsCancelled, Books, TypeOK, Bounded, editVars, watchVars
<1>2. CASE RunFails(run)
  <2>1. requests' \in [Request -> RequestState]
    BY <1>2 DEF RunFails, Books, TypeOK, RequestState
  <2> QED  BY <1>2, <2>1 DEF RunFails, Books, TypeOK, Bounded, editVars, watchVars
<1>3. CASE RunBegins(run)
  <2>1. coreInFlight' \subseteq Analysis /\ \A r \in coreInFlight' : Formed(r)
    BY <1>3, MovesBooks
  <2> QED  BY <1>3, <2>1 DEF RunBegins, Books, TypeOK, Bounded, editVars, watchVars
<1>4. ASSUME NEW f \in File, RunReads(run, f)  PROVE Books'
  <2>1. coreInFlight' \subseteq Analysis /\ \A r \in coreInFlight' : Formed(r)
    BY <1>4, MovesBooks
  <2> QED  BY <1>4, <2>1 DEF RunReads, Books, TypeOK, Bounded, editVars, watchVars
<1>5. CASE RunSucceeds(run)  BY <1>5, SucceedsBooks
<1> QED  BY <1>1, <1>2, <1>3, <1>4, <1>5 DEF RunMoves

LEMMA InitBooks == Init => Books
<1> SUFFICES ASSUME Init PROVE Books  OBVIOUS
<1>1. /\ IsMap(openDocuments, File, Text) /\ IsMap(packageContext, {Entry}, Context)
      /\ IsMap(changedFilesByRevision, 1..revision, SUBSET File)
      /\ IsMap(coreCache, Context, CoreEntry)
      /\ IsMap(navigationCache, Context, NavigationEntry)
  BY EmptyMap DEF Init
<1>2. revision \in Revision  BY AnalysisAssumption DEF Init, Revision
<1>3. Bounded  BY FS_EmptySet, AnalysisAssumption DEF Init, Bounded
<1>4. requests \in [Request -> RequestState]  BY DEF Init, RequestState
<1>5. disk \in [File -> Text]  BY DEF Init
<1> QED  BY <1>1, <1>2, <1>3, <1>4, <1>5 DEF Init, Books, TypeOK

LEMMA StepBooks == Books /\ [Next]_vars => Books'
<1> SUFFICES ASSUME Books, [Next]_vars  PROVE Books'  OBVIOUS
<1>1. CASE \E f \in File : Edits(f)  BY <1>1, EditsBooks
<1>2. CASE Watcher  BY <1>2, WatcherBooks
<1>3. CASE \E q \in Request, kind \in Kind : Ask(q, kind)  BY <1>3, AskBooks
<1>4. CASE Analyses  BY <1>4, AnalysesBooks DEF Analyses
<1>5. CASE UNCHANGED vars
  BY <1>5 DEF vars, editVars, watchVars, cacheVars, Books, TypeOK, Bounded
<1> QED  BY <1>1, <1>2, <1>3, <1>4, <1>5 DEF Next

(* The variables keep their types: an analysis that reuses a cached one     *)
(* finds there, or has read, the text of every file, and no entry is        *)
(* reused more often than maxIncrementalAnalysisRuns allows.                *)
THEOREM TypeCorrect == Spec => []TypeOK
<1>1. Books => TypeOK  BY DEF Books
<1> QED  BY InitBooks, StepBooks, <1>1, PTL DEF Spec

-----------------------------------------------------------------------------
(* What the cache and the analyses know of the settled files.  What a       *)
(* cached entry has wrong of one has been registered since; an analysis     *)
(* that has not begun, and is not stale, starts from the entry the cache    *)
(* still holds; and one that has begun has read right, and has from its     *)
(* entry right, all that is not among the files it analyses again.          *)
Since(n, f) ==
  \E k \in DOMAIN changedFilesByRevision : k > n /\ f \in changedFilesByRevision[k]

Accounted(e) ==
  /\ e.revision <= revision
  /\ \A f \in File \ Unsettled :
       e.graph[f] # TextOf(f) \/ e.semantics[f] # TextOf(f) => Since(e.revision, f)

Taken(run) == {coreCache[k] : k \in DOMAIN coreCache \cap {run.context}}

Fresh(run) ==
  \A f \in File \ Unsettled :
    /\ f \in DOMAIN run.read => run.read[f] = TextOf(f)
    /\ f \notin run.changed =>
         \A e \in run.cached : e.graph[f] = TextOf(f) /\ e.semantics[f] = TextOf(f)

Sound(run) ==
  /\ run.revision <= revision
  /\ run.at = "starting" => DOMAIN run.read = {}
  /\ run.at = "starting" /\ ~Stale(run) => run.cached = Taken(run)
  /\ run.at = "reading" /\ ~Stale(run) => Fresh(run)

(* One analysis of a context and a revision at a time.                      *)
OneEach(runs) ==
  \A r, s \in runs : r.context = s.context /\ r.revision = s.revision => r = s

CacheInv ==
  /\ Books
  /\ \A c \in DOMAIN coreCache : Accounted(coreCache[c])
  /\ \A run \in coreInFlight : Sound(run)
  /\ OneEach(coreInFlight)

LEMMA SinceChanged == \A n, f : Since(n, f) <=> f \in ChangedFilesSince(n)
BY DEF Since, ChangedFilesSince

LEMMA InitCache == Init => CacheInv
<1> SUFFICES ASSUME Init PROVE CacheInv  OBVIOUS
<1>1. DOMAIN coreCache = {} /\ coreInFlight = {}  BY DEF Init, NoKeys
<1> QED  BY <1>1, InitBooks DEF CacheInv, OneEach

(* A current entry describes the current texts.                             *)
LEMMA CurrentFresh ==
  ASSUME CacheInv, NEW c \in DOMAIN coreCache, coreCache[c].revision = revision,
         NEW f \in File \ Unsettled
  PROVE  coreCache[c].semantics[f] = TextOf(f)
<1>1. \A k \in DOMAIN changedFilesByRevision : ~(k > revision)
  <2>1. DOMAIN changedFilesByRevision \subseteq 1..revision /\ revision \in Nat
    BY DEF CacheInv, Books, TypeOK, IsMap, Revision
  <2> QED  BY <2>1
<1>2. ~Since(revision, f)  BY <1>1 DEF Since
<1> QED  BY <1>2 DEF CacheInv, Accounted

-----------------------------------------------------------------------------
(* The editor and the watcher.  A file that is settled afterwards has its   *)
(* old text and was settled before, or is registered with this revision.    *)
LEMMA WorldMoves ==
  ASSUME CacheInv, Books', UNCHANGED <<coreCache, coreInFlight>>,
         revision' \in {revision, revision + 1},
         \A k \in DOMAIN changedFilesByRevision :
           k \in DOMAIN changedFilesByRevision'
             /\ changedFilesByRevision'[k] = changedFilesByRevision[k],
         \A f \in File \ Unsettled' :
           \/ f \notin Unsettled /\ TextOf(f)' = TextOf(f)
           \/ /\ revision' = revision + 1 /\ revision + 1 \in DOMAIN changedFilesByRevision'
              /\ f \in changedFilesByRevision'[revision + 1]
  PROVE  CacheInv'
<1>1. revision \in Nat  BY DEF CacheInv, Books, TypeOK, Revision
<1>2. ASSUME NEW c \in DOMAIN coreCache  PROVE Accounted(coreCache[c])'
  <2>1. PICK e \in CoreEntry : e = coreCache[c]  BY DEF CacheInv, Books, TypeOK, IsMap
  <2>2. Accounted(e) /\ e.revision \in Nat  BY <2>1 DEF CacheInv, CoreEntry, Revision
  <2>3. e.revision <= revision'  BY <1>1, <2>2 DEF Accounted
  <2>4. ASSUME NEW f \in File \ Unsettled',
               e.graph[f] # TextOf(f)' \/ e.semantics[f] # TextOf(f)'
        PROVE  Since(e.revision, f)'
    <3>1. CASE f \notin Unsettled /\ TextOf(f)' = TextOf(f)
      <4>1. Since(e.revision, f)  BY <2>2, <2>4, <3>1 DEF Accounted
      <4> QED  BY <4>1 DEF Since
    <3>2. CASE /\ revision' = revision + 1 /\ revision + 1 \in DOMAIN changedFilesByRevision'
               /\ f \in changedFilesByRevision'[revision + 1]
      <4>1. revision + 1 > e.revision  BY <1>1, <2>2 DEF Accounted
      <4> QED  BY <3>2, <4>1 DEF Since
    <3> QED  BY <3>1, <3>2
  <2>5. Accounted(e)'  BY <2>3, <2>4 DEF Accounted
  <2> QED  BY <2>1, <2>5
<1>3. ASSUME NEW run \in coreInFlight  PROVE Sound(run)'
  <2>1. Sound(run) /\ run.revision \in Nat  BY Parts DEF CacheInv, Books, TypeOK, Revision
  <2>2. run.revision <= revision'  BY <1>1, <2>1 DEF Sound
  <2>3. ASSUME ~Stale(run)'
        PROVE  /\ revision' = revision /\ ~Stale(run)
               /\ \A f \in File \ Unsettled' : f \notin Unsettled /\ TextOf(f)' = TextOf(f)
    BY <1>1, <2>1, <2>3 DEF Sound, Stale
  <2>4. Fresh(run) /\ ~Stale(run)' => Fresh(run)'  BY <2>3 DEF Fresh
  <2> QED  BY <2>1, <2>2, <2>3, <2>4 DEF Sound, Taken
<1> QED  BY <1>2, <1>3 DEF CacheInv, OneEach

LEMMA EditsCache ==
  ASSUME CacheInv, NEW f \in File, Edits(f)
  PROVE  CacheInv'
<1>1. Books' /\ Books /\ TypeOK  BY EditsBooks DEF CacheInv, Books
<1>2. UNCHANGED <<coreCache, coreInFlight>>
  BY DEF Edits, UpdateDocument, RemoveDocument, DocumentRemoved, DiskChanges, cacheVars
<1>3. CASE RegisterFileChanges({f})
           /\ \A g \in File \ Unsettled' :
                g = f \/ (g \notin Unsettled /\ TextOf(g)' = TextOf(g))
  <2>1. revision + 1 <= MaxRevision
    BY <1>1, <1>3 DEF RegisterFileChanges, Books, TypeOK, Revision
  <2>2. /\ revision' = revision + 1
        /\ DOMAIN changedFilesByRevision' = DOMAIN changedFilesByRevision \cup {revision + 1}
        /\ changedFilesByRevision'[revision + 1] = {f}
        /\ \A k \in DOMAIN changedFilesByRevision :
             changedFilesByRevision'[k] = changedFilesByRevision[k]
    BY <1>1, <1>3, <2>1, Registered
  <2> QED  BY <1>1, <1>2, <1>3, <2>2, WorldMoves
<1>4. CASE /\ UNCHANGED <<revision, changedFilesByRevision>>
           /\ \A g \in File \ Unsettled' : g \notin Unsettled /\ TextOf(g)' = TextOf(g)
  BY <1>1, <1>2, <1>4, WorldMoves
<1>5. CASE UpdateDocument(f)
  <2>1. PICK t \in Text : openDocuments' = Put(openDocuments, f, t)  BY <1>5 DEF UpdateDocument
  <2>2. \A g \in File : g # f => TextOf(g)' = TextOf(g)
    BY <1>5, <2>1 DEF UpdateDocument, TextOf, Put
  <2>3. Unsettled' = Unsettled  BY <1>5 DEF UpdateDocument, Unsettled, watchVars
  <2> QED  BY <1>3, <1>5, <2>2, <2>3 DEF UpdateDocument
<1>6. CASE RemoveDocument(f)
  <2>1. Unsettled' = Unsettled \cup {f}  BY <1>6 DEF RemoveDocument, Unsettled
  <2>2. \A g \in File : g # f => TextOf(g)' = TextOf(g)
    BY <1>6 DEF RemoveDocument, TextOf, Only
  <2> QED  BY <1>4, <1>6, <2>1, <2>2 DEF RemoveDocument
<1>7. CASE DocumentRemoved(f)
  <2>1. \A g : g \in Unsettled => g = f \/ g \in Unsettled'
    BY <1>7 DEF DocumentRemoved, Unsettled
  <2>2. \A g : TextOf(g)' = TextOf(g)  BY <1>7 DEF DocumentRemoved, TextOf, editVars
  <2> QED  BY <1>3, <1>7, <2>1, <2>2 DEF DocumentRemoved
<1>8. CASE DiskChanges(f)
  <2>1. Unsettled' = Unsettled \cup {f}  BY <1>8 DEF DiskChanges, Unsettled
  <2>2. \A g \in File : g # f => TextOf(g)' = TextOf(g)
    BY <1>1, <1>8 DEF DiskChanges, TextOf, TypeOK
  <2> QED  BY <1>4, <1>8, <2>1, <2>2 DEF DiskChanges
<1> QED  BY <1>5, <1>6, <1>7, <1>8 DEF Edits

LEMMA WatcherCache ==
  ASSUME CacheInv, Watcher
  PROVE  CacheInv'
<1>1. Books' /\ Books /\ TypeOK  BY WatcherBooks DEF CacheInv, Books
<1>2. UNCHANGED <<coreCache, coreInFlight>> /\ \A g : TextOf(g)' = TextOf(g)
  BY DEF Watcher, ManifestChanges, WatchedFilesChange, WatchedFilesChanged, cacheVars, editVars,
         TextOf
<1>3. CASE WatchedFilesChanged
  <2>1. RegisterFileChanges(watching) /\ watching \in SUBSET File
    BY <1>1, <1>3 DEF WatchedFilesChanged, TypeOK
  <2>2. revision + 1 <= MaxRevision
    BY <1>1, <2>1 DEF RegisterFileChanges, Books, TypeOK, Revision
  <2>3. /\ revision' = revision + 1
        /\ DOMAIN changedFilesByRevision' = DOMAIN changedFilesByRevision \cup {revision + 1}
        /\ changedFilesByRevision'[revision + 1] = watching
        /\ \A k \in DOMAIN changedFilesByRevision :
             changedFilesByRevision'[k] = changedFilesByRevision[k]
    BY <1>1, <2>1, <2>2, Registered
  <2>4. \A g : g \in Unsettled => g \in watching \/ g \in Unsettled'
    BY <1>3 DEF WatchedFilesChanged, Unsettled
  <2> QED  BY <1>1, <1>2, <2>3, <2>4, WorldMoves
<1>4. CASE ManifestChanges
  <2>1. Unsettled' = Unsettled  BY <1>4 DEF ManifestChanges, Unsettled
  <2> QED  BY <1>1, <1>2, <1>4, <2>1, WorldMoves DEF ManifestChanges
<1>5. ASSUME NEW files \in SUBSET File, NEW withManifest \in BOOLEAN,
             WatchedFilesChange(files, withManifest)
      PROVE  CacheInv'
  <2>1. \A g : g \in Unsettled => g \in Unsettled'
    BY <1>5 DEF WatchedFilesChange, Unsettled
  <2>2. revision' \in {revision, revision + 1} /\ UNCHANGED changedFilesByRevision
    BY <1>5 DEF WatchedFilesChange
  <2> QED  BY <1>1, <1>2, <2>1, <2>2, WorldMoves
<1> QED  BY <1>3, <1>4, <1>5 DEF Watcher

-----------------------------------------------------------------------------
(* The requests: the analyses getCoreForContext leaves in progress, and     *)
(* what it answers with.                                                    *)
LEMMA CoreRuns ==
  ASSUME NEW asking, NEW kinds, NEW c, NEW cache, NEW inFlight,
         GetCore(asking, kinds, c, cache, inFlight), OneEach(inFlight)
  PROVE  /\ \A r \in coreInFlight' :
              \/ r \in inFlight
              \/ /\ ~Current(c, cache)
                 /\ r.context = c /\ r.revision = revision /\ r.at = "starting"
                 /\ DOMAIN r.read = {}
                 /\ r.cached = {cache[k] : k \in DOMAIN cache \cap {c}}
         /\ OneEach(coreInFlight')
<1> DEFINE run == [context |-> c, revision |-> revision, at |-> "starting",
                   cached |-> {cache[k] : k \in DOMAIN cache \cap {c}},
                   changed |-> {}, toRead |-> {}, read |-> NoKeys]
<1>1. /\ run.context = c /\ run.revision = revision /\ run.at = "starting"
      /\ run.cached = {cache[k] : k \in DOMAIN cache \cap {c}}
      /\ DOMAIN run.read = {}
  BY DEF NoKeys
<1>2. \/ coreInFlight' = inFlight
      \/ /\ ~Current(c, cache)
         /\ ~\E r \in inFlight : r.context = c /\ r.revision = revision
         /\ coreInFlight' = inFlight \cup {run}
  BY DEF GetCore
<1> HIDE DEF run
<1> QED  BY <1>1, <1>2 DEF OneEach

LEMMA CoreContent ==
  ASSUME NEW asking, NEW kinds, NEW c, NEW cache, NEW inFlight,
         GetCore(asking, kinds, c, cache, inFlight),
         NEW answer \in answers', answer.kind = "core"
  PROVE  Current(c, cache) /\ answer.content = cache[c].semantics
<1>1. Current(c, cache)  BY DEF GetCore
<1>2. PICK q \in asking :
        answer = [kind |-> kinds[q], context |-> c,
                  content |-> IF kinds[q] = "core" THEN cache[c].semantics
                              ELSE Navigation(c, cache[c]).index]
  BY <1>1 DEF GetCore
<1>3. kinds[q] = "core"  BY <1>2
<1> QED  BY <1>1, <1>2, <1>3

(* Nothing is edited and nothing registered: the cache is what it was.      *)
LEMMA Standing ==
  ASSUME CacheInv, Books', OneEach(coreInFlight'),
         UNCHANGED <<revision, changedFilesByRevision, coreCache, editVars, watchVars>>,
         \A r \in coreInFlight' : r \in coreInFlight \/ Sound(r)
  PROVE  CacheInv'
<1>1. Unsettled' = Unsettled /\ \A f : TextOf(f)' = TextOf(f)
  BY DEF Unsettled, TextOf, editVars, watchVars
<1>2. \A e : Accounted(e) => Accounted(e)'  BY <1>1 DEF Accounted, Since
<1>3. ASSUME NEW r \in coreInFlight'  PROVE Sound(r)'
  <2>1. Sound(r)  BY DEF CacheInv
  <2>2. Fresh(r) => Fresh(r)'  BY <1>1 DEF Fresh
  <2> QED  BY <2>1, <2>2 DEF Sound, Stale, Taken
<1>4. \A c \in DOMAIN coreCache : Accounted(coreCache[c])'
  BY <1>2 DEF CacheInv
<1> QED  BY <1>3, <1>4 DEF CacheInv

(* ... and what is answered with a current entry is fresh.                  *)
LEMMA FreshContent ==
  ASSUME CacheInv, UNCHANGED <<editVars, watchVars>>,
         NEW asking, NEW kinds, NEW c, NEW inFlight,
         GetCore(asking, kinds, c, coreCache, inFlight)
  PROVE  CoreAnswersFresh'
<1>1. Unsettled' = Unsettled /\ \A f : TextOf(f)' = TextOf(f)
  BY DEF Unsettled, TextOf, editVars, watchVars
<1> SUFFICES ASSUME NEW answer \in answers', answer.kind = "core",
                    NEW f \in File \ Unsettled'
             PROVE  answer.content[f] = TextOf(f)'
  BY DEF CoreAnswersFresh, FreshNow
<1>2. Current(c, coreCache) /\ answer.content = coreCache[c].semantics  BY CoreContent
<1> QED  BY <1>1, <1>2, CurrentFresh DEF Current

LEMMA AskCache ==
  ASSUME CacheInv, NEW q \in Request, NEW kind \in Kind, Ask(q, kind)
  PROVE  CacheInv' /\ CoreAnswersFresh'
<1>1. PICK c : GetCore({q}, [r \in {q} |-> kind], c, coreCache, coreInFlight)  BY DEF Ask
<1>2. UNCHANGED <<revision, changedFilesByRevision, coreCache, editVars, watchVars>>  BY DEF Ask
<1>3. Books'  BY AskBooks DEF CacheInv
<1>4. OneEach(coreInFlight)  BY DEF CacheInv
<1>5. OneEach(coreInFlight')  BY <1>1, <1>4, CoreRuns
<1>6. ASSUME NEW r \in coreInFlight', r \notin coreInFlight  PROVE Sound(r)
  <2>1. /\ r.context = c /\ r.revision = revision /\ r.at = "starting" /\ DOMAIN r.read = {}
        /\ r.cached = {coreCache[k] : k \in DOMAIN coreCache \cap {c}}
    BY <1>1, <1>4, <1>6, CoreRuns
  <2>2. revision <= revision  BY DEF CacheInv, Books, TypeOK, Revision
  <2> QED  BY <2>1, <2>2 DEF Sound, Taken
<1>7. CacheInv'  BY <1>2, <1>3, <1>5, <1>6, Standing
<1>8. CoreAnswersFresh'  BY <1>1, <1>2, FreshContent
<1> QED  BY <1>7, <1>8

LEMMA CancelledCache ==
  ASSUME CacheInv, NEW run \in coreInFlight, RunIsCancelled(run)
  PROVE  CacheInv' /\ CoreAnswersFresh'
<1> DEFINE kinds == [q \in Waiting(run) |-> requests[q].kind]
           others == coreInFlight \ {run}
<1>1. GetCore(Waiting(run), kinds, run.context, coreCache, others)
  BY DEF RunIsCancelled, Again
<1>2. UNCHANGED <<revision, changedFilesByRevision, coreCache, editVars, watchVars>>
  BY DEF RunIsCancelled
<1>3. Books'  BY AnalysesBooks DEF CacheInv, RunMoves
<1>4. OneEach(others)  BY DEF CacheInv, OneEach
<1> HIDE DEF kinds
<1>5. OneEach(coreInFlight')  BY <1>1, <1>4, CoreRuns
<1>6. ASSUME NEW r \in coreInFlight', r \notin others  PROVE Sound(r)
  <2>1. /\ r.context = run.context /\ r.revision = revision /\ r.at = "starting"
        /\ DOMAIN r.read = {}
        /\ r.cached = {coreCache[k] : k \in DOMAIN coreCache \cap {run.context}}
    <3> HIDE DEF others
    <3> QED  BY <1>1, <1>4, <1>6, CoreRuns
  <2>2. revision <= revision  BY DEF CacheInv, Books, TypeOK, Revision
  <2> QED  BY <2>1, <2>2 DEF Sound, Taken
<1>7. CacheInv'  BY <1>2, <1>3, <1>5, <1>6, Standing
<1>8. CoreAnswersFresh'  BY <1>1, <1>2, FreshContent
<1> QED  BY <1>7, <1>8

-----------------------------------------------------------------------------
(* The analyses.  One that goes on takes the place of the one it was.       *)
LEMMA Replaced ==
  ASSUME CacheInv, NEW run \in coreInFlight, NEW next,
         coreInFlight' = (coreInFlight \ {run}) \cup {next},
         next.context = run.context, next.revision = run.revision
  PROVE  OneEach(coreInFlight')
BY DEF CacheInv, OneEach

LEMMA BeginsCache ==
  ASSUME CacheInv, NEW run \in coreInFlight, RunBegins(run)
  PROVE  CacheInv'
<1>1. PICK next \in Analysis :
         /\ coreInFlight' = (coreInFlight \ {run}) \cup {next}
         /\ next.context = run.context /\ next.revision = run.revision
         /\ next.cached = run.cached /\ next.read = run.read /\ next.at = "reading"
         /\ next.changed = UNION {ChangedFilesSince(e.revision) : e \in run.cached}
  BY Begun DEF CacheInv
<1>2. Sound(run) /\ run.at = "starting" /\ ~Stale(run)  BY DEF CacheInv, RunBegins
<1>3. DOMAIN next.read = {} /\ next.cached = Taken(run)  BY <1>1, <1>2 DEF Sound
<1>4. Fresh(next)
  <2> SUFFICES ASSUME NEW f \in File \ Unsettled, f \notin next.changed, NEW e \in next.cached
               PROVE  e.graph[f] = TextOf(f) /\ e.semantics[f] = TextOf(f)
    BY <1>3 DEF Fresh
  <2>1. Accounted(e)  BY <1>3 DEF Taken, CacheInv
  <2>2. f \notin ChangedFilesSince(e.revision)  BY <1>1
  <2>3. ~Since(e.revision, f)  BY <2>2, SinceChanged
  <2> QED  BY <2>1, <2>3 DEF Accounted
<1>5. Sound(next)  BY <1>1, <1>2, <1>4 DEF Sound, Stale
<1>6. Books'  BY AnalysesBooks DEF CacheInv, RunMoves
<1>7. UNCHANGED <<revision, changedFilesByRevision, coreCache, editVars, watchVars>>
  BY DEF RunBegins
<1>8. OneEach(coreInFlight')  BY <1>1, Replaced
<1> QED  BY <1>1, <1>5, <1>6, <1>7, <1>8, Standing

LEMMA ReadsCache ==
  ASSUME CacheInv, NEW run \in coreInFlight, NEW f \in File, RunReads(run, f)
  PROVE  CacheInv'
<1>1. PICK next \in Analysis :
         /\ coreInFlight' = (coreInFlight \ {run}) \cup {next}
         /\ next.context = run.context /\ next.revision = run.revision
         /\ next.cached = run.cached /\ next.changed = run.changed /\ next.at = run.at
         /\ DOMAIN next.read = DOMAIN run.read \cup {f} /\ next.read[f] = TextOf(f)
         /\ \A g \in DOMAIN run.read : g # f => next.read[g] = run.read[g]
  BY OneRead DEF CacheInv
<1>2. Sound(run) /\ run.at = "reading" /\ ~Stale(run)  BY DEF CacheInv, RunReads
<1>3. Fresh(next)  BY <1>1, <1>2 DEF Sound, Fresh
<1>4. Sound(next)  BY <1>1, <1>2, <1>3 DEF Sound, Stale
<1>5. Books'  BY AnalysesBooks DEF CacheInv, RunMoves
<1>6. UNCHANGED <<revision, changedFilesByRevision, coreCache, editVars, watchVars>>
  BY DEF RunReads
<1>7. OneEach(coreInFlight')  BY <1>1, Replaced
<1> QED  BY <1>1, <1>4, <1>5, <1>6, <1>7, Standing

LEMMA FailsCache ==
  ASSUME CacheInv, NEW run \in coreInFlight, RunFails(run)
  PROVE  CacheInv'
<1>1. Books'  BY AnalysesBooks DEF CacheInv, RunMoves
<1>2. OneEach(coreInFlight')  BY DEF CacheInv, OneEach, RunFails
<1> QED  BY <1>1, <1>2, Standing DEF RunFails

(* An analysis that succeeds puts an entry without a fault into the cache,  *)
(* and forgets no change that another entry still needs.                    *)
LEMMA SucceedsCache ==
  ASSUME CacheInv, NEW run \in coreInFlight, RunSucceeds(run)
  PROVE  CacheInv' /\ CoreAnswersFresh'
<1>1. /\ run \in Analysis /\ Formed(run) /\ run.at = "reading" /\ run.toRead = {}
      /\ Fresh(run) /\ run.revision = revision
  BY DEF CacheInv, Books, TypeOK, RunSucceeds, Sound, Stale
<1>2. PICK c \in Context : c = run.context  BY <1>1, Parts
<1>3. PICK new \in CoreEntry : new = EntryOf(run)  BY <1>1, EntryFacts
<1>4. PICK cache : cache = Put(coreCache, c, new)  OBVIOUS
<1>5. /\ coreCache' = cache /\ changedFilesByRevision' = Pruned(cache)
      /\ GetCore(Waiting(run), [q \in Waiting(run) |-> requests[q].kind], c, cache,
                 coreInFlight \ {run})
      /\ UNCHANGED <<revision, editVars, watchVars>>
  BY <1>2, <1>3, <1>4 DEF RunSucceeds, Again
<1>6. /\ DOMAIN cache = DOMAIN coreCache \cup {c} /\ cache[c] = new
      /\ \A k \in DOMAIN coreCache : k # c => cache[k] = coreCache[k]
  BY <1>4 DEF Put
<1>7. Unsettled' = Unsettled /\ \A f : TextOf(f)' = TextOf(f)
  BY <1>5 DEF Unsettled, TextOf, editVars, watchVars
<1>8. new.revision = revision
  BY <1>1, <1>3, EntryFacts
<1>9. ASSUME NEW f \in File \ Unsettled
      PROVE  new.graph[f] = TextOf(f) /\ new.semantics[f] = TextOf(f)
  <2>1. /\ \/ f \in DOMAIN run.read /\ new.graph[f] = run.read[f]
           \/ f \notin run.changed /\ \E e \in run.cached : new.graph[f] = e.graph[f]
        /\ \/ new.semantics[f] = new.graph[f]
           \/ f \notin run.changed /\ \E e \in run.cached : new.semantics[f] = e.semantics[f]
    BY <1>1, <1>3, EntryFacts
  <2> QED  BY <1>1, <2>1 DEF Fresh
<1>10. ASSUME NEW k \in DOMAIN cache  PROVE Accounted(cache[k])'
  <2>1. CASE k = c
    <3>1. revision <= revision  BY DEF CacheInv, Books, TypeOK, Revision
    <3> QED  BY <1>5, <1>6, <1>7, <1>8, <1>9, <2>1, <3>1 DEF Accounted
  <2>2. CASE k # c
    <3>1. PICK e : e = cache[k]  OBVIOUS
    <3>2. Accounted(e)  BY <1>6, <2>2, <3>1 DEF CacheInv
    <3>3. ASSUME NEW f, Since(e.revision, f)  PROVE Since(e.revision, f)'
      <4>1. PICK n \in DOMAIN changedFilesByRevision :
              n > e.revision /\ f \in changedFilesByRevision[n]
        BY <3>3 DEF Since
      <4>2. n \in Revision
        <5>1. n \in DOMAIN changedFilesByRevision  BY <4>1
        <5>2. n \in 1..revision  BY <5>1 DEF CacheInv, Books, TypeOK, IsMap
        <5>3. revision \in Revision  BY DEF CacheInv, Books, TypeOK
        <5> QED  BY <5>2, <5>3, AnalysisAssumption DEF Revision
      <4>3. cache[k].revision < n  BY <3>1, <4>1
      <4>4. /\ n \in DOMAIN changedFilesByRevision'
            /\ changedFilesByRevision'[n] = changedFilesByRevision[n]
        BY <1>5, <4>2, <4>3 DEF Pruned, Only
      <4> QED  BY <4>1, <4>4 DEF Since
    <3>4. Accounted(e)'  BY <1>5, <1>7, <3>2, <3>3 DEF Accounted
    <3> QED  BY <3>1, <3>4
  <2> QED  BY <2>1, <2>2
<1>11. Current(c, cache)  BY <1>6, <1>8 DEF Current
<1>12. coreInFlight' = coreInFlight \ {run}  BY <1>5, <1>11 DEF GetCore
<1>13. ASSUME NEW r \in coreInFlight'  PROVE Sound(r)'
  <2>1. Sound(r) /\ (r.revision = revision => r.context # c)
    BY <1>1, <1>2, <1>12 DEF CacheInv, OneEach
  <2>2. r.revision = revision => Taken(r)' = Taken(r)
    BY <1>5, <1>6, <2>1 DEF Taken
  <2>3. Fresh(r) => Fresh(r)'  BY <1>7 DEF Fresh
  <2> QED  BY <1>5, <2>1, <2>2, <2>3 DEF Sound, Stale
<1>14. OneEach(coreInFlight')  BY <1>12 DEF CacheInv, OneEach
<1>15. CacheInv'
  <2>1. Books'  BY AnalysesBooks DEF CacheInv, RunMoves
  <2> QED  BY <1>5, <1>10, <1>13, <1>14, <2>1 DEF CacheInv
<1>16. CoreAnswersFresh'
  <2> SUFFICES ASSUME NEW answer \in answers', answer.kind = "core",
                      NEW f \in File \ Unsettled'
               PROVE  answer.content[f] = TextOf(f)'
    BY DEF CoreAnswersFresh, FreshNow
  <2>1. answer.content = cache[c].semantics  BY <1>5, CoreContent
  <2> QED  BY <1>6, <1>7, <1>9, <2>1
<1> QED  BY <1>15, <1>16

LEMMA StepCache == CacheInv /\ CoreAnswersFresh /\ [Next]_vars => CacheInv' /\ CoreAnswersFresh'
<1> SUFFICES ASSUME CacheInv, CoreAnswersFresh, [Next]_vars
             PROVE  CacheInv' /\ CoreAnswersFresh'
  OBVIOUS
<1>1. answers' = {} => CoreAnswersFresh'  BY DEF CoreAnswersFresh
<1>2. ASSUME NEW f \in File, Edits(f)  PROVE CacheInv' /\ answers' = {}
  BY <1>2, EditsCache DEF Edits, UpdateDocument, RemoveDocument, DocumentRemoved, DiskChanges
<1>3. CASE Watcher
  <2>1. answers' = {}
    BY <1>3 DEF Watcher, ManifestChanges, WatchedFilesChange, WatchedFilesChanged
  <2> QED  BY <1>1, <1>3, <2>1, WatcherCache
<1>4. CASE \E q \in Request, kind \in Kind : Ask(q, kind)  BY <1>4, AskCache
<1>5. ASSUME NEW run \in coreInFlight, RunMoves(run)  PROVE CacheInv' /\ CoreAnswersFresh'
  <2>1. CASE RunIsCancelled(run)  BY <2>1, CancelledCache
  <2>2. CASE RunSucceeds(run)  BY <2>2, SucceedsCache
  <2>3. CASE RunBegins(run)  BY <1>1, <2>3, BeginsCache DEF RunBegins
  <2>4. CASE RunFails(run)  BY <1>1, <2>4, FailsCache DEF RunFails
  <2>5. CASE \E f \in File : RunReads(run, f)  BY <1>1, <2>5, ReadsCache DEF RunReads
  <2> QED  BY <1>5, <2>1, <2>2, <2>3, <2>4, <2>5 DEF RunMoves
<1>6. CASE UNCHANGED vars
  <2>1. CacheInv'
    <3>1. Books'  BY <1>6, StepBooks DEF CacheInv
    <3>2. UNCHANGED <<revision, changedFilesByRevision, coreCache, coreInFlight, editVars,
                      watchVars>>
      BY <1>6 DEF vars, cacheVars
    <3> QED  BY <3>1, <3>2, Standing DEF CacheInv
  <2>2. CoreAnswersFresh'
    BY <1>6 DEF vars, editVars, watchVars, CoreAnswersFresh, FreshNow, Unsettled, TextOf
  <2> QED  BY <2>1, <2>2
<1> QED  BY <1>1, <1>2, <1>3, <1>4, <1>5, <1>6 DEF Next, Analyses

(* The history of changes is never cut too short: what a cached analysis    *)
(* has wrong of a settled file is in the changed files of the analysis that *)
(* starts from it, whatever edits, watch events and other contexts' analyses*)
(* come in between.                                                         *)
THEOREM HistoryAlwaysKept == Spec => []HistoryKept
<1>1. CacheInv => HistoryKept
  <2> SUFFICES ASSUME CacheInv, NEW c \in DOMAIN coreCache, NEW f \in File \ Unsettled,
                      coreCache[c].semantics[f] # TextOf(f)
               PROVE  f \in ChangedFilesSince(coreCache[c].revision)
    BY DEF HistoryKept
  <2> QED  BY SinceChanged DEF CacheInv, Accounted
<1>2. Init => CacheInv /\ CoreAnswersFresh  BY InitCache DEF Init, CoreAnswersFresh
<1> QED  BY <1>1, <1>2, StepCache, PTL DEF Spec

(* A request for the analysis is answered with one that describes the texts *)
(* of that moment, however edits preempt the analyses in progress.          *)
THEOREM AnswersAlwaysFresh == Spec => []CoreAnswersFresh
<1>1. Init => CacheInv /\ CoreAnswersFresh  BY InitCache DEF Init, CoreAnswersFresh
<1> QED  BY <1>1, StepCache, PTL DEF Spec
=============================================================================
