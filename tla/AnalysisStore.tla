----------------------------- MODULE AnalysisStore -----------------------------
(***************************************************************************)
(* The results of trajectory analyses on disk (analysis/runner.py): the    *)
(* document results.json under the identity of a request, the directories  *)
(* of single attempts with their pointer latest.json, the documents set    *)
(* aside, and index.json; and the processes (analyze commands, the         *)
(* analysis screen, user scripts) that run analyses of the same task.      *)
(*                                                                         *)
(* The identity of a request is the content of its trajectory (a version): *)
(* the other parameters are the same for all.  Every process makes one     *)
(* attempt, named after it.  Each JSON document is replaced atomically.    *)
(***************************************************************************)
EXTENDS Naturals, FiniteSets

CONSTANTS
    Analyst,      \* processes
    Version,      \* contents of the trajectory, as numbers
    MaxAbends     \* bound on interruptions, failed writes and kills

ASSUME AnalysisAssumption ==
    /\ "nobody" \notin Analyst
    /\ Version \subseteq Nat /\ 0 \in Version /\ MaxAbends \in Nat

NoDoc == [by |-> "nobody", status |-> "none", of |-> 0]
Failures == {"failed", "cancelled"}

VARIABLES
    source,     \* the content of the trajectory
    published,    \* published[v]: results.json of the identity v
    pointer,     \* pointer[v]: attempts/latest.json
    attempts,   \* published attempt directories: [by, status, of]
    asides,     \* the previous-results documents
    index,      \* index.json: index[v] is the status recorded for v
    indexLock,  \* who holds .index.lock
    apc,        \* apc[a]: where the analyst is
    ident,      \* ident[a]: the identity of its request
    mine,       \* mine[a]: the document that it has made or read
    indexSeen,  \* indexSeen[a]: the index that it has read under the lock
    reused,     \* history: the document that it returned from the cache
    outdated,   \* history: successes a later attempt at which has failed
    known,      \* history: known[a] is outdated when a began
    earlier,    \* history: earlier[a]: successes there were when a began
    abends

storeVars == <<source, published, pointer, attempts, asides, index, indexLock, apc, ident,
               mine, indexSeen, reused, outdated, known, earlier, abends>>
documents == <<published, pointer, attempts, asides>>
indexVars == <<index, indexLock, indexSeen>>
history == <<reused, outdated, known, earlier>>

Over == {"done", "failed", "broken", "killed"}
AnalystSteps == {"new", "lookup", "compare", "keep", "remove", "openIndex", "running",
                 "compute", "write", "publish", "point", "openFinal", "final"} \union Over

Documents == [by : Analyst \union {"nobody"},
              status : {"none", "success"} \union Failures, of : Version]

\* Type invariant; the index is locked exactly while somebody updates it.
StoreTypeOK ==
    /\ source \in Version
    /\ published \in [Version -> Documents] /\ pointer \in [Version -> Documents]
    /\ attempts \subseteq Documents /\ asides \subseteq Documents
    /\ index \in [Version -> {"none", "running", "success"} \union Failures]
    /\ indexLock \in Analyst \union {"nobody"}
    /\ \A a \in Analyst : indexLock = a <=> apc[a] \in {"running", "final"}
    /\ apc \in [Analyst -> AnalystSteps] /\ ident \in [Analyst -> Version]
    /\ mine \in [Analyst -> Documents] /\ reused \in [Analyst -> Documents]
    /\ abends \in 0..MaxAbends

StoreInit ==
    /\ source = 0
    /\ published = [v \in Version |-> NoDoc] /\ pointer = [v \in Version |-> NoDoc]
    /\ attempts = {} /\ asides = {}
    /\ index = [v \in Version |-> "none"] /\ indexLock = "nobody"
    /\ apc = [a \in Analyst |-> "new"] /\ ident = [a \in Analyst |-> 0]
    /\ mine = [a \in Analyst |-> NoDoc] /\ indexSeen = [a \in Analyst |-> index]
    /\ reused = [a \in Analyst |-> NoDoc]
    /\ outdated = {} /\ known = [a \in Analyst |-> {}] /\ earlier = [a \in Analyst |-> {}]
    /\ abends = 0

AtStep(a, step) == apc[a] = step
ToStep(a, step) == apc' = [apc EXCEPT ![a] = step]
Abend == abends < MaxAbends /\ abends' = abends + 1

-------------------------------------------------------------------------------
\* The trajectory is written to, for example by a run that still goes on.
SourceGrows ==
    /\ source + 1 \in Version
    /\ source' = source + 1
    /\ UNCHANGED <<documents, indexVars, apc, ident, mine, history, abends>>

\* source_fingerprint and _analysis_id; with force the cache is not looked at.
Identify(a) ==
    /\ AtStep(a, "new")
    /\ ident' = [ident EXCEPT ![a] = source]
    /\ \E force \in BOOLEAN :
         ToStep(a, IF force \/ published[source] = NoDoc THEN "keep" ELSE "lookup")
    /\ known' = [known EXCEPT ![a] = outdated]
    /\ earlier' = [earlier EXCEPT ![a] = {published[source].by}]
    /\ UNCHANGED <<source, documents, indexVars, mine, reused, outdated, abends>>

\* results.json is read, and then the pointer.
ReadDocument(a) ==
    /\ AtStep(a, "lookup")
    /\ mine' = [mine EXCEPT ![a] = published[ident[a]]]
    /\ ToStep(a, "compare")
    /\ UNCHANGED <<source, documents, indexVars, ident, history, abends>>

\* A bug that ReadPointer must not have: any document is good enough.
ReadPointerOnly(a) ==
    /\ AtStep(a, "compare")
    /\ IF pointer[ident[a]].status # "none"
       THEN ToStep(a, "done") /\ reused' = [reused EXCEPT ![a] = mine[a]]
       ELSE ToStep(a, "keep") /\ UNCHANGED reused
    /\ mine' = [mine EXCEPT ![a] = NoDoc]
    /\ UNCHANGED <<source, documents, indexVars, ident, outdated, known, earlier, abends>>

ReadPointer(a) ==
    /\ AtStep(a, "compare")
    /\ IF mine[a].status = "success" /\ pointer[ident[a]].status = "success"
       THEN ToStep(a, "done") /\ reused' = [reused EXCEPT ![a] = mine[a]]
       ELSE ToStep(a, "keep") /\ UNCHANGED reused
    /\ mine' = [mine EXCEPT ![a] = NoDoc]
    /\ UNCHANGED <<source, documents, indexVars, ident, outdated, known, earlier, abends>>

\* The previous document is set aside before anything is computed.
KeepPrevious(a) ==
    /\ AtStep(a, "keep")
    /\ IF published[ident[a]] = NoDoc
       THEN ToStep(a, "openIndex") /\ UNCHANGED asides
       ELSE ToStep(a, "remove") /\ asides' = asides \union {published[ident[a]]}
    /\ UNCHANGED <<source, published, pointer, attempts, indexVars, ident, mine, history, abends>>

RemovePrevious(a) ==
    /\ AtStep(a, "remove")
    /\ published' = [published EXCEPT ![ident[a]] = NoDoc]
    /\ ToStep(a, "openIndex")
    /\ UNCHANGED <<source, pointer, attempts, asides, indexVars, ident, mine, history, abends>>

\* A bug that OpenIndex must not have: it reads without the lock.
PeekIndex(a) ==
    /\ \/ AtStep(a, "openIndex") /\ ToStep(a, "running")
       \/ AtStep(a, "openFinal") /\ ToStep(a, "final")
    /\ indexSeen' = [indexSeen EXCEPT ![a] = index]
    /\ UNCHANGED <<source, documents, index, indexLock, ident, mine, history, abends>>

\* _update_index, under _index_lock.
OpenIndex(a) ==
    /\ indexLock = "nobody"
    /\ \/ AtStep(a, "openIndex") /\ ToStep(a, "running")
       \/ AtStep(a, "openFinal") /\ ToStep(a, "final")
    /\ indexLock' = a
    /\ indexSeen' = [indexSeen EXCEPT ![a] = index]
    /\ UNCHANGED <<source, documents, index, ident, mine, history, abends>>

Record(a, status) ==
    /\ index' = [indexSeen[a] EXCEPT ![ident[a]] = status]
    /\ indexLock' = "nobody"
    /\ UNCHANGED indexSeen

RecordRunning(a) ==
    /\ AtStep(a, "running")
    /\ ToStep(a, "compute")
    /\ Record(a, "running")
    /\ UNCHANGED <<source, documents, ident, mine, history, abends>>

\* _dispatch: the trajectory is loaded now.  A trajectory that the analysis
\* does not support is a failure too.
Compute(a) ==
    /\ AtStep(a, "compute")
    /\ ToStep(a, "write")
    /\ \E status \in {"success", "failed"} :
         mine' = [mine EXCEPT ![a] = [by |-> a, status |-> status, of |-> source]]
    /\ UNCHANGED <<source, documents, indexVars, ident, history, abends>>

\* The success, or the failure that replaces whatever is published.
WriteDocument(a) ==
    /\ AtStep(a, "write")
    /\ ToStep(a, "publish")
    /\ published' = [published EXCEPT ![ident[a]] = mine[a]]
    /\ UNCHANGED <<source, pointer, attempts, asides, indexVars, ident, mine, history, abends>>

\* _publish_attempt: a directory of that name is not replaced (os.replace on a
\* directory that is not empty fails).
PublishAttempt(a) ==
    /\ AtStep(a, "publish")
    /\ IF \E t \in attempts : t.by = a
       THEN ToStep(a, "broken") /\ UNCHANGED attempts
       ELSE ToStep(a, "point") /\ attempts' = attempts \union {mine[a]}
    /\ UNCHANGED <<source, published, pointer, asides, indexVars, ident, mine, history, abends>>

MovePointer(a) ==
    /\ AtStep(a, "point")
    /\ ToStep(a, "openFinal")
    /\ pointer' = [pointer EXCEPT ![ident[a]] = mine[a]]
    /\ UNCHANGED <<source, published, attempts, asides, indexVars, ident, mine, history, abends>>

RecordOutcome(a) ==
    /\ AtStep(a, "final")
    /\ ToStep(a, IF mine[a].status = "success" THEN "done" ELSE "failed")
    /\ Record(a, mine[a].status)
    /\ outdated' = IF mine[a].status = "success" THEN outdated
                   ELSE outdated \union earlier[a]
    /\ UNCHANGED <<source, documents, ident, mine, reused, known, earlier, abends>>

\* Ctrl-C or a failed write once the attempt is recorded as running: a success
\* under way becomes a failure, a failure of the handler itself ends it.
Upset(a) ==
    /\ apc[a] \in {"compute", "write", "publish", "point", "openFinal", "final"}
    /\ Abend
    /\ indexLock' = IF indexLock = a THEN "nobody" ELSE indexLock
    /\ IF mine[a].status \in Failures
       THEN ToStep(a, "broken") /\ UNCHANGED mine
       ELSE /\ ToStep(a, "write")
            /\ \E status \in {"failed", "cancelled"} :
                 mine' = [mine EXCEPT ![a] = [by |-> a, status |-> status, of |-> source]]
    /\ UNCHANGED <<source, documents, index, indexSeen, ident, history>>

\* An exception before that ends the request; a kill can come at any time.
Die(a) ==
    /\ apc[a] \notin {"new"} \union Over
    /\ Abend
    /\ ToStep(a, "killed")
    /\ indexLock' = IF indexLock = a THEN "nobody" ELSE indexLock
    /\ UNCHANGED <<source, documents, index, indexSeen, ident, mine, history>>

-------------------------------------------------------------------------------
Attempt(a) ==
    \/ Identify(a) \/ ReadDocument(a) \/ ReadPointer(a) \/ KeepPrevious(a) \/ RemovePrevious(a)
    \/ OpenIndex(a) \/ RecordRunning(a) \/ Compute(a) \/ WriteDocument(a)
    \/ PublishAttempt(a) \/ MovePointer(a) \/ RecordOutcome(a)

StoreNext == SourceGrows \/ \E a \in Analyst : Attempt(a) \/ Upset(a) \/ Die(a)

StoreSpec == StoreInit /\ [][StoreNext]_storeVars

-------------------------------------------------------------------------------
(* Properties *)

\* A success is never returned from the cache after a later attempt at the
\* same request has failed, however the processes interleave and die (review
\* R06: "an older success can never be returned as the current answer").  And
\* the pointer names an attempt whose directory is there, complete.
NothingResurrected ==
    /\ \A a \in Analyst : reused[a] # NoDoc =>
          reused[a].status = "success" /\ reused[a].by \notin known[a]
    /\ \A v \in Version : pointer[v] # NoDoc => pointer[v] \in attempts

\* The comment of the cache hit: "the published result names exactly this
\* request and fingerprint, and the pointer attempt is the success that
\* produced it".
ReusedIsLatest ==
    [][\A a \in Analyst :
         reused'[a] # reused[a] => reused'[a] = pointer[ident[a]]]_storeVars

\* A published result was computed from the trajectory that its identity names.
ResultOfItsSource ==
    \A v \in Version : published[v].status = "success" => published[v].of = v

=============================================================================
