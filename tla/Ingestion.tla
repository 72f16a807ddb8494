------------------------------- MODULE Ingestion -------------------------------
(***************************************************************************)
(* Ingestion of the PDF manuals (src/ingest.py), the import into pgvector  *)
(* (src/pgvector_migrate.py, src/vector_store.py) and what an API process  *)
(* accepts when it starts (backend/dependencies.py, src/retrieval.py).     *)
(*                                                                         *)
(* A job hashes and parses the manuals one after the other, replaces the   *)
(* record files one after the other (each atomically), rebuilds the vector *)
(* index in place and writes the manifest last.  It may be interrupted     *)
(* between any two of those steps, and the manuals may change under it.    *)
(* Jobs do not overlap and the API is down while one runs (README:155).    *)
(*                                                                         *)
(* The ids of a manual's records are hashes over the manual's sha256 and   *)
(* their text, so its records in a file or a collection are represented by *)
(* the pair <<hashed version, parsed version>>.  One schema and pipeline   *)
(* version is in use, so comparing the manifest's versions comes down to   *)
(* its existence; every manual has some text.                              *)
(***************************************************************************)
EXTENDS Naturals, FiniteSetsExt

CONSTANTS
  Manuals,       \* the PDF file names, numbered in the order of sorted()
  MaxVersion,    \* bound: versions of a manual
  MaxEdits,      \* bound: changes of the manuals directory
  MaxCrashes,    \* bound: interrupted jobs and failed database calls
  PutBack,       \* may an earlier version of a manual be put back?
  FirstStore,    \* the stores the first job may be configured with
  SwitchTo,      \* the stores VECTOR_STORE may be changed to later
  BackfillAfter  \* how the last job may have ended before a backfill

ASSUME IngestionAssumption ==
  /\ Manuals \subseteq Nat /\ IsFiniteSet(Manuals)
  /\ MaxVersion \in Nat \ {0} /\ {MaxEdits, MaxCrashes} \subseteq Nat
  /\ PutBack \in BOOLEAN

Versions == 1 .. MaxVersion
None     == <<0, 0>>
Records  == {None} \cup (Versions \X Versions)
Corpus   == [Manuals -> Records]
Empty    == [m \in Manuals |-> None]
Gone     == [m \in Manuals |-> 0]

\* Chroma as a local directory, Chroma as a server, PostgreSQL with pgvector.
Stores == {"local", "server", "pgvector"}

\* The record files, in the order in which a job writes them.
Files   == {"units", "segs", "reps", "headings", "concepts", "audits"}
AfterIt == [units |-> "segs", segs |-> "reps", reps |-> "headings", headings |-> "concepts",
            concepts |-> "audits", audits |-> "decide"]

Ended   == {"idle", "done", "invalid", "vanished", "crashed"}
Places  == Ended \cup Files \cup
           {"figures", "check", "hash", "parse", "evidence", "decide", "wipe", "open", "body",
            "bodyreps", "validate", "publish", "backfill", "manifest", "summary"}

ASSUME StoreAssumption ==
  FirstStore \cup SwitchTo \subseteq Stores /\ BackfillAfter \subseteq Ended

VARIABLES
  manuals,   \* the manuals directory: version of each PDF, 0 if there is none
  newest,    \* the newest version of each manual so far
  figures,   \* the catalog of manual figures: version they were taken from
  json,      \* the record files
  manifest,  \* manifest.json: the hash recorded for each manual, 0 for none
  index,     \* per store: chroma.sqlite3 there?, body and representation ids
  store,     \* VECTOR_STORE and CHROMA_MODE
  job,       \* the job and its local variables
  api,       \* what the running API process loaded, or Down
  edits, crashes

vars == <<manuals, newest, figures, json, manifest, index, store, job, api, edits, crashes>>

Down == [up |-> FALSE]
Idle(end, s) ==
  [at |-> end, store |-> s, files |-> {}, todo |-> {}, hash |-> 0, units |-> Empty,
   segs |-> Empty, entries |-> Gone, processed |-> {}, removed |-> {}]

TypeOK ==
  /\ {manuals, newest, figures, manifest} \subseteq [Manuals -> 0 .. MaxVersion]
  /\ json \in [Files -> Corpus]
  /\ index \in [Stores -> [made : BOOLEAN, body : Corpus, reps : Corpus]]
  /\ store \in Stores
  /\ job \in [at : Places, store : Stores, files : SUBSET Manuals, todo : SUBSET Manuals,
              hash : 0 .. MaxVersion, units : Corpus, segs : Corpus,
              entries : [Manuals -> 0 .. MaxVersion],
              processed : SUBSET Manuals, removed : SUBSET Manuals]
  /\ api = Down \/ api \in [up : {TRUE}, json : [Files -> Corpus], body : Corpus, reps : Corpus]
  /\ edits \in 0 .. MaxEdits /\ crashes \in 0 .. MaxCrashes

Init ==
  /\ manuals = [m \in Manuals |-> 1] /\ newest = manuals
  /\ figures = Gone /\ manifest = Gone
  /\ json = [f \in Files |-> Empty]
  /\ index = [s \in Stores |-> [made |-> FALSE, body |-> Empty, reps |-> Empty]]
  /\ store \in FirstStore
  /\ job = Idle("idle", store)
  /\ api = Down
  /\ edits = 0 /\ crashes = 0
-----------------------------------------------------------------------------
(* What is compared *)

NoManifest == manifest = Gone

\* The records parsed from version v of a manual: the hash is in every id.
RecordsOf(hash, v) == <<hash, v>>

\* Some segment or representation whose evidence unit is not in units.
Orphans(units, records) == \E m \in Manuals : records[m] # None /\ units[m] # records[m]

\* Mutant of Valid: only the collection of body segments is compared.
ValidBody(s) == index[s].body = json.segs

\* validate_indexes: the ids of both collections are those of the JSON files.
Valid(s) ==
  /\ ~Orphans(json.units, json.reps)
  /\ index[s].body = json.segs
  /\ index[s].reps = json.reps

\* chroma_indexes_exist
IndexExists ==
  CASE store = "local"    -> index[store].made
    [] store = "server"   -> index[store].body # Empty /\ index[store].reps # Empty
    [] store = "pgvector" -> Valid(store)

\* Mutant of Reusable: the hash alone decides.
ReusableByHash(m) == manifest[m] = manuals[m]

\* The records of m are those of the hash in the manifest.
Reusable(m) ==
  /\ manifest[m] = manuals[m]
  /\ None \notin {json.units[m], json.segs[m], json.audits[m]}

-----------------------------------------------------------------------------
(* The operator *)

\* A manual is replaced, removed or restored, at any time.
Edit(m, v) ==
  /\ edits < MaxEdits
  /\ v # manuals[m]
  /\ manuals' = [manuals EXCEPT ![m] = v]
  /\ newest' = [newest EXCEPT ![m] = IF v > @ THEN v ELSE @]
  /\ edits' = edits + 1
  /\ UNCHANGED <<figures, json, manifest, index, store, job, api, crashes>>

\* Versions that m may change to: the next one, none, the last one after none.
Replacements(m) ==
  {0} \cup {v \in Versions : \/ v = newest[m] + 1
                             \/ v = newest[m] /\ manuals[m] = 0
                             \/ PutBack /\ v <= newest[m]}

Switch(s) ==
  /\ job.at \in Ended /\ s # store
  /\ store' = s /\ api' = Down
  /\ UNCHANGED <<manuals, newest, figures, json, manifest, index, job, edits, crashes>>
-----------------------------------------------------------------------------
(* The job: ingest_manuals *)

world == <<manuals, newest, store, edits>>

Go(place) == job' = [job EXCEPT !.at = place]
End(end)  == job' = Idle(end, job.store)
NextManual    == Min(job.todo)

\* The manuals are listed; the removed ones are those only the manifest names.
Start ==
  LET found == {m \in Manuals : manuals[m] # 0} IN
  /\ job.at \in Ended /\ found # {}
  /\ job' = [Idle("figures", store) EXCEPT
               !.files = found, !.todo = found,
               !.removed = {m \in Manuals \ found : manifest[m] # 0}]
  /\ api' = Down
  /\ UNCHANGED <<world, figures, json, manifest, index, crashes>>

\* There are no manuals: FileNotFoundError.
StartWithout ==
  /\ job.at \in Ended /\ manuals = Gone
  /\ job' = Idle("vanished", store)
  /\ api' = Down
  /\ UNCHANGED <<world, figures, json, manifest, index, crashes>>

\* The catalog of figures is rebuilt from all manuals, changed or not.
ExtractFigures ==
  /\ job.at = "figures"
  /\ \A m \in job.files : manuals[m] # 0
  /\ figures' = [m \in Manuals |-> IF m \in job.files THEN manuals[m] ELSE 0]
  /\ Go("check")
  /\ UNCHANGED <<world, json, manifest, index, api, crashes>>

\* The next manual is hashed: its records are kept, or it is ingested.
Check ==
  /\ job.at = "check" /\ job.todo # {} /\ manuals[NextManual] # 0
  /\ IF Reusable(NextManual)
       THEN job' = [job EXCEPT !.todo = @ \ {NextManual},
                               !.units[NextManual] = json.units[NextManual],
                               !.segs[NextManual] = json.segs[NextManual],
                               !.entries[NextManual] = manifest[NextManual]]
       ELSE Go("hash")
  /\ UNCHANGED <<world, figures, json, manifest, index, api, crashes>>

\* Mutant of Hash: the hash is left out of the record ids.
HashNot ==
  /\ job.at = "hash" /\ manuals[NextManual] # 0
  /\ Go("parse")
  /\ UNCHANGED <<world, figures, json, manifest, index, api, crashes>>

\* _ingest_pdf hashes the file once more ...
Hash ==
  /\ job.at = "hash" /\ manuals[NextManual] # 0
  /\ job' = [job EXCEPT !.at = "parse", !.hash = manuals[NextManual]]
  /\ UNCHANGED <<world, figures, json, manifest, index, api, crashes>>

\* Mutant of Parse: the hash is taken after the text.
ParseThenHash ==
  /\ job.at = "parse" /\ manuals[NextManual] # 0
  /\ LET record == RecordsOf(manuals[NextManual], job.hash) IN
     job' = [job EXCEPT !.at = "check", !.todo = @ \ {NextManual}, !.hash = 0,
                        !.units[NextManual] = record, !.segs[NextManual] = record,
                        !.entries[NextManual] = manuals[NextManual],
                        !.processed = @ \cup {NextManual}]
  /\ UNCHANGED <<world, figures, json, manifest, index, api, crashes>>

\* ... then opens and parses it.
Parse ==
  /\ job.at = "parse" /\ manuals[NextManual] # 0
  /\ LET record == RecordsOf(job.hash, manuals[NextManual]) IN
     job' = [job EXCEPT !.at = "check", !.todo = @ \ {NextManual}, !.hash = 0,
                        !.units[NextManual] = record, !.segs[NextManual] = record,
                        !.entries[NextManual] = job.hash,
                        !.processed = @ \cup {NextManual}]
  /\ UNCHANGED <<world, figures, json, manifest, index, api, crashes>>

\* A manual that was listed is gone when it is opened: the job fails.
Vanish ==
  /\ \/ job.at = "figures" /\ \E m \in job.files : manuals[m] = 0
     \/ job.at = "check" /\ job.todo # {} /\ manuals[NextManual] = 0
     \/ job.at \in {"hash", "parse"} /\ manuals[NextManual] = 0
  /\ End("vanished")
  /\ UNCHANGED <<world, figures, json, manifest, index, api, crashes>>

\* Every segment has its evidence unit, or the job fails.
CheckEvidence ==
  /\ job.at = "check" /\ job.todo = {}
  /\ IF Orphans(job.units, job.segs) THEN End("invalid") ELSE Go("units")
  /\ UNCHANGED <<world, figures, json, manifest, index, api, crashes>>

\* Everything but the segments is derived from the evidence units.
Content(f) == IF f = "segs" THEN job.segs ELSE job.units

\* The record files are replaced, one after the other.
WriteRecords ==
  /\ job.at \in Files
  /\ json' = [json EXCEPT ![job.at] = Content(job.at)]
  /\ Go(AfterIt[job.at])
  /\ UNCHANGED <<world, figures, manifest, index, api, crashes>>

\* Mutant of MustRebuild: a removed manual does not count.
MustRebuildIfProcessed == job.processed # {} \/ NoManifest \/ ~IndexExists

\* Is the vector index rebuilt, or is the one there only validated?
MustRebuild ==
  job.processed # {} \/ job.removed # {} \/ NoManifest \/ ~IndexExists

\* Mutant of Decide: the manifest is written before the index is built.
DecideManifestFirst ==
  /\ job.at = "decide"
  /\ IF MustRebuild \/ Valid(store) THEN Go("manifest") ELSE End("invalid")
  /\ UNCHANGED <<world, figures, json, manifest, index, api, crashes>>

Decide ==
  /\ job.at = "decide"
  /\ IF MustRebuild
       THEN job' = [job EXCEPT !.todo = job.files,
                               !.at = IF store = "pgvector" THEN "publish" ELSE "wipe"]
       ELSE IF Valid(store) THEN Go("manifest") ELSE End("invalid")
  /\ UNCHANGED <<world, figures, json, manifest, index, api, crashes>>

WriteManifest ==
  /\ job.at = "manifest"
  /\ manifest' = job.entries
  /\ IF job.store = "pgvector" THEN Go("summary") ELSE End("done")
  /\ UNCHANGED <<world, figures, json, index, api, crashes>>

\* pgvector only: what the database holds is validated once more.
Summary ==
  /\ job.at = "summary"
  /\ IF Valid("pgvector") /\ ~NoManifest THEN End("done") ELSE End("invalid")
  /\ UNCHANGED <<world, figures, json, manifest, index, api, crashes>>
-----------------------------------------------------------------------------
(* build_indexes: Chroma, in place *)

\* The local directory is deleted; a server loses the body collection.
Wipe ==
  /\ job.at = "wipe"
  /\ index' = [index EXCEPT ![store] =
                 IF store = "local" THEN [made |-> FALSE, body |-> Empty, reps |-> Empty]
                                    ELSE [@ EXCEPT !.body = Empty]]
  /\ Go("open")
  /\ UNCHANGED <<world, figures, json, manifest, api, crashes>>

\* The client makes chroma.sqlite3; a server loses the second collection.
Open ==
  /\ job.at = "open"
  /\ index' = [index EXCEPT ![store] = [made |-> TRUE, body |-> @.body, reps |-> Empty]]
  /\ Go("body")
  /\ UNCHANGED <<world, figures, json, manifest, api, crashes>>

\* Batches of segments, then of representations, are embedded and added.
AddBody ==
  /\ job.at = "body"
  /\ index' = [index EXCEPT ![store].body[NextManual] = job.segs[NextManual]]
  /\ job' = IF job.todo = {NextManual} THEN [job EXCEPT !.at = "bodyreps", !.todo = job.files]
                                   ELSE [job EXCEPT !.todo = @ \ {NextManual}]
  /\ UNCHANGED <<world, figures, json, manifest, api, crashes>>

AddReps ==
  /\ job.at = "bodyreps"
  /\ index' = [index EXCEPT ![store].reps[NextManual] = json.reps[NextManual]]
  /\ job' = [job EXCEPT !.at = IF job.todo = {NextManual} THEN "validate" ELSE @,
                        !.todo = @ \ {NextManual}]
  /\ UNCHANGED <<world, figures, json, manifest, api, crashes>>

Validate ==
  /\ job.at = "validate"
  /\ IF Valid(store) THEN Go("manifest") ELSE End("invalid")
  /\ UNCHANGED <<world, figures, json, manifest, index, api, crashes>>
-----------------------------------------------------------------------------
(* build_pgvector_indexes: one transaction *)

Published == [index EXCEPT !["pgvector"] = [made |-> FALSE, body |-> json.segs, reps |-> json.reps]]

Publish ==
  /\ job.at \in {"publish", "backfill"}
  /\ index' = Published
  /\ Go(IF job.at = "publish" THEN "manifest" ELSE "summary")
  /\ UNCHANGED <<world, figures, json, manifest, api, crashes>>

\* The call fails: rolled back, or committed with the answer lost.
PublishFails ==
  /\ job.at \in {"publish", "backfill"} /\ crashes < MaxCrashes
  /\ index' \in {index, Published}
  /\ End("crashed")
  /\ crashes' = crashes + 1
  /\ UNCHANGED <<world, figures, json, manifest, api>>

\* pgvector_migrate --backfill: the record files there are published as they are.
StartBackfill ==
  /\ job.at \in BackfillAfter /\ ~NoManifest
  /\ job' = IF Orphans(json.units, json.segs) \/ Orphans(json.units, json.reps)
              THEN Idle("invalid", "pgvector")
              ELSE Idle("backfill", "pgvector")
  /\ api' = Down
  /\ UNCHANGED <<world, figures, json, manifest, index, crashes>>

\* The job is interrupted; what it did not write is lost.
Crash ==
  /\ job.at \notin Ended /\ crashes < MaxCrashes
  /\ End("crashed")
  /\ crashes' = crashes + 1
  /\ UNCHANGED <<world, figures, json, manifest, index, api>>
-----------------------------------------------------------------------------
(* The API process *)

\* load_resources: the index has the ids of the files that are loaded, and no
\* record lacks its evidence.
Loadable == ~NoManifest /\ Valid(store) /\ ~Orphans(json.units, json.segs)

\* validate_search_indexes, then the first load, kept until the process ends.
StartApi ==
  /\ job.at \in Ended /\ api = Down
  /\ Loadable
  /\ store = "local" => index[store].made
  /\ api' = [up |-> TRUE, json |-> json, body |-> index[store].body, reps |-> index[store].reps]
  /\ UNCHANGED <<world, figures, json, manifest, index, job, crashes>>
-----------------------------------------------------------------------------
Building  == Wipe \/ Open \/ AddBody \/ AddReps \/ Validate \/ Publish
Ingesting == \/ ExtractFigures \/ Check \/ Hash \/ Parse \/ Vanish \/ CheckEvidence
             \/ WriteRecords \/ Decide \/ WriteManifest \/ Summary
JobStep   == Ingesting \/ Building
Operator  == \/ \E m \in Manuals : \E v \in Replacements(m) : Edit(m, v)
             \/ \E s \in SwitchTo : Switch(s)
             \/ StartBackfill
             \/ StartApi

Next == JobStep \/ Start \/ StartWithout \/ Operator \/ Crash \/ PublishFails

Spec == Init /\ [][Next]_vars

\* A job that is not interrupted goes on, and the operator keeps running the
\* ingestion, whatever backfills come in between.
FairSpec == Spec /\ WF_vars(JobStep) /\ SF_vars(Start)
-----------------------------------------------------------------------------
(* Properties *)

\* The manifest never promises a newer version of a manual than the records
\* hold: the text is parsed after the hash, and the manifest written last.
ManifestNeverAhead ==
  \A m \in Manuals : \A f \in {"units", "segs"} :
    manifest[m] # 0 /\ json[f][m] # None => json[f][m][2] >= manifest[m]

\* The records a job keeps for an unchanged manual are all there, and were
\* hashed and parsed from the version of the hash it kept them for.
ReuseUnchanged ==
  \A m \in job.files \ (job.todo \cup job.processed) :
    job.at \notin Ended \cup {"figures"} =>
      {job.units[m], job.segs[m]} = {<<job.entries[m], job.entries[m]>>}

\* What the manifest promises about a manual holds of its records.
RecordsAsPromised == ManifestNeverAhead /\ ReuseUnchanged

\* After a job that completed, the manifest, the record files and the two
\* collections of its store name the same manuals with the same hashes.
CompletedWhole ==
  job.at = "done" =>
    /\ \A f \in Files : json[f] = json.units
    /\ index[job.store].body = json.units /\ index[job.store].reps = json.units
    /\ \A m \in Manuals : manifest[m] = json.units[m][1]

\* An API process never searches a mixture of two ingestions, although it may
\* be started after one that was interrupted anywhere: the segments, the
\* representations and both collections name the same records, and each has its
\* evidence.  (Headings and concepts are loaded unchecked and may be older.)
\* So with one interruption, or any number of them under pgvector; no check compares
\* segments with representations, and two interrupted Chroma jobs get around it.
ServesOneIngestion ==
  api # Down =>
    /\ \A records \in {api.json.reps, api.body, api.reps} : records = api.json.segs
    /\ \A m \in Manuals : api.json.segs[m] \in {None, api.json.units[m]}

\* Everything is that of the manuals in the directory.
UpToDate ==
  /\ figures = manuals
  /\ \A m \in Manuals : /\ manifest[m] = manuals[m]
                        /\ \A f \in Files : json[f][m][2] = manuals[m]
                        /\ index[store].body[m][2] = manuals[m]
                        /\ index[store].reps[m][2] = manuals[m]

\* When the manuals change no more, running the job again brings every file
\* and the index up to date for good, wherever one job was interrupted before.
\* After two it may not: if the first dropped the records of a manual that is
\* then put back and the second, which restored them, had begun the index, the
\* old manifest's hash matches again, and no later job rebuilds that index.
CatchesUp == <>[](UpToDate \/ manuals = Gone)

\* Running the ingestion again rebuilds the index the configured store needs:
\* no job is refused by the ids of an index that it has not rebuilt.
RebuildsWhenNeeded == job.at # "invalid"
=============================================================================
