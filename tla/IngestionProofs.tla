---------------------------- MODULE IngestionProofs ----------------------------
(***************************************************************************)
(* Proofs about Ingestion, for every set of manuals and every number of    *)
(* versions, changes and interruptions: what the manifest promises holds   *)
(* of the records, a job that completes leaves everything at one, and an   *)
(* API never serves a mixture of two ingestions.  The first two presuppose *)
(* that no earlier version of a manual is put back (Forward).              *)
(***************************************************************************)
EXTENDS Ingestion, WellFoundedInduction, TLAPS

(***************************************************************************)
(* The inductive invariant                                                 *)
(***************************************************************************)
Forward == PutBack = FALSE

Parsing == {"figures", "check", "hash", "parse"}
Late == {"decide", "wipe", "open", "body", "bodyreps", "validate", "publish", "manifest"}

\* The manuals whose records the job has; afterwards it counts todo anew.
Taken == IF job.at \in Parsing THEN job.files \ job.todo ELSE job.files

\* A record was hashed no earlier than the version the manifest promises, parsed no
\* earlier than it was hashed, and neither later than now.
Promised(m, record) ==
  Forward /\ record # None => manifest[m] <= record[1] /\ record[1] <= record[2] /\ record[2] <= newest[m]

ManualInv(m) ==
  /\ newest[m] \in Versions
  /\ Forward => manuals[m] \in {0, newest[m]} /\ manifest[m] <= newest[m]
  /\ Promised(m, json.units[m]) /\ Promised(m, json.segs[m])

\* The records of m the job has, kept or new, or does not have.
TakenInv(m) ==
  /\ job.units[m] # None /\ job.segs[m] # None /\ Promised(m, job.units[m])
  /\ Forward => job.segs[m] = job.units[m] /\ job.entries[m] = job.units[m][1]
  /\ Forward /\ m \notin job.processed => job.units[m] = <<job.entries[m], job.entries[m]>>
LeftInv(m) ==
  job.units[m] = None /\ job.segs[m] = None /\ job.entries[m] = 0 /\ m \notin job.processed

HashInv ==
  job.at = "parse" =>
    /\ job.hash \in Versions
    /\ Forward => manifest[NextManual] <= job.hash /\ job.hash <= newest[NextManual]

TodoInv ==
  /\ job.todo \subseteq job.files
  /\ job.at \in {"hash", "parse", "wipe", "open", "body", "bodyreps"} => job.todo # {}
  /\ job.at \in Parsing \cup Files \cup Late => job.files # {}

\* The record files the job has replaced.
Before == [units |-> {}, segs |-> {"units"}, reps |-> {"units", "segs"},
           headings |-> {"units", "segs", "reps"},
           concepts |-> {"units", "segs", "reps", "headings"},
           audits |-> {"units", "segs", "reps", "headings", "concepts"}]
Written == IF job.at \in Late THEN Files ELSE IF job.at \in Files THEN Before[job.at] ELSE {}
FilesInv ==
  /\ job.at \in Files \cup Late => job.segs = job.units
  /\ \A f \in Written : json[f] = job.units

StoreInv ==
  /\ job.at \notin Ended \cup {"backfill", "summary"} => store = job.store
  /\ job.at = "manifest" => Valid(job.store)
  /\ job.at \in {"publish", "backfill", "summary"} => job.store = "pgvector"

\* What a completed job has left, and a backfill after it starts from.
OneIngestion ==
  /\ \A f \in Files : json[f] = json.units
  /\ Forward => \A m \in Manuals : manifest[m] = json.units[m][1]
Indexed(s) == index[s].body = json.units /\ index[s].reps = json.units
WholeInv ==
  BackfillAfter \subseteq {"done"} =>
    /\ job.at \in {"done", "backfill", "summary"} => OneIngestion
    /\ job.at = "done" => Indexed(job.store)

ManualsInv == \A m \in Manuals : ManualInv(m)
RecordsInv == \A m \in Manuals : IF m \in Taken THEN TakenInv(m) ELSE LeftInv(m)

IngestInv ==
  TypeOK /\ ManualsInv /\ RecordsInv /\ HashInv /\ TodoInv /\ FilesInv /\ StoreInv /\ WholeInv
-----------------------------------------------------------------------------
(* Types *)

WorldTypes ==
  /\ manuals \in [Manuals -> 0 .. MaxVersion] /\ newest \in [Manuals -> 0 .. MaxVersion]
  /\ store \in Stores /\ edits \in 0 .. MaxEdits
DiskTypes ==
  /\ figures \in [Manuals -> 0 .. MaxVersion] /\ manifest \in [Manuals -> 0 .. MaxVersion]
  /\ json \in [Files -> Corpus]
  /\ index \in [Stores -> [made : BOOLEAN, body : Corpus, reps : Corpus]]
JobSet == [at : Places, store : Stores, files : SUBSET Manuals, todo : SUBSET Manuals,
           hash : 0 .. MaxVersion, units : Corpus, segs : Corpus,
           entries : [Manuals -> 0 .. MaxVersion],
           processed : SUBSET Manuals, removed : SUBSET Manuals]
JobTypes == job \in JobSet
ApiTypes ==
  /\ api = Down \/ api \in [up : {TRUE}, json : [Files -> Corpus], body : Corpus, reps : Corpus]
  /\ crashes \in 0 .. MaxCrashes

LEMMA TypesNow == TypeOK <=> WorldTypes /\ DiskTypes /\ JobTypes /\ ApiTypes
BY DEF TypeOK, WorldTypes, DiskTypes, JobTypes, JobSet, ApiTypes

LEMMA TypesNext == TypeOK' <=> WorldTypes' /\ DiskTypes' /\ JobTypes' /\ ApiTypes'
BY DEF TypeOK, WorldTypes, DiskTypes, JobTypes, JobSet, ApiTypes

LEMMA InvNow ==
  ASSUME IngestInv
  PROVE  /\ WorldTypes /\ DiskTypes /\ JobTypes /\ ApiTypes
         /\ ManualsInv /\ RecordsInv /\ HashInv /\ TodoInv /\ FilesInv /\ StoreInv /\ WholeInv
BY TypesNow DEF IngestInv

LEMMA InvNext ==
  ASSUME WorldTypes', DiskTypes', JobTypes', ApiTypes',
         ManualsInv', RecordsInv', HashInv', TodoInv', FilesInv', StoreInv', WholeInv'
  PROVE  IngestInv'
BY TypesNext DEF IngestInv

LEMMA Untouched ==
  ASSUME IngestInv
  PROVE  /\ UNCHANGED world => WorldTypes'
         /\ UNCHANGED <<figures, json, manifest, index>> => DiskTypes'
         /\ UNCHANGED <<api, crashes>> => ApiTypes'
<1>1. UNCHANGED world => WorldTypes'
  BY InvNow DEF world, WorldTypes
<1>2. UNCHANGED <<figures, json, manifest, index>> => DiskTypes'
  BY InvNow DEF DiskTypes, Corpus, Records, Versions, Stores, Files
<1>3. UNCHANGED <<api, crashes>> => ApiTypes'
  BY InvNow DEF ApiTypes, Down, Corpus, Records, Versions, Files
<1>. QED
  BY <1>1, <1>2, <1>3

\* The smallest of a set of numbers is one of them.
LEMMA Smallest ==
  ASSUME NEW S \in SUBSET Nat, S # {}
  PROVE  Min(S) \in S
<1>1. PICK x \in S : \A y \in S : ~ (<<y, x>> \in OpToRel(<, Nat))
  BY WFMin, NatLessThanWellFounded, Zenon
<1>2. ASSUME NEW y \in S, y < x PROVE FALSE
  <2>1. <<y, x>> \in Nat \X Nat
    OBVIOUS
  <2>2. <<y, x>> \in OpToRel(<, Nat)
    BY <1>2, <2>1 DEF OpToRel
  <2>. QED
    BY <1>1, <2>2
<1>3. \A y \in S : x =< y
  BY <1>2
<1>. QED
  BY <1>3 DEF Min

LEMMA NextOne ==
  ASSUME IngestInv, job.todo # {}
  PROVE  NextManual \in job.todo /\ NextManual \in Manuals
<1>1. job.todo \subseteq Manuals
  BY InvNow DEF JobTypes, JobSet
<1>. QED
  BY <1>1, Smallest, IngestionAssumption DEF NextManual

LEMMA NoRecords ==
  None \in Records /\ None[1] = 0 /\ Empty \in Corpus /\ Gone \in [Manuals -> 0 .. MaxVersion]
BY IngestionAssumption DEF None, Records, Empty, Corpus, Gone

\* A job that rests, or starts a backfill, has nothing of its own.
LEMMA IdleJob ==
  ASSUME NEW end \in Places, NEW s \in Stores
  PROVE  /\ Idle(end, s) \in JobSet
         /\ Idle(end, s).at = end /\ Idle(end, s).store = s /\ Idle(end, s).files = {}
         /\ Idle(end, s).todo = {} /\ Idle(end, s).processed = {}
         /\ Idle(end, s).units = Empty /\ Idle(end, s).segs = Empty /\ Idle(end, s).entries = Gone
BY NoRecords, IngestionAssumption DEF Idle, JobSet

\* Only the place of the job changes.
LEMMA Going ==
  ASSUME IngestInv, NEW place \in Places, Go(place)
  PROVE  /\ JobTypes' /\ job'.at = place
         /\ job'.store = job.store /\ job'.files = job.files /\ job'.todo = job.todo
         /\ job'.hash = job.hash /\ job'.units = job.units /\ job'.segs = job.segs
         /\ job'.entries = job.entries /\ job'.processed = job.processed
         /\ NextManual' = NextManual
<1>1. job \in JobSet
  BY InvNow DEF JobTypes, JobSet
<1>2. job' \in JobSet /\ job'.at = place
      /\ job'.store = job.store /\ job'.files = job.files /\ job'.todo = job.todo
      /\ job'.hash = job.hash /\ job'.units = job.units /\ job'.segs = job.segs
      /\ job'.entries = job.entries /\ job'.processed = job.processed
  BY <1>1 DEF Go, JobSet
<1>3. NextManual' = NextManual
  BY <1>2 DEF NextManual
<1>4. JobTypes'
  BY <1>2 DEF JobTypes, JobSet, Places, Ended, Files, Stores, Corpus, Records, Versions
<1>. QED
  BY <1>2, <1>3, <1>4

LEMMA SameManuals ==
  ASSUME IngestInv, UNCHANGED <<manuals, newest, manifest>>,
         json'.units = json.units, json'.segs = json.segs
  PROVE  ManualsInv'
BY InvNow DEF ManualsInv, ManualInv, Promised, Versions, None

LEMMA SameRecords ==
  ASSUME IngestInv, Taken' = Taken, UNCHANGED <<newest, manifest>>,
         job'.units = job.units, job'.segs = job.segs, job'.entries = job.entries,
         job'.processed = job.processed
  PROVE  RecordsInv'
BY InvNow DEF RecordsInv, TakenInv, LeftInv, Promised, None

\* The job ends, or is started for a backfill, and keeps no records.
LEMMA Resting ==
  ASSUME IngestInv, NEW end \in Ended \cup {"backfill"}, NEW s \in Stores,
         job' = Idle(end, s), end = "backfill" => s = "pgvector"
  PROVE  /\ JobTypes' /\ RecordsInv' /\ HashInv' /\ TodoInv' /\ FilesInv' /\ StoreInv'
         /\ job'.at = end /\ job'.store = s
<1>1. end \in Places /\ end \notin Parsing \cup Files \cup Late \cup {"summary"}
  BY DEF Places, Ended, Parsing, Files, Late
<1>2. job' \in JobSet /\ job'.at = end /\ job'.store = s /\ job'.files = {} /\ job'.todo = {}
      /\ job'.processed = {} /\ job'.units = Empty /\ job'.segs = Empty /\ job'.entries = Gone
  BY <1>1, IdleJob DEF JobSet
<1>3. JobTypes'
  BY <1>2 DEF JobTypes, JobSet, Places, Ended, Files, Stores, Corpus, Records, Versions
<1>4. Taken' = {}
  BY <1>1, <1>2 DEF Taken, Parsing
<1>5. \A m \in Manuals : LeftInv(m)'
  BY <1>2 DEF LeftInv, Empty, Gone, None
<1>6. RecordsInv'
  BY <1>4, <1>5 DEF RecordsInv
<1>7. HashInv'
  BY <1>1, <1>2 DEF HashInv, Parsing
<1>8. TodoInv'
  BY <1>1, <1>2 DEF TodoInv, Parsing, Late
<1>9. Written' = {}
  BY <1>1, <1>2 DEF Written, Late, Files
<1>10. FilesInv'
  BY <1>1, <1>2, <1>9 DEF FilesInv
<1>11. StoreInv'
  BY <1>1, <1>2 DEF StoreInv, Late, Ended
<1>. QED
  BY <1>2, <1>3, <1>6, <1>7, <1>8, <1>10, <1>11

\* The job ends without completing.
LEMMA Failing ==
  ASSUME IngestInv, NEW end \in Ended \ {"done"}, NEW s \in Stores, job' = Idle(end, s),
         UNCHANGED world, UNCHANGED <<figures, json, manifest>>, DiskTypes', ApiTypes'
  PROVE  IngestInv'
<1>1. /\ JobTypes' /\ RecordsInv' /\ HashInv' /\ TodoInv' /\ FilesInv' /\ StoreInv'
      /\ job'.at = end
  <2>1. end # "backfill"
    BY DEF Ended
  <2>. QED
    BY <2>1, Resting
<1>2. ManualsInv'
  BY SameManuals DEF world
<1>3. WholeInv'
  <2>1. job'.at \notin {"done", "backfill", "summary"}
    BY <1>1 DEF Ended
  <2>. QED
    BY <2>1 DEF WholeInv
<1>4. WorldTypes'
  BY Untouched
<1>. QED
  BY <1>1, <1>2, <1>3, <1>4, InvNext

-----------------------------------------------------------------------------
(* The operator *)

LEMMA EditKeeps ==
  ASSUME IngestInv, NEW m \in Manuals, NEW v \in Replacements(m), Edit(m, v)
  PROVE  IngestInv'
<1>1. newest \in [Manuals -> 0 .. MaxVersion] /\ manuals \in [Manuals -> 0 .. MaxVersion]
      /\ edits \in Nat
  BY InvNow DEF WorldTypes
<1>2. newest[m] \in Versions
  BY InvNow DEF ManualsInv, ManualInv
<1>3. \/ v = 0
      \/ v \in Versions /\ v = newest[m] + 1
      \/ v = newest[m]
      \/ v \in Versions /\ v <= newest[m] /\ PutBack
  <2>1. \/ v = 0
        \/ v \in Versions /\ (v = newest[m] + 1 \/ (v = newest[m] /\ manuals[m] = 0)
                              \/ (PutBack /\ v <= newest[m]))
    BY Zenon DEF Replacements
  <2>. QED
    BY <2>1
<1>4. /\ newest' \in [Manuals -> 0 .. MaxVersion] /\ manuals' \in [Manuals -> 0 .. MaxVersion]
      /\ \A n \in Manuals : /\ newest'[n] \in Versions /\ newest[n] <= newest'[n]
                            /\ Forward => manuals'[n] \in {0, newest'[n]}
  <2>1. \A n \in Manuals : newest[n] \in Versions /\ (Forward => manuals[n] \in {0, newest[n]})
    BY InvNow DEF ManualsInv, ManualInv
  <2>2. v \in 0 .. MaxVersion
    BY <1>2, <1>3, IngestionAssumption DEF Versions
  <2>3. /\ newest' \in [Manuals -> 0 .. MaxVersion] /\ manuals' \in [Manuals -> 0 .. MaxVersion]
        /\ manuals'[m] = v /\ newest'[m] = IF v > newest[m] THEN v ELSE newest[m]
        /\ \A n \in Manuals \ {m} : manuals'[n] = manuals[n] /\ newest'[n] = newest[n]
    BY <1>1, <1>2, <2>2 DEF Edit, Versions
  <2>4. /\ newest'[m] \in Versions /\ newest[m] <= newest'[m]
        /\ PutBack = FALSE => v \in {0, newest'[m]}
    BY <1>2, <1>3, <2>3 DEF Versions
  <2>5. \A n \in Manuals \ {m} : newest[n] <= newest'[n]
    BY <2>1, <2>3 DEF Versions
  <2>. QED
    BY <2>1, <2>3, <2>4, <2>5 DEF Forward
<1>5. UNCHANGED <<figures, json, manifest, index, store, job, api, crashes>>
  BY DEF Edit
<1>6. WorldTypes'
  <2>1. edits' \in 0 .. MaxEdits
    BY <1>1, IngestionAssumption DEF Edit
  <2>2. store' \in Stores
    BY InvNow, <1>5 DEF WorldTypes, Stores
  <2>. QED
    BY <1>4, <2>1, <2>2 DEF WorldTypes, Stores
<1>7. DiskTypes' /\ ApiTypes'
  BY <1>5, Untouched
<1>8. JobTypes'
  BY <1>5, InvNow DEF JobTypes, JobSet, Places, Ended, Files, Stores, Corpus, Records, Versions
<1>9. \A n \in Manuals, r \in Records : Promised(n, r) => Promised(n, r)'
  BY <1>1, <1>4, <1>5 DEF Promised, Records, None, Versions
<1>10. \A n \in Manuals : json["units"][n] \in Records /\ json["segs"][n] \in Records
                          /\ job.units[n] \in Records /\ manifest[n] \in Nat
  BY InvNow DEF DiskTypes, JobTypes, JobSet, Corpus, Files
<1>11. ManualsInv'
  <2>1. \A n \in Manuals : /\ Forward => manifest[n] <= newest[n]
                          /\ Promised(n, json.units[n]) /\ Promised(n, json.segs[n])
    BY InvNow DEF ManualsInv, ManualInv
  <2>2. \A n \in Manuals : Promised(n, json.units[n])' /\ Promised(n, json.segs[n])'
    BY <1>9, <1>10, <2>1, <1>5
  <2>3. \A n \in Manuals : Forward => manifest'[n] <= newest'[n]
    BY <1>1, <1>4, <1>5, <1>10, <2>1 DEF Versions
  <2>. QED
    BY <1>4, <2>2, <2>3, <1>5 DEF ManualsInv, ManualInv, Versions
<1>12. RecordsInv'
  <2>1. Taken' = Taken
    BY <1>5 DEF Taken, Parsing
  <2>2. \A n \in Manuals : Promised(n, job.units[n]) => Promised(n, job.units[n])'
    BY <1>9, <1>10, <1>5
  <2>. QED
    BY <2>1, <2>2, <1>5, InvNow DEF RecordsInv, TakenInv, LeftInv, None
<1>13. HashInv'
  <2>1. CASE job.at # "parse"
    BY <2>1, <1>5 DEF HashInv
  <2>2. CASE job.at = "parse"
    <3>1. NextManual \in Manuals
      BY <2>2, InvNow, NextOne DEF TodoInv
    <3>2. NextManual' = NextManual
      BY <1>5 DEF NextManual
    <3>3. /\ job.hash \in Versions
          /\ Forward => manifest[NextManual] <= job.hash /\ job.hash <= newest[NextManual]
      BY <2>2, InvNow DEF HashInv
    <3>4. newest[NextManual] <= newest'[NextManual] /\ newest[NextManual] \in Nat
          /\ newest'[NextManual] \in Nat
      BY <3>1, <1>1, <1>4 DEF Versions
    <3>5. Forward => job.hash <= newest'[NextManual]
      BY <3>3, <3>4 DEF Versions
    <3>. QED
      BY <3>2, <3>3, <3>5, <1>5 DEF HashInv, Versions
  <2>. QED
    BY <2>1, <2>2
<1>14. TodoInv' /\ FilesInv'
  BY <1>5, InvNow DEF TodoInv, FilesInv, Written, Parsing, Late, Files, Before
<1>15. StoreInv'
  BY <1>5, InvNow DEF StoreInv, Late, Ended, Valid, Orphans, None
<1>16. WholeInv'
  BY <1>5, InvNow DEF WholeInv, OneIngestion, Indexed, Files
<1>. QED
  BY <1>6, <1>7, <1>8, <1>11, <1>12, <1>13, <1>14, <1>15, <1>16, InvNext

LEMMA SwitchKeeps ==
  ASSUME IngestInv, NEW s \in SwitchTo, Switch(s)
  PROVE  IngestInv'
<1>1. job.at \in Ended /\ store' = s /\ api' = Down
      /\ UNCHANGED <<manuals, newest, figures, json, manifest, index, job, edits, crashes>>
  BY DEF Switch
<1>2. WorldTypes'
  BY <1>1, InvNow, StoreAssumption DEF WorldTypes, Stores
<1>3. DiskTypes'
  BY <1>1, Untouched
<1>4. ApiTypes'
  BY <1>1, InvNow DEF ApiTypes, Down
<1>5. JobTypes'
  BY <1>1, InvNow DEF JobTypes, JobSet, Places, Ended, Files, Stores, Corpus, Records, Versions
<1>6. ManualsInv'
  BY <1>1, SameManuals
<1>7. RecordsInv'
  <2>1. Taken' = Taken
    BY <1>1 DEF Taken, Parsing
  <2>. QED
    BY <1>1, <2>1, SameRecords
<1>8. HashInv'
  BY <1>1 DEF HashInv, Ended
<1>9. TodoInv' /\ FilesInv'
  BY <1>1, InvNow DEF TodoInv, FilesInv, Written, Parsing, Late, Files, Before
<1>10. StoreInv'
  BY <1>1 DEF StoreInv, Late, Ended
<1>11. WholeInv'
  BY <1>1, InvNow DEF WholeInv, OneIngestion, Indexed, Files
<1>. QED
  BY <1>2, <1>3, <1>4, <1>5, <1>6, <1>7, <1>8, <1>9, <1>10, <1>11, InvNext

LEMMA StartApiKeeps ==
  ASSUME IngestInv, StartApi
  PROVE  IngestInv'
<1>1. UNCHANGED <<world, figures, json, manifest, index, job, crashes>>
  BY DEF StartApi
<1>2. WorldTypes' /\ DiskTypes'
  BY <1>1, Untouched
<1>3. ApiTypes'
  <2>1. json \in [Files -> Corpus] /\ index[store].body \in Corpus /\ index[store].reps \in Corpus
    BY InvNow DEF DiskTypes, WorldTypes
  <2>2. crashes' \in 0 .. MaxCrashes
    BY <1>1, InvNow DEF ApiTypes
  <2>3. api' \in [up : {TRUE}, json : [Files -> Corpus], body : Corpus, reps : Corpus]
    BY <2>1 DEF StartApi
  <2>. QED
    BY <2>2, <2>3 DEF ApiTypes, Corpus, Records, Versions, Files
<1>4. JobTypes'
  BY <1>1, InvNow DEF JobTypes, JobSet, Places, Ended, Files, Stores, Corpus, Records, Versions
<1>5. ManualsInv'
  BY <1>1, SameManuals DEF world
<1>6. RecordsInv'
  <2>1. Taken' = Taken
    BY <1>1 DEF Taken, Parsing
  <2>. QED
    BY <1>1, <2>1, SameRecords DEF world
<1>7. HashInv'
  BY <1>1, InvNow DEF HashInv, world, NextManual, Versions
<1>8. TodoInv' /\ FilesInv'
  BY <1>1, InvNow DEF TodoInv, FilesInv, Written, Parsing, Late, Files, Before
<1>9. StoreInv'
  BY <1>1, InvNow DEF StoreInv, Late, Ended, Valid, Orphans, None, world
<1>10. WholeInv'
  BY <1>1, InvNow DEF WholeInv, OneIngestion, Indexed, Files
<1>. QED
  BY <1>2, <1>3, <1>4, <1>5, <1>6, <1>7, <1>8, <1>9, <1>10, InvNext

-----------------------------------------------------------------------------
(* The steps of a job *)

LEMMA StartKeeps ==
  ASSUME IngestInv, Start
  PROVE  IngestInv'
<1>. DEFINE found == {m \in Manuals : manuals[m] # 0}
            gone == {m \in Manuals \ found : manifest[m] # 0}
<1>1. /\ found # {} /\ api' = Down
      /\ UNCHANGED world /\ UNCHANGED <<figures, json, manifest, index, crashes>>
      /\ job' = [Idle("figures", store) EXCEPT !.files = found, !.todo = found, !.removed = gone]
  BY Zenon DEF Start
<1>2. store \in Stores
  BY InvNow DEF WorldTypes
<1>3. "figures" \in Places
  BY DEF Places
<1>4. /\ job' \in JobSet
      /\ job'.at = "figures" /\ job'.store = store /\ job'.files = found /\ job'.todo = found
      /\ job'.processed = {} /\ job'.units = Empty /\ job'.segs = Empty /\ job'.entries = Gone
  <2>. DEFINE idle == Idle("figures", store)
  <2>1. /\ idle \in JobSet /\ idle.at = "figures" /\ idle.store = store /\ idle.processed = {}
        /\ idle.units = Empty /\ idle.segs = Empty /\ idle.entries = Gone
    BY <1>2, <1>3, IdleJob DEF JobSet
  <2>2. found \in SUBSET Manuals /\ gone \in SUBSET Manuals
    OBVIOUS
  <2>3. job' = [idle EXCEPT !.files = found, !.todo = found, !.removed = gone]
    BY <1>1
  <2>. HIDE DEF idle, found, gone
  <2>. QED
    BY <2>1, <2>2, <2>3 DEF JobSet
<1>. HIDE DEF found, gone
<1>5. UNCHANGED <<manuals, newest, store, edits>> /\ UNCHANGED <<figures, json, manifest, index>>
  BY <1>1 DEF world
<1>6. WorldTypes' /\ DiskTypes'
  BY <1>1, Untouched
<1>7. ApiTypes'
  BY <1>1, InvNow DEF ApiTypes, Down
<1>8. JobTypes'
  BY <1>4 DEF JobTypes, JobSet, Places, Ended, Files, Stores, Corpus, Records, Versions
<1>9. ManualsInv'
  <2>1. UNCHANGED <<manuals, newest, manifest>> /\ json'.units = json.units /\ json'.segs = json.segs
    BY <1>5
  <2>. QED
    BY <2>1, SameManuals
<1>10. RecordsInv'
  <2>1. Taken' = {}
    BY <1>4 DEF Taken, Parsing
  <2>2. \A m \in Manuals : LeftInv(m)'
    BY <1>4 DEF LeftInv, Empty, Gone, None
  <2>. QED
    BY <2>1, <2>2 DEF RecordsInv
<1>11. HashInv'
  BY <1>4 DEF HashInv
<1>12. TodoInv'
  BY <1>1, <1>4 DEF TodoInv
<1>13. FilesInv'
  BY <1>4 DEF FilesInv, Written, Late, Files
<1>14. StoreInv'
  BY <1>4, <1>5 DEF StoreInv
<1>15. WholeInv'
  BY <1>4 DEF WholeInv
<1>. QED
  BY <1>6, <1>7, <1>8, <1>9, <1>10, <1>11, <1>12, <1>13, <1>14, <1>15, InvNext

LEMMA StartWithoutKeeps ==
  ASSUME IngestInv, StartWithout
  PROVE  IngestInv'
<1>1. /\ job' = Idle("vanished", store) /\ api' = Down
      /\ UNCHANGED world /\ UNCHANGED <<figures, json, manifest>>
      /\ UNCHANGED <<figures, json, manifest, index>> /\ crashes' = crashes
  BY DEF StartWithout
<1>2. store \in Stores
  BY InvNow DEF WorldTypes
<1>3. "vanished" \in Ended \ {"done"}
  BY DEF Ended
<1>4. DiskTypes'
  BY <1>1, Untouched
<1>5. ApiTypes'
  BY <1>1, InvNow DEF ApiTypes, Down
<1>. QED
  BY <1>1, <1>2, <1>3, <1>4, <1>5, Failing

\* A job that fails before it has written anything more.
LEMMA FailingNow ==
  ASSUME IngestInv, NEW end \in Ended \ {"done"}, End(end),
         UNCHANGED world, UNCHANGED <<figures, json, manifest, index>>, ApiTypes'
  PROVE  IngestInv'
<1>1. job.store \in Stores
  BY InvNow DEF JobTypes, JobSet
<1>2. job' = Idle(end, job.store)
  BY DEF End
<1>3. DiskTypes'
  BY Untouched
<1>4. UNCHANGED <<figures, json, manifest>>
  OBVIOUS
<1>. QED
  BY <1>1, <1>2, <1>3, <1>4, Failing

LEMMA VanishKeeps ==
  ASSUME IngestInv, Vanish
  PROVE  IngestInv'
<1>1. End("vanished") /\ UNCHANGED world /\ UNCHANGED <<figures, json, manifest, index>>
      /\ UNCHANGED <<api, crashes>>
  BY DEF Vanish
<1>2. "vanished" \in Ended \ {"done"}
  BY DEF Ended
<1>3. ApiTypes'
  BY <1>1, Untouched
<1>. QED
  BY <1>1, <1>2, <1>3, FailingNow

\* The job goes on without touching records, index or manifest.
LEMMA GoingOn ==
  ASSUME IngestInv, NEW place \in Places \ (Ended \cup {"backfill", "summary", "hash", "parse"}),
         Go(place), UNCHANGED world, UNCHANGED <<json, manifest, index>>, UNCHANGED <<api, crashes>>,
         DiskTypes', Taken' = Taken, job.at \notin Ended \cup {"backfill", "summary"},
         job.todo # {} \/ place \notin {"wipe", "open", "body", "bodyreps"},
         job.files # {}, Written' \subseteq Written,
         place \in Files \cup Late => job.segs = job.units,
         place = "manifest" => Valid(store),
         place = "publish" => store = "pgvector"
  PROVE  IngestInv'
<1>1. /\ JobTypes' /\ job'.at = place
      /\ job'.store = job.store /\ job'.files = job.files /\ job'.todo = job.todo
      /\ job'.hash = job.hash /\ job'.units = job.units /\ job'.segs = job.segs
      /\ job'.entries = job.entries /\ job'.processed = job.processed
      /\ NextManual' = NextManual
  BY Going
<1>2. UNCHANGED <<manuals, newest, store>>
  BY DEF world
<1>3. WorldTypes' /\ ApiTypes'
  BY Untouched
<1>4. ManualsInv'
  BY <1>2, SameManuals
<1>5. RecordsInv'
  BY <1>1, <1>2, SameRecords
<1>6. HashInv'
  BY <1>1 DEF HashInv
<1>7. TodoInv'
  BY <1>1, InvNow DEF TodoInv
<1>8. FilesInv'
  BY <1>1, InvNow DEF FilesInv
<1>9. StoreInv'
  <2>1. store = job.store
    BY InvNow DEF StoreInv
  <2>2. place = "manifest" => Valid(job.store)'
    BY <1>1, <2>1, <1>2 DEF Valid, Orphans, None
  <2>. QED
    BY <1>1, <1>2, <2>1, <2>2 DEF StoreInv
<1>10. WholeInv'
  BY <1>1 DEF WholeInv, Ended
<1>. QED
  BY <1>1, <1>3, <1>4, <1>5, <1>6, <1>7, <1>8, <1>9, <1>10, InvNext

LEMMA ExtractFiguresKeeps ==
  ASSUME IngestInv, ExtractFigures
  PROVE  IngestInv'
<1>1. /\ job.at = "figures" /\ Go("check")
      /\ figures' = [m \in Manuals |-> IF m \in job.files THEN manuals[m] ELSE 0]
      /\ UNCHANGED world /\ UNCHANGED <<json, manifest, index>> /\ UNCHANGED <<api, crashes>>
  BY DEF ExtractFigures
<1>2. "check" \in Places \ (Ended \cup {"backfill", "summary", "hash", "parse"})
  BY DEF Places, Ended
<1>3. DiskTypes'
  <2>1. figures' \in [Manuals -> 0 .. MaxVersion]
    BY <1>1, InvNow, IngestionAssumption DEF WorldTypes
  <2>2. manifest' \in [Manuals -> 0 .. MaxVersion] /\ json' \in [Files -> Corpus]
        /\ index' \in [Stores -> [made : BOOLEAN, body : Corpus, reps : Corpus]]
    BY <1>1, InvNow DEF DiskTypes
  <2>. QED
    BY <2>1, <2>2 DEF DiskTypes, Corpus, Records, Versions, Stores, Files
<1>4. job'.at = "check" /\ job'.files = job.files /\ job'.todo = job.todo
  BY <1>1, <1>2, Going
<1>5. Taken' = Taken
  BY <1>1, <1>4 DEF Taken, Parsing
<1>6. Written' = {} /\ job.files # {}
  BY <1>1, <1>4, InvNow DEF Written, Late, Files, TodoInv, Parsing
<1>7. job.at \notin Ended \cup {"backfill", "summary"} /\ "check" \notin Files \cup Late
  BY <1>1 DEF Ended, Files, Late
<1>. QED
  BY <1>1, <1>2, <1>3, <1>5, <1>6, <1>7, GoingOn

LEMMA CheckEvidenceKeeps ==
  ASSUME IngestInv, CheckEvidence
  PROVE  IngestInv'
<1>1. /\ job.at = "check" /\ job.todo = {}
      /\ UNCHANGED world /\ UNCHANGED <<figures, json, manifest, index>> /\ UNCHANGED <<api, crashes>>
      /\ End("invalid") \/ (~Orphans(job.units, job.segs) /\ Go("units"))
  BY DEF CheckEvidence
<1>2. CASE End("invalid")
  <2>1. "invalid" \in Ended \ {"done"}
    BY DEF Ended
  <2>2. ApiTypes'
    BY <1>1, Untouched
  <2>. QED
    BY <1>1, <1>2, <2>1, <2>2, FailingNow
<1>3. CASE ~Orphans(job.units, job.segs) /\ Go("units")
  <2>1. "units" \in Places \ (Ended \cup {"backfill", "summary", "hash", "parse"})
    BY DEF Places, Ended, Files
  <2>2. job'.at = "units" /\ job'.files = job.files /\ job'.todo = job.todo
    BY <1>3, <2>1, Going
  <2>3. Taken' = Taken
    BY <1>1, <2>2 DEF Taken, Parsing
  <2>4. Written' = {} /\ job.files # {}
    BY <1>1, <2>2, InvNow DEF Written, Late, Files, TodoInv, Parsing, Before
  <2>5. job.at \notin Ended \cup {"backfill", "summary"}
    BY <1>1 DEF Ended
  <2>6. DiskTypes' /\ UNCHANGED <<json, manifest, index>>
    BY <1>1, Untouched
  <2>7. job.segs = job.units
    <3>1. \A m \in Manuals : job.segs[m] = None \/ job.units[m] = job.segs[m]
      BY <1>3 DEF Orphans
    <3>2. \A m \in Manuals : job.segs[m] = job.units[m]
      BY <3>1, InvNow DEF RecordsInv, TakenInv, LeftInv
    <3>3. job.segs \in [Manuals -> Records] /\ job.units \in [Manuals -> Records]
      BY InvNow DEF JobTypes, JobSet, Corpus
    <3>. QED
      BY <3>2, <3>3
  <2>. QED
    BY <1>1, <1>3, <2>1, <2>3, <2>4, <2>5, <2>6, <2>7, GoingOn
<1>. QED
  BY <1>1, <1>2, <1>3

\* A record that is kept is exactly of the version its manual has now, unless an
\* earlier version was put back.
LEMMA Kept ==
  ASSUME IngestInv, NEW m \in Manuals, manuals[m] # 0, Reusable(m)
  PROVE  /\ manifest[m] \in Versions /\ json.units[m] # None /\ json.segs[m] # None
         /\ json.units[m] \in Records /\ json.segs[m] \in Records
         /\ Promised(m, json.units[m])
         /\ Forward => /\ json.units[m] = <<manifest[m], manifest[m]>>
                       /\ json.segs[m] = <<manifest[m], manifest[m]>>
<1>1. /\ newest[m] \in Versions /\ (Forward => manuals[m] \in {0, newest[m]})
      /\ Promised(m, json.units[m]) /\ Promised(m, json.segs[m])
  BY InvNow DEF ManualsInv, ManualInv
<1>2. manifest[m] = manuals[m] /\ json.units[m] # None /\ json.segs[m] # None
  BY DEF Reusable
<1>3. json.units[m] \in Records /\ json.segs[m] \in Records
  BY InvNow DEF DiskTypes, Corpus, Files
<1>4. manifest[m] \in Versions /\ (Forward => manifest[m] = newest[m])
  <2>1. manuals[m] \in 0 .. MaxVersion
    BY InvNow DEF WorldTypes
  <2>. QED
    BY <1>1, <1>2, <2>1 DEF Versions
<1>5. ASSUME NEW r \in Records, r # None, Promised(m, r), Forward
      PROVE  r = <<manifest[m], manifest[m]>>
  <2>1. r \in Versions \X Versions
    BY <1>5 DEF Records
  <2>2. manifest[m] <= r[1] /\ r[1] <= r[2] /\ r[2] <= manifest[m]
    BY <1>4, <1>5 DEF Promised
  <2>3. r[1] = manifest[m] /\ r[2] = manifest[m]
    BY <2>1, <2>2, <1>4 DEF Versions
  <2>. QED
    BY <2>1, <2>3
<1>. QED
  BY <1>1, <1>2, <1>3, <1>4, <1>5

\* The next manual is done, with records that are promised.
LEMMA OneMore ==
  ASSUME IngestInv, NEW r \in Records, NEW q \in Records, NEW e \in 0 .. MaxVersion,
         NEW done \in SUBSET Manuals, NEW n, n = NextManual, job.todo # {}, job.at \in Parsing,
         r # None, q # None, Promised(n, r), Forward => q = r /\ e = r[1],
         Forward /\ n \notin done => r = <<e, e>>,
         job'.at = "check", job'.files = job.files, job'.todo = job.todo \ {n},
         job'.processed = done, job.processed \subseteq done, done \subseteq job.processed \cup {n},
         job'.units = [job.units EXCEPT ![n] = r], job'.segs = [job.segs EXCEPT ![n] = q],
         job'.entries = [job.entries EXCEPT ![n] = e],
         JobTypes', job'.store = job.store,
         UNCHANGED world, UNCHANGED <<figures, json, manifest, index>>, UNCHANGED <<api, crashes>>
  PROVE  IngestInv'
<1>1. n \in job.todo /\ n \in Manuals /\ job.todo \subseteq job.files
  BY NextOne, InvNow DEF TodoInv
<1>2. UNCHANGED <<manuals, newest, store>>
  BY DEF world
<1>3. WorldTypes' /\ DiskTypes' /\ ApiTypes'
  BY Untouched
<1>4. ManualsInv'
  <2>1. UNCHANGED <<manuals, newest, manifest>> /\ json'.units = json.units /\ json'.segs = json.segs
    BY <1>2
  <2>. QED
    BY <2>1, SameManuals
<1>5. RecordsInv'
  <2>1. job.units \in [Manuals -> Records] /\ job.segs \in [Manuals -> Records]
        /\ job.entries \in [Manuals -> 0 .. MaxVersion]
    BY InvNow DEF JobTypes, JobSet, Corpus
  <2>2. Taken = job.files \ job.todo /\ Taken' = Taken \cup {n}
    BY <1>1 DEF Taken, Parsing
  <2>3. TakenInv(n)'
    <3>1. job'.segs[n] = q /\ job'.units[n] = r /\ job'.entries[n] = e
      BY <1>1, <2>1
    <3>2. Promised(n, job.units[n])'
      BY <3>1, <1>2 DEF Promised, None
    <3>. QED
      BY <3>1, <3>2 DEF TakenInv, None
  <2>4. \A m \in Manuals \ {n} :
           /\ job'.units[m] = job.units[m] /\ job'.segs[m] = job.segs[m] /\ job'.entries[m] = job.entries[m]
           /\ m \in job'.processed <=> m \in job.processed
    BY <2>1
  <2>5. \A m \in Manuals \ {n} : TakenInv(m) => TakenInv(m)'
    BY <2>4, <1>2 DEF TakenInv, Promised, None
  <2>6. \A m \in Manuals \ {n} : LeftInv(m) => LeftInv(m)'
    BY <2>4 DEF LeftInv, None
  <2>. QED
    BY <2>2, <2>3, <2>5, <2>6, InvNow DEF RecordsInv
<1>6. HashInv'
  BY DEF HashInv
<1>7. TodoInv'
  BY <1>1, InvNow DEF TodoInv
<1>8. FilesInv'
  BY DEF FilesInv, Written, Late, Files
<1>9. StoreInv'
  BY <1>2, InvNow DEF StoreInv, Parsing, Ended
<1>10. WholeInv'
  BY DEF WholeInv
<1>. QED
  BY <1>3, <1>4, <1>5, <1>6, <1>7, <1>8, <1>9, <1>10, InvNext

\* The next manual goes through hashing and parsing.
LEMMA NextStage ==
  ASSUME IngestInv, job.at \in Parsing, job.todo # {}, NEW place \in {"hash", "parse"}, job'.at = place,
         place = "parse" => job'.hash = manuals[NextManual] /\ manuals[NextManual] # 0,
         JobTypes', job'.store = job.store, job'.files = job.files, job'.todo = job.todo,
         job'.units = job.units, job'.segs = job.segs, job'.entries = job.entries,
         job'.processed = job.processed,
         UNCHANGED world, UNCHANGED <<figures, json, manifest, index>>, UNCHANGED <<api, crashes>>
  PROVE  IngestInv'
<1>1. UNCHANGED <<manuals, newest, store>>
  BY DEF world
<1>2. WorldTypes' /\ DiskTypes' /\ ApiTypes'
  BY Untouched
<1>3. ManualsInv'
  <2>1. UNCHANGED <<manuals, newest, manifest>> /\ json'.units = json.units /\ json'.segs = json.segs
    BY <1>1
  <2>. QED
    BY <2>1, SameManuals
<1>4. RecordsInv'
  <2>1. Taken' = Taken
    BY DEF Taken, Parsing
  <2>2. UNCHANGED <<newest, manifest>>
    BY <1>1
  <2>. QED
    BY <2>1, <2>2, SameRecords
<1>5. HashInv'
  <2>1. NextManual' = NextManual /\ NextManual \in Manuals
    BY NextOne DEF NextManual
  <2>2. /\ newest[NextManual] \in Versions
        /\ Forward => /\ manuals[NextManual] \in {0, newest[NextManual]}
                      /\ manifest[NextManual] <= newest[NextManual]
    BY <2>1, InvNow DEF ManualsInv, ManualInv
  <2>3. manuals[NextManual] \in 0 .. MaxVersion
    BY <2>1, InvNow DEF WorldTypes
  <2>. QED
    BY <2>1, <2>2, <2>3, <1>1 DEF HashInv, Versions
<1>6. TodoInv'
  BY InvNow DEF TodoInv, Parsing
<1>7. FilesInv'
  BY DEF FilesInv, Written, Late, Files
<1>8. StoreInv'
  BY <1>1, InvNow DEF StoreInv, Parsing, Ended
<1>9. WholeInv'
  BY DEF WholeInv
<1>. QED
  BY <1>2, <1>3, <1>4, <1>5, <1>6, <1>7, <1>8, <1>9, InvNext

LEMMA CheckKeeps ==
  ASSUME IngestInv, Check
  PROVE  IngestInv'
<1>. DEFINE n == NextManual
<1>1. /\ job.at = "check" /\ job.todo # {} /\ manuals[n] # 0
      /\ UNCHANGED world /\ UNCHANGED <<figures, json, manifest, index>> /\ UNCHANGED <<api, crashes>>
  BY DEF Check
<1>2. n \in job.todo /\ n \in Manuals /\ job.at \in Parsing
  BY <1>1, NextOne DEF Parsing
<1>3. job \in JobSet
  BY InvNow DEF JobTypes, JobSet
<1>4. CASE Reusable(n)
  <2>1. job' = [job EXCEPT !.todo = job.todo \ {n}, !.units[n] = json.units[n],
                           !.segs[n] = json.segs[n], !.entries[n] = manifest[n]]
    BY <1>4 DEF Check
  <2>2. PICK k : k = n
    OBVIOUS
  <2>3. PICK d : d = manifest[n]
    OBVIOUS
  <2>4. PICK r : r = json.units[n]
    OBVIOUS
  <2>5. PICK q : q = json.segs[n]
    OBVIOUS
  <2>6. /\ d \in Versions /\ r \in Records /\ q \in Records /\ r # None /\ q # None
        /\ Forward => r = <<d, d>> /\ q = <<d, d>>
    BY <1>1, <1>2, <1>4, <2>3, <2>4, <2>5, Kept
  <2>7. d \in 0 .. MaxVersion /\ (Forward => q = r /\ d = r[1])
    BY <2>6, IngestionAssumption DEF Versions
  <2>8. Promised(k, r)
    BY <1>1, <1>2, <1>4, <2>2, <2>4, Kept
  <2>9. job' = [job EXCEPT !.todo = job.todo \ {k}, !.units[k] = r, !.segs[k] = q, !.entries[k] = d]
    BY <2>1, <2>2, <2>3, <2>4, <2>5
  <2>10. k \in Manuals /\ k = NextManual
    BY <1>2, <2>2
  <2>. HIDE DEF n
  <2>11. PICK w : w = job.processed
    OBVIOUS
  <2>12. /\ job' \in JobSet /\ job'.at = "check" /\ job'.files = job.files /\ job'.store = job.store
         /\ job'.todo = job.todo \ {k} /\ job'.processed = w
         /\ job'.units = [job.units EXCEPT ![k] = r] /\ job'.segs = [job.segs EXCEPT ![k] = q]
         /\ job'.entries = [job.entries EXCEPT ![k] = d]
    BY <1>1, <1>3, <2>6, <2>7, <2>9, <2>10, <2>11 DEF JobSet, Corpus
  <2>13. JobTypes'
    BY <2>12 DEF JobTypes, JobSet, Places, Ended, Files, Stores, Corpus, Records, Versions
  <2>14. w \in SUBSET Manuals /\ job.processed \subseteq w /\ w \subseteq job.processed \cup {k}
    BY <1>3, <2>11 DEF JobSet
  <2>15. Forward /\ k \notin w => r = <<d, d>>
    BY <2>6
  <2>. QED
    BY <1>1, <1>2, <2>6, <2>7, <2>8, <2>10, <2>12, <2>13, <2>14, <2>15, OneMore
<1>5. CASE ~Reusable(n)
  <2>1. Go("hash")
    BY <1>5 DEF Check
  <2>2. "hash" \in Places
    BY DEF Places
  <2>. QED
    BY <1>1, <1>2, <2>1, <2>2, Going, NextStage
<1>. QED
  BY <1>4, <1>5

LEMMA HashKeeps ==
  ASSUME IngestInv, Hash
  PROVE  IngestInv'
<1>1. /\ job.at = "hash" /\ manuals[NextManual] # 0
      /\ job' = [job EXCEPT !.at = "parse", !.hash = manuals[NextManual]]
      /\ UNCHANGED world /\ UNCHANGED <<figures, json, manifest, index>> /\ UNCHANGED <<api, crashes>>
  BY DEF Hash
<1>2. job.at \in Parsing /\ job.todo # {}
  BY <1>1, InvNow DEF Parsing, TodoInv
<1>3. job \in JobSet
  BY InvNow DEF JobTypes, JobSet
<1>4. manuals[NextManual] \in 0 .. MaxVersion
  BY <1>2, NextOne, InvNow DEF WorldTypes
<1>5. "parse" \in Places
  BY DEF Places
<1>6. /\ job' \in JobSet /\ job'.at = "parse" /\ job'.hash = manuals[NextManual]
      /\ job'.store = job.store /\ job'.files = job.files /\ job'.todo = job.todo
      /\ job'.units = job.units /\ job'.segs = job.segs /\ job'.entries = job.entries
      /\ job'.processed = job.processed
  BY <1>1, <1>3, <1>4, <1>5 DEF JobSet
<1>7. JobTypes'
  BY <1>6 DEF JobTypes, JobSet, Places, Ended, Files, Stores, Corpus, Records, Versions
<1>. QED
  BY <1>1, <1>2, <1>6, <1>7, NextStage

LEMMA ParseKeeps ==
  ASSUME IngestInv, Parse
  PROVE  IngestInv'
<1>1. PICK n : n = NextManual
  OBVIOUS
<1>2. PICK e : e = job.hash
  OBVIOUS
<1>3. PICK r : r = <<e, manuals[n]>>
  OBVIOUS
<1>4. PICK done : done = job.processed \cup {n}
  OBVIOUS
<1>5. /\ job.at = "parse" /\ manuals[n] # 0
      /\ UNCHANGED world /\ UNCHANGED <<figures, json, manifest, index>> /\ UNCHANGED <<api, crashes>>
      /\ job' = [job EXCEPT !.at = "check", !.todo = job.todo \ {n}, !.hash = 0,
                            !.units[n] = r, !.segs[n] = r, !.entries[n] = e, !.processed = done]
  BY <1>1, <1>2, <1>3, <1>4 DEF Parse, RecordsOf
<1>6. job.at \in Parsing /\ job.todo # {}
  BY <1>5, InvNow DEF Parsing, TodoInv
<1>7. n \in job.todo /\ n \in Manuals
  BY <1>1, <1>6, NextOne
<1>8. job \in JobSet
  BY InvNow DEF JobTypes, JobSet
<1>9. manuals[n] \in Versions /\ (Forward => manuals[n] = newest[n])
  <2>1. manuals[n] \in 0 .. MaxVersion /\ (Forward => manuals[n] \in {0, newest[n]})
    BY <1>7, InvNow DEF WorldTypes, ManualsInv, ManualInv
  <2>. QED
    BY <1>5, <2>1 DEF Versions
<1>10. e \in Versions /\ (Forward => manifest[n] <= e /\ e <= newest[n])
  BY <1>1, <1>2, <1>5, InvNow DEF HashInv
<1>11. /\ r \in Records /\ r # None /\ r[1] = e /\ e \in 0 .. MaxVersion
       /\ Forward => r[2] = newest[n]
  BY <1>3, <1>9, <1>10, IngestionAssumption DEF Records, None, Versions
<1>12. Promised(n, r)
  BY <1>9, <1>10, <1>11 DEF Promised, Versions
<1>13. done \in SUBSET Manuals /\ n \in done /\ job.processed \subseteq done
       /\ done \subseteq job.processed \cup {n}
  BY <1>4, <1>7, <1>8 DEF JobSet
<1>14. "check" \in Places /\ 0 \in 0 .. MaxVersion
  BY IngestionAssumption DEF Places
<1>15. /\ job' \in JobSet /\ job'.at = "check" /\ job'.files = job.files /\ job'.store = job.store
       /\ job'.todo = job.todo \ {n} /\ job'.processed = done
       /\ job'.units = [job.units EXCEPT ![n] = r] /\ job'.segs = [job.segs EXCEPT ![n] = r]
       /\ job'.entries = [job.entries EXCEPT ![n] = e]
  BY <1>5, <1>8, <1>11, <1>13, <1>14 DEF JobSet, Corpus
<1>16. JobTypes'
  BY <1>15 DEF JobTypes, JobSet, Places, Ended, Files, Stores, Corpus, Records, Versions
<1>17. (Forward => r = r /\ e = r[1]) /\ (Forward /\ n \notin done => r = <<e, e>>)
  BY <1>11, <1>13
<1>. QED
  BY <1>1, <1>5, <1>6, <1>11, <1>12, <1>13, <1>15, <1>16, <1>17, OneMore

LEMMA WriteRecordsKeeps ==
  ASSUME IngestInv, WriteRecords
  PROVE  IngestInv'
<1>1. PICK f : f = job.at
  OBVIOUS
<1>2. /\ f \in Files /\ job.at = f /\ json' = [json EXCEPT ![f] = Content(f)] /\ Go(AfterIt[f])
      /\ UNCHANGED world /\ UNCHANGED <<figures, manifest, index>> /\ UNCHANGED <<api, crashes>>
  BY <1>1 DEF WriteRecords
<1>3. PICK next : next = AfterIt[f]
  OBVIOUS
<1>4. /\ next \in (Files \cup {"decide"}) \ {"units"}
      /\ (IF next = "decide" THEN Files ELSE Before[next]) \subseteq Before[f] \cup {f}
      /\ next \in Places /\ next \notin Ended \cup Parsing
  BY <1>2, <1>3 DEF AfterIt, Files, Before, Places, Ended, Parsing
<1>5. /\ JobTypes' /\ job'.at = next
      /\ job'.store = job.store /\ job'.files = job.files /\ job'.todo = job.todo
      /\ job'.hash = job.hash /\ job'.units = job.units /\ job'.segs = job.segs
      /\ job'.entries = job.entries /\ job'.processed = job.processed
  BY <1>2, <1>3, <1>4, Going
<1>6. f \notin Parsing \cup Ended \cup Late \cup {"backfill", "summary"}
  BY <1>2 DEF Files, Parsing, Ended, Late
<1>7. Content(f) = job.units
  <2>1. job.segs = job.units
    BY <1>2, InvNow DEF FilesInv
  <2>. QED
    BY <2>1 DEF Content
<1>8. json \in [Files -> Corpus] /\ job.units \in Corpus
  BY InvNow DEF DiskTypes, JobTypes, JobSet
<1>9. json' \in [Files -> Corpus] /\ json'[f] = job.units /\ \A g \in Files \ {f} : json'[g] = json[g]
  BY <1>2, <1>7, <1>8
<1>10. UNCHANGED <<manuals, newest, store>>
  BY <1>2 DEF world
<1>11. WorldTypes' /\ ApiTypes'
  BY <1>2, Untouched
<1>12. DiskTypes'
  <2>1. figures' \in [Manuals -> 0 .. MaxVersion] /\ manifest' \in [Manuals -> 0 .. MaxVersion]
        /\ index' \in [Stores -> [made : BOOLEAN, body : Corpus, reps : Corpus]]
    BY <1>2, InvNow DEF DiskTypes
  <2>. QED
    BY <1>9, <2>1 DEF DiskTypes, Corpus, Records, Versions, Stores, Files
<1>13. ManualsInv'
  <2>1. \A m \in Manuals : Promised(m, job.units[m])
    BY InvNow DEF RecordsInv, TakenInv, LeftInv, Promised
  <2>2. \A m \in Manuals : ManualInv(m)
    BY InvNow DEF ManualsInv
  <2>3. json'["units"] \in {json["units"], job.units} /\ json'["segs"] \in {json["segs"], job.units}
    BY <1>9 DEF Files
  <2>4. ASSUME NEW m \in Manuals PROVE ManualInv(m)'
    <3>1. json'.units[m] \in {json.units[m], job.units[m]} /\ json'.segs[m] \in {json.segs[m], job.units[m]}
      BY <2>3
    <3>2. Promised(m, json.units[m])' /\ Promised(m, json.segs[m])'
      BY <1>2, <1>10, <2>1, <2>2, <3>1 DEF ManualInv, Promised, None
    <3>. QED
      BY <1>2, <1>10, <2>2, <3>2 DEF ManualInv, Versions
  <2>. QED
    BY <2>4 DEF ManualsInv
<1>14. RecordsInv'
  <2>1. Taken' = Taken
    BY <1>2, <1>4, <1>5, <1>6 DEF Taken
  <2>2. UNCHANGED <<newest, manifest>>
    BY <1>2, <1>10
  <2>. QED
    BY <1>5, <2>1, <2>2, SameRecords
<1>15. HashInv'
  BY <1>4, <1>5 DEF HashInv, Parsing
<1>16. TodoInv'
  <2>1. job.files # {} /\ job.todo \subseteq job.files
    BY <1>2, InvNow DEF TodoInv
  <2>2. next \notin {"hash", "parse", "wipe", "open", "body", "bodyreps"}
    BY <1>4 DEF Files
  <2>. QED
    BY <1>5, <2>1, <2>2 DEF TodoInv
<1>17. FilesInv'
  <2>1. Written = Before[f]
    BY <1>2, <1>6 DEF Written
  <2>2. Written' \subseteq Before[f] \cup {f} /\ Written' \subseteq Files
    <3>1. CASE next = "decide"
      BY <3>1, <1>4, <1>5 DEF Written, Late
    <3>2. CASE next # "decide"
      <4>1. next \in Files /\ next \notin Late
        BY <3>2, <1>4 DEF Files, Late
      <4>2. Before[next] \subseteq Files
        BY <4>1 DEF Files, Before
      <4>. QED
        BY <3>2, <4>1, <4>2, <1>4, <1>5 DEF Written
    <3>. QED
      BY <3>1, <3>2
  <2>3. \A g \in Before[f] : json[g] = job.units
    BY <2>1, InvNow DEF FilesInv
  <2>4. job'.segs = job'.units
    BY <1>2, <1>5, InvNow DEF FilesInv
  <2>. QED
    BY <1>5, <1>9, <2>2, <2>3, <2>4 DEF FilesInv
<1>18. StoreInv'
  <2>1. store = job.store
    BY <1>2, <1>6, InvNow DEF StoreInv
  <2>2. next \notin {"manifest", "publish", "backfill", "summary"}
    BY <1>4 DEF Files
  <2>. QED
    BY <1>5, <1>10, <2>1, <2>2 DEF StoreInv
<1>19. WholeInv'
  <2>1. next \notin {"done", "backfill", "summary"}
    BY <1>4 DEF Files
  <2>. QED
    BY <1>5, <2>1 DEF WholeInv
<1>. QED
  BY <1>5, <1>11, <1>12, <1>13, <1>14, <1>15, <1>16, <1>17, <1>18, <1>19, InvNext

LEMMA DecideKeeps ==
  ASSUME IngestInv, Decide
  PROVE  IngestInv'
<1>1. /\ job.at = "decide"
      /\ UNCHANGED world /\ UNCHANGED <<figures, json, manifest, index>> /\ UNCHANGED <<api, crashes>>
  BY DEF Decide
<1>2. /\ job.at \notin Ended \cup {"backfill", "summary"} /\ job.at \in Late /\ job.at \notin Parsing
      /\ job.files # {} /\ job.todo \subseteq job.files /\ Written = Files /\ Taken = job.files
      /\ store = job.store /\ store \in Stores
  BY <1>1, InvNow DEF Ended, Late, Parsing, TodoInv, Written, Taken, StoreInv, WorldTypes
<1>3. DiskTypes' /\ ApiTypes'
  BY <1>1, Untouched
<1>4. CASE MustRebuild
  <2>1. PICK place : place = IF store = "pgvector" THEN "publish" ELSE "wipe"
    OBVIOUS
  <2>2. job' = [job EXCEPT !.todo = job.files, !.at = place]
    BY <1>4, <2>1 DEF Decide
  <2>3. job \in JobSet
    BY InvNow DEF JobTypes, JobSet
  <2>4. /\ place \in Places /\ place \in Late \ {"manifest"} /\ place \notin Parsing \cup Ended
        /\ place = "publish" => store = "pgvector"
    BY <2>1 DEF Places, Late, Parsing, Ended
  <2>5. /\ job' \in JobSet /\ job'.at = place /\ job'.files = job.files /\ job'.todo = job.files
        /\ job'.store = job.store /\ job'.units = job.units /\ job'.segs = job.segs
        /\ job'.entries = job.entries /\ job'.processed = job.processed
    BY <2>2, <2>3, <2>4 DEF JobSet
  <2>6. UNCHANGED <<manuals, newest, store>>
    BY <1>1 DEF world
  <2>7. JobTypes'
    BY <2>5 DEF JobTypes, JobSet, Places, Ended, Files, Stores, Corpus, Records, Versions
  <2>8. WorldTypes'
    BY <1>1, Untouched
  <2>9. ManualsInv'
    <3>1. UNCHANGED <<manuals, newest, manifest>> /\ json'.units = json.units /\ json'.segs = json.segs
      BY <1>1, <2>6
    <3>. QED
      BY <3>1, SameManuals
  <2>10. RecordsInv'
    <3>1. Taken' = Taken
      BY <1>2, <2>4, <2>5 DEF Taken
    <3>2. UNCHANGED <<newest, manifest>>
      BY <1>1, <2>6
    <3>. QED
      BY <2>5, <3>1, <3>2, SameRecords
  <2>11. HashInv'
    BY <2>4, <2>5 DEF HashInv, Parsing
  <2>12. TodoInv'
    BY <1>2, <2>5 DEF TodoInv
  <2>13. FilesInv'
    <3>1. job.segs = job.units /\ \A f \in Files : json[f] = job.units
      BY <1>2, InvNow DEF FilesInv
    <3>2. Written' = Files
      BY <2>4, <2>5 DEF Written
    <3>. QED
      BY <1>1, <2>5, <3>1, <3>2 DEF FilesInv
  <2>14. StoreInv'
    BY <1>2, <2>4, <2>5, <2>6 DEF StoreInv, Late
  <2>15. WholeInv'
    BY <2>4, <2>5 DEF WholeInv, Late
  <2>. QED
    BY <1>3, <2>7, <2>8, <2>9, <2>10, <2>11, <2>12, <2>13, <2>14, <2>15, InvNext
<1>5. CASE ~MustRebuild /\ Valid(store)
  <2>1. Go("manifest")
    BY <1>5 DEF Decide
  <2>2. "manifest" \in Places \ (Ended \cup {"backfill", "summary", "hash", "parse"})
        /\ "manifest" \in Late \ Parsing
    BY DEF Places, Ended, Late, Parsing
  <2>3. job'.at = "manifest" /\ job'.files = job.files
    BY <2>1, <2>2, Going
  <2>4. Taken' = Taken /\ Written' = Written /\ job.segs = job.units
    BY <1>2, <2>2, <2>3, InvNow DEF Taken, Written, FilesInv
  <2>5. UNCHANGED <<json, manifest, index>>
    BY <1>1
  <2>. QED
    BY <1>1, <1>2, <1>3, <1>5, <2>1, <2>2, <2>4, <2>5, GoingOn
<1>6. CASE ~MustRebuild /\ ~Valid(store)
  <2>1. End("invalid")
    BY <1>6 DEF Decide
  <2>2. "invalid" \in Ended \ {"done"}
    BY DEF Ended
  <2>. QED
    BY <1>1, <1>3, <2>1, <2>2, FailingNow
<1>. QED
  BY <1>4, <1>5, <1>6

\* The index is built: only it and what is left to do change.
LEMMA Building1 ==
  ASSUME IngestInv, NEW place \in {"open", "body", "bodyreps", "validate", "manifest"},
         job.at \in {"wipe", "open", "body", "bodyreps", "validate", "publish"},
         JobTypes', job'.at = place, job'.todo \subseteq job.files,
         place \in {"open", "body", "bodyreps"} => job'.todo # {},
         job'.store = job.store, job'.files = job.files, job'.units = job.units,
         job'.segs = job.segs, job'.entries = job.entries, job'.processed = job.processed,
         UNCHANGED world, UNCHANGED <<figures, json, manifest>>, UNCHANGED <<api, crashes>>,
         index' \in [Stores -> [made : BOOLEAN, body : Corpus, reps : Corpus]],
         place = "manifest" => Valid(store)'
  PROVE  IngestInv'
<1>1. /\ job.at \notin Ended \cup {"backfill", "summary"} /\ job.at \in Late /\ job.at \notin Parsing
      /\ place \in Late \ {"publish"} /\ place \notin Parsing \cup Ended \cup {"backfill", "summary"}
  BY DEF Ended, Late, Parsing
<1>2. job.files # {} /\ Written = Files /\ Taken = job.files /\ store = job.store
  BY <1>1, InvNow DEF TodoInv, Written, Taken, StoreInv
<1>3. UNCHANGED <<manuals, newest, store>>
  BY DEF world
<1>4. WorldTypes' /\ ApiTypes'
  BY Untouched
<1>5. DiskTypes'
  <2>1. figures' \in [Manuals -> 0 .. MaxVersion] /\ manifest' \in [Manuals -> 0 .. MaxVersion]
        /\ json' \in [Files -> Corpus]
    BY InvNow DEF DiskTypes
  <2>. QED
    BY <2>1 DEF DiskTypes, Corpus, Records, Versions, Stores, Files
<1>6. ManualsInv'
  <2>1. UNCHANGED <<manuals, newest, manifest>> /\ json'.units = json.units /\ json'.segs = json.segs
    BY <1>3
  <2>. QED
    BY <2>1, SameManuals
<1>7. RecordsInv'
  <2>1. Taken' = Taken
    BY <1>1, <1>2 DEF Taken
  <2>2. UNCHANGED <<newest, manifest>>
    BY <1>3
  <2>. QED
    BY <2>1, <2>2, SameRecords
<1>8. HashInv'
  BY DEF HashInv
<1>9. TodoInv'
  BY <1>2 DEF TodoInv
<1>10. FilesInv'
  <2>1. job.segs = job.units /\ \A f \in Files : json[f] = job.units
    BY <1>1, <1>2, InvNow DEF FilesInv
  <2>2. Written' = Files
    BY <1>1 DEF Written
  <2>. QED
    BY <2>1, <2>2 DEF FilesInv
<1>11. StoreInv'
  <2>1. place = "manifest" => Valid(job.store)'
    BY <1>2, <1>3 DEF Valid, Orphans, None
  <2>. QED
    BY <1>1, <1>2, <1>3, <2>1 DEF StoreInv, Valid, Orphans, None
<1>12. WholeInv'
  BY DEF WholeInv
<1>. QED
  BY <1>4, <1>5, <1>6, <1>7, <1>8, <1>9, <1>10, <1>11, <1>12, InvNext

LEMMA WipeKeeps ==
  ASSUME IngestInv, Wipe
  PROVE  IngestInv'
<1>1. /\ job.at = "wipe" /\ Go("open")
      /\ UNCHANGED world /\ UNCHANGED <<figures, json, manifest>> /\ UNCHANGED <<api, crashes>>
      /\ index' = [index EXCEPT ![store] =
                     IF store = "local" THEN [made |-> FALSE, body |-> Empty, reps |-> Empty]
                                        ELSE [index[store] EXCEPT !.body = Empty]]
  BY DEF Wipe
<1>2. "open" \in Places
  BY DEF Places
<1>3. index' \in [Stores -> [made : BOOLEAN, body : Corpus, reps : Corpus]]
  BY <1>1, NoRecords, InvNow DEF DiskTypes
<1>4. job.todo # {} /\ job.todo \subseteq job.files
  BY <1>1, InvNow DEF TodoInv
<1>. QED
  BY <1>1, <1>2, <1>3, <1>4, Going, Building1

LEMMA OpenKeeps ==
  ASSUME IngestInv, Open
  PROVE  IngestInv'
<1>1. /\ job.at = "open" /\ Go("body")
      /\ UNCHANGED world /\ UNCHANGED <<figures, json, manifest>> /\ UNCHANGED <<api, crashes>>
      /\ index' = [index EXCEPT ![store] = [made |-> TRUE, body |-> index[store].body, reps |-> Empty]]
  BY DEF Open
<1>2. "body" \in Places
  BY DEF Places
<1>3. index' \in [Stores -> [made : BOOLEAN, body : Corpus, reps : Corpus]]
  BY <1>1, NoRecords, InvNow DEF DiskTypes, WorldTypes
<1>4. job.todo # {} /\ job.todo \subseteq job.files
  BY <1>1, InvNow DEF TodoInv
<1>. QED
  BY <1>1, <1>2, <1>3, <1>4, Going, Building1

LEMMA AddBodyKeeps ==
  ASSUME IngestInv, AddBody
  PROVE  IngestInv'
<1>1. PICK n : n = NextManual
  OBVIOUS
<1>2. /\ job.at = "body"
      /\ UNCHANGED world /\ UNCHANGED <<figures, json, manifest>> /\ UNCHANGED <<api, crashes>>
      /\ index' = [index EXCEPT ![store].body[n] = job.segs[n]]
      /\ job' = IF job.todo = {n} THEN [job EXCEPT !.at = "bodyreps", !.todo = job.files]
                                  ELSE [job EXCEPT !.todo = job.todo \ {n}]
  BY <1>1 DEF AddBody
<1>3. job.todo # {} /\ job.todo \subseteq job.files /\ job.files # {} /\ n \in job.todo /\ n \in Manuals
  BY <1>1, <1>2, InvNow, NextOne DEF TodoInv, Late
<1>4. job \in JobSet
  BY InvNow DEF JobTypes, JobSet
<1>5. PICK r : r = job.segs[n]
  OBVIOUS
<1>6. index' \in [Stores -> [made : BOOLEAN, body : Corpus, reps : Corpus]]
  <2>1. r \in Records
    BY <1>3, <1>4, <1>5 DEF JobSet, Corpus
  <2>2. index \in [Stores -> [made : BOOLEAN, body : [Manuals -> Records], reps : [Manuals -> Records]]]
    BY InvNow DEF DiskTypes, Corpus
  <2>3. index' = [index EXCEPT ![store] = [index[store] EXCEPT !.body = [index[store].body EXCEPT ![n] = r]]]
    BY <1>2, <1>5, <2>2
  <2>. QED
    BY <2>1, <2>2, <2>3 DEF Corpus
<1>7. "bodyreps" \in Places
  BY DEF Places
<1>8. PICK place : place = IF job.todo = {n} THEN "bodyreps" ELSE "body"
  OBVIOUS
<1>9. /\ job' \in JobSet /\ job'.at = place /\ job'.todo \subseteq job.files /\ job'.todo # {}
      /\ job'.store = job.store /\ job'.files = job.files /\ job'.units = job.units
      /\ job'.segs = job.segs /\ job'.entries = job.entries /\ job'.processed = job.processed
  <2>1. CASE job.todo = {n}
    BY <2>1, <1>2, <1>3, <1>4, <1>7, <1>8 DEF JobSet
  <2>2. CASE job.todo # {n}
    <3>1. job' = [job EXCEPT !.todo = job.todo \ {n}]
      BY <2>2, <1>2
    <3>2. job.todo \ {n} # {} /\ job.todo \ {n} \subseteq job.files
      BY <2>2, <1>3
    <3>. QED
      BY <3>1, <3>2, <2>2, <1>2, <1>4, <1>8 DEF JobSet
  <2>. QED
    BY <2>1, <2>2
<1>10. JobTypes'
  BY <1>9 DEF JobTypes, JobSet, Places, Ended, Files, Stores, Corpus, Records, Versions
<1>11. place \in {"body", "bodyreps"}
  BY <1>8
<1>. QED
  BY <1>2, <1>6, <1>9, <1>10, <1>11, Building1

LEMMA AddRepsKeeps ==
  ASSUME IngestInv, AddReps
  PROVE  IngestInv'
<1>1. PICK n : n = NextManual
  OBVIOUS
<1>2. PICK place : place = IF job.todo = {n} THEN "validate" ELSE "bodyreps"
  OBVIOUS
<1>3. /\ job.at = "bodyreps"
      /\ UNCHANGED world /\ UNCHANGED <<figures, json, manifest>> /\ UNCHANGED <<api, crashes>>
      /\ index' = [index EXCEPT ![store].reps[n] = json.reps[n]]
      /\ job' = [job EXCEPT !.at = place, !.todo = job.todo \ {n}]
  BY <1>1, <1>2 DEF AddReps
<1>4. job.todo # {} /\ job.todo \subseteq job.files /\ job.files # {} /\ n \in job.todo /\ n \in Manuals
  BY <1>1, <1>3, InvNow, NextOne DEF TodoInv, Late
<1>5. job \in JobSet
  BY InvNow DEF JobTypes, JobSet
<1>6. PICK r : r = json.reps[n]
  OBVIOUS
<1>7. index' \in [Stores -> [made : BOOLEAN, body : Corpus, reps : Corpus]]
  <2>1. r \in Records
    BY <1>4, <1>6, InvNow DEF DiskTypes, Corpus, Files
  <2>2. index \in [Stores -> [made : BOOLEAN, body : [Manuals -> Records], reps : [Manuals -> Records]]]
    BY InvNow DEF DiskTypes, Corpus
  <2>3. index' = [index EXCEPT ![store] = [index[store] EXCEPT !.reps = [index[store].reps EXCEPT ![n] = r]]]
    BY <1>3, <1>6, <2>2
  <2>. QED
    BY <2>1, <2>2, <2>3 DEF Corpus
<1>8. place \in {"validate", "bodyreps"} /\ place \in Places
  BY <1>2 DEF Places
<1>9. /\ job' \in JobSet /\ job'.at = place /\ job'.todo = job.todo \ {n}
      /\ job'.store = job.store /\ job'.files = job.files /\ job'.units = job.units
      /\ job'.segs = job.segs /\ job'.entries = job.entries /\ job'.processed = job.processed
  BY <1>3, <1>5, <1>8 DEF JobSet
<1>10. job'.todo \subseteq job.files /\ (place = "bodyreps" => job'.todo # {})
  <2>1. job.todo # {n} => job.todo \ {n} # {}
    BY <1>4
  <2>. QED
    BY <2>1, <1>2, <1>4, <1>9
<1>11. JobTypes'
  BY <1>9 DEF JobTypes, JobSet, Places, Ended, Files, Stores, Corpus, Records, Versions
<1>. QED
  BY <1>3, <1>7, <1>8, <1>9, <1>10, <1>11, Building1

LEMMA ValidateKeeps ==
  ASSUME IngestInv, Validate
  PROVE  IngestInv'
<1>1. /\ job.at = "validate"
      /\ UNCHANGED world /\ UNCHANGED <<figures, json, manifest, index>> /\ UNCHANGED <<api, crashes>>
  BY DEF Validate
<1>2. CASE Valid(store)
  <2>1. Go("manifest")
    BY <1>2 DEF Validate
  <2>2. "manifest" \in Places
    BY DEF Places
  <2>3. Valid(store)'
    BY <1>1, <1>2 DEF Valid, Orphans, None, world
  <2>4. index' \in [Stores -> [made : BOOLEAN, body : Corpus, reps : Corpus]]
    BY <1>1, InvNow DEF DiskTypes
  <2>5. job.todo \subseteq job.files
    BY InvNow DEF TodoInv
  <2>. QED
    BY <1>1, <2>1, <2>2, <2>3, <2>4, <2>5, Going, Building1
<1>3. CASE ~Valid(store)
  <2>1. End("invalid")
    BY <1>3 DEF Validate
  <2>2. "invalid" \in Ended \ {"done"}
    BY DEF Ended
  <2>3. ApiTypes'
    BY <1>1, Untouched
  <2>. QED
    BY <1>1, <2>1, <2>2, <2>3, FailingNow
<1>. QED
  BY <1>2, <1>3

\* The place of a job that rests or builds changes, and the manifest at most.
LEMMA Finishing ==
  ASSUME IngestInv, NEW place \in {"summary", "manifest"}, Go(place),
         job.at \in {"publish", "backfill", "manifest"},
         job.at = "publish" => place = "manifest", job.at # "publish" => place = "summary",
         UNCHANGED world, UNCHANGED json, DiskTypes', ApiTypes', ManualsInv', RecordsInv', WholeInv',
         job.store = "pgvector", place = "manifest" => Valid("pgvector")'
  PROVE  IngestInv'
<1>1. place \in Places
  BY DEF Places
<1>2. /\ JobTypes' /\ job'.at = place
      /\ job'.store = job.store /\ job'.files = job.files /\ job'.todo = job.todo
      /\ job'.units = job.units
  BY <1>1, Going
<1>3. WorldTypes'
  BY Untouched
<1>4. HashInv'
  BY <1>2 DEF HashInv
<1>5. TodoInv'
  BY <1>2, InvNow DEF TodoInv, Parsing, Late, Files
<1>6. FilesInv'
  <2>1. CASE place = "summary"
    BY <2>1, <1>2 DEF FilesInv, Written, Late, Files
  <2>2. CASE place = "manifest"
    <3>1. Written = Files /\ Written' = Files /\ job.at \in Late
      BY <2>2, <1>2 DEF Written, Late
    <3>2. job.segs = job.units /\ job'.segs = job.segs
      BY <3>1, <1>1, InvNow, Going DEF FilesInv
    <3>. QED
      BY <3>1, <3>2, <1>2, InvNow DEF FilesInv
  <2>. QED
    BY <2>1, <2>2
<1>7. StoreInv'
  <2>1. store' = store
    BY DEF world
  <2>2. job.at = "publish" => store = job.store
    BY InvNow DEF StoreInv, Ended
  <2>3. place = "manifest" => Valid(job.store)'
    BY <1>2 DEF Valid, Orphans, None
  <2>4. place = "manifest" => store = job.store
    BY <2>2
  <2>. QED
    BY <1>2, <2>1, <2>3, <2>4 DEF StoreInv, Valid, Orphans, None
<1>. QED
  BY <1>2, <1>3, <1>4, <1>5, <1>6, <1>7, InvNext

LEMMA PublishedType ==
  ASSUME IngestInv
  PROVE  Published \in [Stores -> [made : BOOLEAN, body : Corpus, reps : Corpus]]
         /\ Published["pgvector"].body = json.segs /\ Published["pgvector"].reps = json.reps
<1>1. index \in [Stores -> [made : BOOLEAN, body : Corpus, reps : Corpus]]
      /\ json.segs \in Corpus /\ json.reps \in Corpus /\ "pgvector" \in Stores
  BY InvNow DEF DiskTypes, Files, Stores
<1>. QED
  BY <1>1 DEF Published

LEMMA PublishKeeps ==
  ASSUME IngestInv, Publish
  PROVE  IngestInv'
<1>1. PICK place : place = IF job.at = "publish" THEN "manifest" ELSE "summary"
  OBVIOUS
<1>2. /\ job.at \in {"publish", "backfill"} /\ index' = Published /\ Go(place)
      /\ UNCHANGED world /\ UNCHANGED <<figures, json, manifest>> /\ UNCHANGED <<api, crashes>>
  BY <1>1 DEF Publish
<1>3. place \in {"summary", "manifest"} /\ place \in Places
  BY <1>1 DEF Places
<1>4. /\ job'.at = place /\ job'.files = job.files /\ job'.todo = job.todo
      /\ job'.units = job.units /\ job'.segs = job.segs /\ job'.entries = job.entries
      /\ job'.processed = job.processed
  BY <1>2, <1>3, Going
<1>5. UNCHANGED <<manuals, newest, store>>
  BY <1>2 DEF world
<1>6. DiskTypes'
  <2>1. index' \in [Stores -> [made : BOOLEAN, body : Corpus, reps : Corpus]]
    BY <1>2, PublishedType
  <2>2. figures' \in [Manuals -> 0 .. MaxVersion] /\ manifest' \in [Manuals -> 0 .. MaxVersion]
        /\ json' \in [Files -> Corpus]
    BY <1>2, InvNow DEF DiskTypes
  <2>. QED
    BY <2>1, <2>2 DEF DiskTypes, Corpus, Records, Versions, Stores, Files
<1>7. ApiTypes'
  BY <1>2, Untouched
<1>8. ManualsInv'
  <2>1. UNCHANGED <<manuals, newest, manifest>> /\ json'.units = json.units /\ json'.segs = json.segs
    BY <1>2, <1>5
  <2>. QED
    BY <2>1, SameManuals
<1>9. RecordsInv'
  <2>1. Taken' = Taken
    BY <1>2, <1>3, <1>4 DEF Taken, Parsing
  <2>2. UNCHANGED <<newest, manifest>>
    BY <1>2, <1>5
  <2>. QED
    BY <1>4, <2>1, <2>2, SameRecords
<1>10. WholeInv'
  <2>1. place = "summary" => job.at = "backfill"
    BY <1>1, <1>2
  <2>2. OneIngestion => OneIngestion'
    BY <1>2 DEF OneIngestion
  <2>. QED
    BY <1>3, <1>4, <2>1, <2>2, InvNow DEF WholeInv
<1>11. job.store = "pgvector"
  BY <1>2, InvNow DEF StoreInv
<1>12. place = "manifest" => Valid("pgvector")'
  <2>1. SUFFICES ASSUME job.at = "publish" PROVE Valid("pgvector")'
    BY <1>1, <1>2
  <2>2. json.reps = job.units /\ json.units = job.units
    BY <2>1, InvNow DEF FilesInv, Written, Late, Files
  <2>3. index'["pgvector"].body = json.segs /\ index'["pgvector"].reps = json.reps
    BY <1>2, PublishedType
  <2>. QED
    BY <1>2, <2>2, <2>3 DEF Valid, Orphans, None
<1>13. (job.at = "publish" => place = "manifest") /\ (job.at # "publish" => place = "summary")
       /\ job.at \in {"publish", "backfill", "manifest"} /\ UNCHANGED json
  BY <1>1, <1>2
<1>. QED
  BY <1>2, <1>3, <1>6, <1>7, <1>8, <1>9, <1>10, <1>11, <1>12, <1>13, Finishing

LEMMA CrashedTypes ==
  ASSUME IngestInv, crashes < MaxCrashes, crashes' = crashes + 1, UNCHANGED api
  PROVE  ApiTypes'
<1>1. crashes \in 0 .. MaxCrashes
  BY InvNow DEF ApiTypes
<1>2. crashes' \in 0 .. MaxCrashes
  BY <1>1, IngestionAssumption
<1>. QED
  BY <1>2, InvNow DEF ApiTypes, Down, Corpus, Records, Versions, Files

LEMMA PublishFailsKeeps ==
  ASSUME IngestInv, PublishFails
  PROVE  IngestInv'
<1>1. /\ index' \in {index, Published} /\ End("crashed") /\ crashes < MaxCrashes /\ crashes' = crashes + 1
      /\ UNCHANGED world /\ UNCHANGED <<figures, json, manifest>> /\ UNCHANGED api
  BY DEF PublishFails
<1>2. "crashed" \in Ended \ {"done"}
  BY DEF Ended
<1>3. job.store \in Stores /\ job' = Idle("crashed", job.store)
  BY <1>1, InvNow DEF JobTypes, JobSet, End
<1>4. DiskTypes'
  <2>1. index' \in [Stores -> [made : BOOLEAN, body : Corpus, reps : Corpus]]
    BY <1>1, PublishedType, InvNow DEF DiskTypes
  <2>2. figures' \in [Manuals -> 0 .. MaxVersion] /\ manifest' \in [Manuals -> 0 .. MaxVersion]
        /\ json' \in [Files -> Corpus]
    BY <1>1, InvNow DEF DiskTypes
  <2>. QED
    BY <2>1, <2>2 DEF DiskTypes, Corpus, Records, Versions, Stores, Files
<1>5. ApiTypes'
  BY <1>1, CrashedTypes
<1>. QED
  BY <1>1, <1>2, <1>3, <1>4, <1>5, Failing

LEMMA CrashKeeps ==
  ASSUME IngestInv, Crash
  PROVE  IngestInv'
<1>1. /\ End("crashed") /\ crashes < MaxCrashes /\ crashes' = crashes + 1 /\ UNCHANGED api
      /\ UNCHANGED world /\ UNCHANGED <<figures, json, manifest, index>>
  BY DEF Crash
<1>2. "crashed" \in Ended \ {"done"}
  BY DEF Ended
<1>3. ApiTypes'
  BY <1>1, CrashedTypes
<1>. QED
  BY <1>1, <1>2, <1>3, FailingNow

LEMMA StartBackfillKeeps ==
  ASSUME IngestInv, StartBackfill
  PROVE  IngestInv'
<1>1. PICK end \in {"invalid", "backfill"} : job' = Idle(end, "pgvector")
  BY DEF StartBackfill
<1>2. /\ job.at \in BackfillAfter /\ api' = Down
      /\ UNCHANGED world /\ UNCHANGED <<figures, json, manifest, index>> /\ crashes' = crashes
  BY DEF StartBackfill
<1>3. end \in Ended \cup {"backfill"} /\ end \notin {"done", "summary"} /\ "pgvector" \in Stores
  BY DEF Ended, Stores
<1>4. /\ JobTypes' /\ RecordsInv' /\ HashInv' /\ TodoInv' /\ FilesInv' /\ StoreInv' /\ job'.at = end
  BY <1>1, <1>3, Resting
<1>5. WorldTypes' /\ DiskTypes'
  BY <1>2, Untouched
<1>6. ApiTypes'
  BY <1>2, InvNow DEF ApiTypes, Down
<1>7. ManualsInv'
  <2>1. UNCHANGED <<manuals, newest, manifest>> /\ json'.units = json.units /\ json'.segs = json.segs
    BY <1>2 DEF world
  <2>. QED
    BY <2>1, SameManuals
<1>8. WholeInv'
  <2>1. OneIngestion => OneIngestion'
    BY <1>2 DEF OneIngestion
  <2>2. BackfillAfter \subseteq {"done"} => OneIngestion
    BY <1>2, InvNow DEF WholeInv
  <2>. QED
    BY <1>3, <1>4, <2>1, <2>2 DEF WholeInv
<1>. QED
  BY <1>4, <1>5, <1>6, <1>7, <1>8, InvNext

LEMMA SummaryKeeps ==
  ASSUME IngestInv, Summary
  PROVE  IngestInv'
<1>1. /\ job.at = "summary"
      /\ UNCHANGED world /\ UNCHANGED <<figures, json, manifest, index>> /\ UNCHANGED <<api, crashes>>
  BY DEF Summary
<1>2. CASE Valid("pgvector") /\ ~NoManifest
  <2>1. job' = Idle("done", job.store)
    BY <1>2 DEF Summary, End
  <2>2. job.store = "pgvector" /\ job.store \in Stores
    BY <1>1, InvNow DEF StoreInv, JobTypes, JobSet
  <2>3. "done" \in Ended \cup {"backfill"} /\ "done" # "backfill"
    BY DEF Ended
  <2>4. /\ JobTypes' /\ RecordsInv' /\ HashInv' /\ TodoInv' /\ FilesInv' /\ StoreInv'
        /\ job'.at = "done" /\ job'.store = job.store
    BY <2>1, <2>2, <2>3, Resting
  <2>5. WorldTypes' /\ DiskTypes' /\ ApiTypes'
    BY <1>1, Untouched
  <2>6. ManualsInv'
    <3>1. UNCHANGED <<manuals, newest, manifest>> /\ json'.units = json.units /\ json'.segs = json.segs
      BY <1>1 DEF world
    <3>. QED
      BY <3>1, SameManuals
  <2>7. WholeInv'
    <3>1. SUFFICES ASSUME BackfillAfter \subseteq {"done"}
                   PROVE  OneIngestion' /\ Indexed("pgvector")'
      BY <2>2, <2>4 DEF WholeInv, Indexed
    <3>2. OneIngestion
      BY <3>1, <1>1, InvNow DEF WholeInv
    <3>3. Indexed("pgvector")
      BY <3>2, <1>2 DEF OneIngestion, Valid, Indexed, Files
    <3>. QED
      BY <3>2, <3>3, <1>1 DEF OneIngestion, Indexed
  <2>. QED
    BY <2>4, <2>5, <2>6, <2>7, InvNext
<1>3. CASE ~(Valid("pgvector") /\ ~NoManifest)
  <2>1. End("invalid")
    BY <1>3 DEF Summary
  <2>2. "invalid" \in Ended \ {"done"}
    BY DEF Ended
  <2>3. ApiTypes'
    BY <1>1, Untouched
  <2>. QED
    BY <1>1, <2>1, <2>2, <2>3, FailingNow
<1>. QED
  BY <1>2, <1>3

\* The manifest is the last thing written: it names what the records hold.
LEMMA WriteManifestKeeps ==
  ASSUME IngestInv, WriteManifest
  PROVE  IngestInv'
<1>1. /\ job.at = "manifest" /\ manifest' = job.entries
      /\ UNCHANGED world /\ UNCHANGED <<figures, json, index>> /\ UNCHANGED <<api, crashes>>
  BY DEF WriteManifest
<1>2. UNCHANGED <<manuals, newest, store>>
  BY <1>1 DEF world
<1>3. /\ \A f \in Files : json[f] = job.units
      /\ Valid(job.store) /\ job.store \in Stores /\ Taken = job.files
  BY <1>1, InvNow DEF FilesInv, Written, Late, StoreInv, JobTypes, JobSet, Taken, Parsing
<1>4. \A m \in Manuals : /\ job.units[m] \in Records /\ newest[m] \in Versions
                         /\ Forward => /\ job.entries[m] = job.units[m][1]
                                       /\ manuals[m] \in {0, newest[m]}
  <2>1. \A m \in Manuals : job.units[m] \in Records
    BY InvNow DEF JobTypes, JobSet, Corpus
  <2>2. \A m \in Manuals : Forward => job.entries[m] = job.units[m][1]
    BY NoRecords, InvNow DEF RecordsInv, TakenInv, LeftInv
  <2>. QED
    BY <2>1, <2>2, InvNow DEF ManualsInv, ManualInv
<1>5. ASSUME NEW m \in Manuals, job.units[m] # None, Forward
      PROVE  job.units[m][1] \in Versions /\ job.units[m][2] \in Versions
             /\ job.units[m][1] <= job.units[m][2] /\ job.units[m][2] <= newest[m]
  <2>1. Promised(m, job.units[m])
    BY <1>5, InvNow DEF RecordsInv, TakenInv, LeftInv
  <2>2. job.units[m] \in Versions \X Versions
    BY <1>4, <1>5 DEF Records
  <2>. QED
    BY <1>5, <2>1, <2>2 DEF Promised
<1>6. ASSUME Forward
      PROVE  \A m \in Manuals :
               /\ manifest'[m] <= newest[m]
               /\ job.units[m] # None => /\ manifest'[m] <= job.units[m][1]
                                         /\ job.units[m][1] <= job.units[m][2]
                                         /\ job.units[m][2] <= newest[m]
  <2>1. ASSUME NEW m \in Manuals, job.units[m] = None
        PROVE  manifest'[m] <= newest[m]
    <3>1. manifest'[m] = 0 /\ newest[m] \in Nat
      BY <2>1, <1>1, <1>4, <1>6, NoRecords DEF Versions
    <3>. QED
      BY <3>1
  <2>2. ASSUME NEW m \in Manuals, job.units[m] # None
        PROVE  /\ manifest'[m] <= newest[m] /\ manifest'[m] <= job.units[m][1]
               /\ job.units[m][1] <= job.units[m][2] /\ job.units[m][2] <= newest[m]
    <3>1. PICK a, b : a = job.units[m][1] /\ b = job.units[m][2]
      OBVIOUS
    <3>2. a \in Nat /\ b \in Nat /\ a <= b /\ b <= newest[m] /\ newest[m] \in Nat /\ manifest'[m] = a
      BY <2>2, <3>1, <1>1, <1>4, <1>5, <1>6 DEF Versions
    <3>. QED
      BY <3>1, <3>2
  <2>. QED
    BY <2>1, <2>2
<1>7. ManualsInv'
  <2>1. json'.units = job.units /\ json'.segs = job.units
    BY <1>1, <1>3 DEF Files
  <2>. QED
    BY <2>1, <1>2, <1>4, <1>6 DEF ManualsInv, ManualInv, Promised, None
<1>8. WorldTypes' /\ ApiTypes'
  BY <1>1, Untouched
<1>9. DiskTypes'
  <2>1. manifest' \in [Manuals -> 0 .. MaxVersion]
    BY <1>1, InvNow DEF JobTypes, JobSet
  <2>2. figures' \in [Manuals -> 0 .. MaxVersion] /\ json' \in [Files -> Corpus]
        /\ index' \in [Stores -> [made : BOOLEAN, body : Corpus, reps : Corpus]]
    BY <1>1, InvNow DEF DiskTypes
  <2>. QED
    BY <2>1, <2>2 DEF DiskTypes, Corpus, Records, Versions, Stores, Files
<1>10. OneIngestion'
  <2>1. \A f \in Files : json'[f] = json'.units
    BY <1>1, <1>3 DEF Files
  <2>2. Forward => \A m \in Manuals : manifest'[m] = json'.units[m][1]
    BY <1>1, <1>3, <1>4 DEF Files
  <2>. QED
    BY <2>1, <2>2 DEF OneIngestion
<1>11. CASE job.store = "pgvector"
  <2>1. Go("summary")
    BY <1>11 DEF WriteManifest
  <2>2. "summary" \in Places
    BY DEF Places
  <2>3. /\ job'.at = "summary" /\ job'.files = job.files /\ job'.units = job.units
        /\ job'.segs = job.segs /\ job'.entries = job.entries /\ job'.processed = job.processed
    BY <2>1, <2>2, Going
  <2>4. RecordsInv'
    <3>1. Taken' = Taken
      BY <1>1, <2>3 DEF Taken, Parsing
    <3>2. ASSUME NEW m \in Manuals, TakenInv(m) PROVE TakenInv(m)'
      BY <3>2, <1>2, <1>6, <2>3 DEF TakenInv, Promised, None
    <3>3. ASSUME NEW m \in Manuals, LeftInv(m) PROVE LeftInv(m)'
      BY <3>3, <2>3 DEF LeftInv, None
    <3>. QED
      BY <3>1, <3>2, <3>3, InvNow DEF RecordsInv
  <2>5. WholeInv'
    BY <1>10, <2>3 DEF WholeInv
  <2>6. UNCHANGED json /\ UNCHANGED world
    BY <1>1
  <2>. QED
    BY <1>1, <1>7, <1>8, <1>9, <1>11, <2>1, <2>4, <2>5, <2>6, Finishing
<1>12. CASE job.store # "pgvector"
  <2>1. job' = Idle("done", job.store)
    BY <1>12 DEF WriteManifest, End
  <2>2. "done" \in Ended \cup {"backfill"} /\ "done" # "backfill"
    BY DEF Ended
  <2>3. /\ JobTypes' /\ RecordsInv' /\ HashInv' /\ TodoInv' /\ FilesInv' /\ StoreInv'
        /\ job'.at = "done" /\ job'.store = job.store
    BY <1>3, <2>1, <2>2, Resting
  <2>4. Indexed(job.store)
    BY <1>3 DEF Valid, Indexed, Files
  <2>5. WholeInv'
    BY <1>1, <1>10, <2>3, <2>4 DEF WholeInv, Indexed
  <2>. QED
    BY <1>7, <1>8, <1>9, <2>3, <2>5, InvNext
<1>. QED
  BY <1>11, <1>12
-----------------------------------------------------------------------------
(* The theorems *)

LEMMA InitInv == Init => IngestInv
<1>. SUFFICES ASSUME Init PROVE IngestInv
  OBVIOUS
<1>1. /\ manuals = [m \in Manuals |-> 1] /\ newest = manuals
      /\ figures = Gone /\ manifest = Gone /\ json = [f \in Files |-> Empty]
      /\ index = [s \in Stores |-> [made |-> FALSE, body |-> Empty, reps |-> Empty]]
      /\ store \in Stores /\ job = Idle("idle", store) /\ api = Down /\ edits = 0 /\ crashes = 0
  BY StoreAssumption DEF Init
<1>2. "idle" \in Places
  BY DEF Places, Ended
<1>3. /\ job \in JobSet /\ job.at = "idle" /\ job.store = store /\ job.files = {} /\ job.todo = {}
      /\ job.processed = {} /\ job.units = Empty /\ job.segs = Empty /\ job.entries = Gone
  BY <1>1, <1>2, IdleJob DEF JobSet
<1>4. TypeOK
  <2>1. WorldTypes
    BY <1>1, IngestionAssumption DEF WorldTypes
  <2>2. DiskTypes
    BY <1>1, NoRecords DEF DiskTypes
  <2>3. JobTypes
    BY <1>3 DEF JobTypes, JobSet
  <2>4. ApiTypes
    BY <1>1, IngestionAssumption DEF ApiTypes
  <2>. QED
    BY <2>1, <2>2, <2>3, <2>4, TypesNow
<1>5. ManualsInv
  <2>1. json.units = Empty /\ json.segs = Empty
    BY <1>1 DEF Files
  <2>. QED
    BY <1>1, <2>1, IngestionAssumption
       DEF ManualsInv, ManualInv, Promised, Empty, Gone, None, Versions
<1>6. RecordsInv
  <2>1. Taken = {}
    BY <1>3 DEF Taken, Parsing
  <2>. QED
    BY <1>3, <2>1 DEF RecordsInv, LeftInv, Empty, Gone, None
<1>7. HashInv /\ TodoInv
  BY <1>3 DEF HashInv, TodoInv, Parsing, Files, Late
<1>8. FilesInv
  BY <1>3 DEF FilesInv, Written, Late, Files
<1>9. StoreInv /\ WholeInv
  BY <1>3 DEF StoreInv, WholeInv, Ended
<1>. QED
  BY <1>4, <1>5, <1>6, <1>7, <1>8, <1>9 DEF IngestInv

LEMMA StutterKeeps ==
  ASSUME IngestInv, UNCHANGED vars
  PROVE  IngestInv'
<1>1. UNCHANGED <<manuals, newest, figures, json, manifest, index, store, job, api, edits, crashes>>
  BY DEF vars
<1>2. WorldTypes' /\ DiskTypes' /\ ApiTypes'
  BY <1>1, Untouched DEF world
<1>3. JobTypes'
  BY <1>1, InvNow DEF JobTypes, JobSet, Places, Ended, Files, Stores, Corpus, Records, Versions
<1>4. ManualsInv'
  BY <1>1, SameManuals
<1>5. RecordsInv'
  <2>1. Taken' = Taken
    BY <1>1 DEF Taken, Parsing
  <2>. QED
    BY <1>1, <2>1, SameRecords
<1>6. HashInv'
  BY <1>1, InvNow DEF HashInv, NextManual, Versions
<1>7. TodoInv' /\ FilesInv'
  BY <1>1, InvNow DEF TodoInv, FilesInv, Written, Parsing, Late, Files, Before
<1>8. StoreInv'
  BY <1>1, InvNow DEF StoreInv, Late, Ended, Valid, Orphans, None
<1>9. WholeInv'
  BY <1>1, InvNow DEF WholeInv, OneIngestion, Indexed, Files
<1>. QED
  BY <1>2, <1>3, <1>4, <1>5, <1>6, <1>7, <1>8, <1>9, InvNext

LEMMA NextKeeps ==
  ASSUME IngestInv, Next
  PROVE  IngestInv'
<1>1. CASE Ingesting
  BY <1>1, ExtractFiguresKeeps, CheckKeeps, HashKeeps, ParseKeeps, VanishKeeps, CheckEvidenceKeeps,
     WriteRecordsKeeps, DecideKeeps, WriteManifestKeeps, SummaryKeeps, Zenon DEF Ingesting
<1>2. CASE Building
  BY <1>2, WipeKeeps, OpenKeeps, AddBodyKeeps, AddRepsKeeps, ValidateKeeps, PublishKeeps, Zenon
     DEF Building
<1>3. CASE Operator
  BY <1>3, EditKeeps, SwitchKeeps, StartBackfillKeeps, StartApiKeeps, Zenon DEF Operator
<1>. QED
  BY <1>1, <1>2, <1>3, StartKeeps, StartWithoutKeeps, CrashKeeps, PublishFailsKeeps, Zenon
     DEF Next, JobStep

LEMMA Invariance == Spec => []IngestInv
<1>1. IngestInv /\ [Next]_vars => IngestInv'
  BY NextKeeps, StutterKeeps
<1>. QED
  BY <1>1, InitInv, PTL DEF Spec

\* Every variable has its type: the manuals, the record files, the indexes, the
\* job with its local variables and what the API loaded.
THEOREM TypeCorrect == Spec => []TypeOK
<1>1. IngestInv => TypeOK
  BY DEF IngestInv
<1>. QED
  BY <1>1, Invariance, PTL

LEMMA PromisesInv == ASSUME IngestInv, Forward PROVE RecordsAsPromised
<1>1. ManifestNeverAhead
  <2>1. SUFFICES ASSUME NEW m \in Manuals, NEW f \in {"units", "segs"}, json[f][m] # None
                 PROVE  json[f][m][2] >= manifest[m]
    BY DEF ManifestNeverAhead
  <2>2. Promised(m, json[f][m])
    <3>1. Promised(m, json.units[m]) /\ Promised(m, json.segs[m])
      BY InvNow DEF ManualsInv, ManualInv
    <3>. QED
      BY <3>1
  <2>3. manifest[m] \in Nat /\ json[f][m] \in Records
    BY InvNow DEF DiskTypes, Corpus, Files
  <2>4. json[f][m][1] \in Nat /\ json[f][m][2] \in Nat
    BY <2>1, <2>3 DEF Records, Versions
  <2>. QED
    BY <2>1, <2>2, <2>3, <2>4 DEF Promised
<1>2. ReuseUnchanged
  <2>1. SUFFICES ASSUME NEW m \in job.files \ (job.todo \cup job.processed),
                        job.at \notin Ended \cup {"figures"}
                 PROVE  {job.units[m], job.segs[m]} = {<<job.entries[m], job.entries[m]>>}
    BY DEF ReuseUnchanged
  <2>2. m \in Taken /\ m \in Manuals
    BY InvNow DEF Taken, JobTypes, JobSet
  <2>. QED
    BY <2>1, <2>2, InvNow DEF RecordsInv, TakenInv
<1>. QED
  BY <1>1, <1>2 DEF RecordsAsPromised

\* What the manifest promises holds of the records, however often a job is
\* interrupted between two of its writes and the manuals change under it: the text
\* is parsed after the hash is taken (ingest.py), and the manifest is written last.
THEOREM PromisesKept == ASSUME PutBack = FALSE PROVE Spec => []RecordsAsPromised
<1>1. IngestInv => RecordsAsPromised
  BY PromisesInv DEF Forward
<1>. QED
  BY <1>1, Invariance, PTL

\* A job that completes leaves the manifest, all record files and both collections
\* of its store at one, whichever store it was, whatever jobs were interrupted
\* before it, if backfills only follow a job that completed.
THEOREM CompletedJobs ==
  ASSUME PutBack = FALSE, BackfillAfter \subseteq {"done"}
  PROVE  Spec => []CompletedWhole
<1>1. IngestInv => CompletedWhole
  BY InvNow DEF WholeInv, OneIngestion, Indexed, CompletedWhole, Forward
<1>. QED
  BY <1>1, Invariance, PTL
-----------------------------------------------------------------------------
(* What an API serves.  A mixture needs records that are not paired with   *)
(* each other and a collection that is not either, and an interruption     *)
(* unpairs only one of them: the index is built from paired records, and   *)
(* until the representations are replaced the index is as it was.          *)

PairedRecords  == json.segs = json.reps
PairedIndex(s) == index[s].body = index[s].reps

\* A collection that is being filled holds the job's records but those left.
Filled(records, left) ==
  \A m \in Manuals : records[m] = IF m \in left THEN None ELSE job.units[m]
BuildInv ==
  /\ job.at \in {"wipe", "open", "body", "bodyreps"} => store # "pgvector"
  /\ job.at \in {"wipe", "open"} => job.todo = job.files
  /\ job.at = "open" => index[store].body = Empty
  /\ job.at = "body" => index[store].reps = Empty /\ Filled(index[store].body, job.todo)
  /\ job.at = "bodyreps" => index[store].body = job.units /\ Filled(index[store].reps, job.todo)

UnpairedPlaces == {"open", "body", "bodyreps"}
OnceInv ==
  /\ crashes = 0 =>
       /\ \A s \in Stores : PairedIndex(s) \/ (s = store /\ job.at \in UnpairedPlaces)
       /\ job.at # "reps" => PairedRecords
  /\ crashes = 1 /\ job.at # "reps" => PairedRecords \/ \A s \in Stores : PairedIndex(s)

\* The database gets both collections in one transaction.
DatabaseInv == PairedIndex("pgvector")

Served == store = "pgvector" \/ crashes <= 1 => ServesOneIngestion

ServeInv == BuildInv /\ OnceInv /\ DatabaseInv /\ Served

LEMMA ApiKept ==
  ASSUME IngestInv, Served, api' = Down \/ UNCHANGED <<api, store>>, crashes' \in {crashes, crashes + 1}
  PROVE  Served'
<1>1. CASE api' = Down
  BY <1>1 DEF Served, ServesOneIngestion, Down
<1>2. CASE UNCHANGED <<api, store>>
  <2>1. crashes \in Nat
    BY InvNow DEF ApiTypes
  <2>2. crashes' <= 1 => crashes <= 1
    BY <2>1
  <2>3. ServesOneIngestion => ServesOneIngestion'
    BY <1>2 DEF ServesOneIngestion, Down, None
  <2>. QED
    BY <1>2, <2>2, <2>3 DEF Served
<1>. QED
  BY <1>1, <1>2

\* The job comes to rest or goes on to another place, and writes nothing.
LEMMA Quiet ==
  ASSUME IngestInv, ServeInv, UNCHANGED <<json, index, crashes>>,
         job.at \notin UnpairedPlaces \cup {"reps"}, job'.at \notin UnpairedPlaces,
         job'.at = "wipe" => store' # "pgvector" /\ job'.todo = job'.files,
         api' = Down \/ UNCHANGED <<api, store>>
  PROVE  ServeInv'
<1>1. Served'
  BY ApiKept DEF ServeInv
<1>2. BuildInv'
  BY DEF BuildInv, UnpairedPlaces
<1>3. \A s \in Stores : PairedIndex(s)' <=> PairedIndex(s)
  BY DEF PairedIndex
<1>4. PairedRecords' <=> PairedRecords
  BY DEF PairedRecords
<1>5. OnceInv'
  BY <1>3, <1>4 DEF ServeInv, OnceInv, Stores
<1>6. DatabaseInv'
  BY DEF ServeInv, DatabaseInv, PairedIndex
<1>. QED
  BY <1>1, <1>2, <1>5, <1>6 DEF ServeInv

\* What is done beside the job.
LEMMA Beside ==
  ASSUME IngestInv, ServeInv, UNCHANGED <<json, index, job, store, crashes>>, Served'
  PROVE  ServeInv'
<1>1. BuildInv'
  BY DEF ServeInv, BuildInv, Filled, Empty, None
<1>2. OnceInv' /\ DatabaseInv'
  BY DEF ServeInv, OnceInv, DatabaseInv, PairedIndex, PairedRecords, Stores, UnpairedPlaces
<1>. QED
  BY <1>1, <1>2 DEF ServeInv

LEMMA JobQuiet ==
  ASSUME IngestInv, ServeInv, ExtractFigures \/ Check \/ Hash \/ Parse \/ Vanish \/ CheckEvidence
  PROVE  ServeInv'
<1>1. /\ job.at \in {"figures", "check", "hash", "parse"}
      /\ UNCHANGED <<json, index, crashes>> /\ UNCHANGED <<api, store>>
  BY DEF ExtractFigures, Check, Hash, Parse, Vanish, CheckEvidence, world
<1>2. job \in JobSet
  BY InvNow DEF JobTypes, JobSet
<1>3. job'.at \in {"check", "hash", "parse", "vanished", "invalid", "units"}
  <2>1. ExtractFigures => job'.at = "check"
    BY <1>2 DEF ExtractFigures, Go, JobSet
  <2>2. Check => job'.at \in {"check", "hash"}
    BY <1>2 DEF Check, Go, JobSet
  <2>3. Hash => job'.at = "parse"
    BY <1>2 DEF Hash, JobSet
  <2>4. Parse => job'.at = "check"
    BY <1>2 DEF Parse, JobSet
  <2>5. Vanish => job'.at = "vanished"
    BY DEF Vanish, End, Idle
  <2>6. CheckEvidence => job'.at \in {"invalid", "units"}
    BY <1>2 DEF CheckEvidence, Go, End, Idle, JobSet
  <2>. QED
    BY <2>1, <2>2, <2>3, <2>4, <2>5, <2>6
<1>. QED
  BY <1>1, <1>3, Quiet DEF UnpairedPlaces

LEMMA DecisionQuiet ==
  ASSUME IngestInv, ServeInv, Decide \/ Validate \/ WriteManifest \/ Summary
  PROVE  ServeInv'
<1>1. /\ job.at \in {"decide", "validate", "manifest", "summary"}
      /\ UNCHANGED <<json, index, crashes>> /\ UNCHANGED <<api, store>>
  BY DEF Decide, Validate, WriteManifest, Summary, world
<1>2. job \in JobSet
  BY InvNow DEF JobTypes, JobSet
<1>3. /\ job'.at \in {"publish", "wipe", "manifest", "invalid", "summary", "done"}
      /\ job'.at = "wipe" => store # "pgvector" /\ job'.todo = job'.files
  <2>1. CASE Decide
    <3>1. CASE MustRebuild
      <4>1. job' = [job EXCEPT !.todo = job.files, !.at = IF store = "pgvector" THEN "publish" ELSE "wipe"]
        BY <2>1, <3>1 DEF Decide
      <4>. QED
        BY <4>1, <1>2 DEF JobSet
    <3>2. CASE ~MustRebuild
      <4>1. Go("manifest") \/ End("invalid")
        BY <2>1, <3>2 DEF Decide
      <4>. QED
        BY <4>1, <1>2 DEF Go, End, Idle, JobSet
    <3>. QED
      BY <3>1, <3>2
  <2>2. Validate => job'.at \in {"manifest", "invalid"}
    BY <1>2 DEF Validate, Go, End, Idle, JobSet
  <2>3. WriteManifest => job'.at \in {"summary", "done"}
    BY <1>2 DEF WriteManifest, Go, End, Idle, JobSet
  <2>4. Summary => job'.at \in {"done", "invalid"}
    BY DEF Summary, End, Idle
  <2>. QED
    BY <2>1, <2>2, <2>3, <2>4
<1>. QED
  BY <1>1, <1>3, Quiet DEF UnpairedPlaces

\* A job starts, or the store is changed, while nothing runs; the API goes down.
LEMMA StartQuiet ==
  ASSUME IngestInv, ServeInv,
         Start \/ StartWithout \/ StartBackfill \/ \E s \in SwitchTo : Switch(s)
  PROVE  ServeInv'
<1>1. /\ job.at \in Ended /\ api' = Down /\ UNCHANGED <<json, index, crashes>>
  <2>1. Start => job.at \in Ended /\ api' = Down /\ UNCHANGED <<json, index, crashes>>
    BY Zenon DEF Start
  <2>2. StartWithout => job.at \in Ended /\ api' = Down /\ UNCHANGED <<json, index, crashes>>
    BY DEF StartWithout
  <2>3. StartBackfill => job.at \in Ended /\ api' = Down /\ UNCHANGED <<json, index, crashes>>
    BY StoreAssumption DEF StartBackfill
  <2>4. (\E s \in SwitchTo : Switch(s)) => job.at \in Ended /\ api' = Down /\ UNCHANGED <<json, index, crashes>>
    BY DEF Switch
  <2>. QED
    BY <2>1, <2>2, <2>3, <2>4
<1>2. job'.at \in Ended \cup {"figures", "backfill"}
  <2>1. CASE Start
    <3>1. PICK f, r : job' = [Idle("figures", store) EXCEPT !.files = f, !.todo = f, !.removed = r]
      BY <2>1, Zenon DEF Start
    <3>. QED
      BY <3>1 DEF Idle
  <2>2. StartWithout => job'.at = "vanished"
    BY DEF StartWithout, Idle
  <2>3. StartBackfill => job'.at \in {"invalid", "backfill"}
    BY DEF StartBackfill, Idle
  <2>4. (\E s \in SwitchTo : Switch(s)) => job' = job
    BY DEF Switch
  <2>. QED
    BY <1>1, <2>1, <2>2, <2>3, <2>4 DEF Ended
<1>. QED
  BY <1>1, <1>2, Quiet DEF Ended, UnpairedPlaces

LEMMA EditServes ==
  ASSUME IngestInv, ServeInv, NEW m \in Manuals, NEW v, Edit(m, v)
  PROVE  ServeInv'
<1>1. UNCHANGED <<json, index, job, store, crashes>> /\ UNCHANGED <<api, store>>
  BY DEF Edit
<1>2. Served'
  BY <1>1, ApiKept DEF ServeInv
<1>. QED
  BY <1>1, <1>2, Beside

\* The checks at the start compare each collection with its file: one pair that is
\* at one makes all four the same.
LEMMA StartApiServes ==
  ASSUME IngestInv, ServeInv, StartApi
  PROVE  ServeInv'
<1>1. /\ job.at \in Ended /\ Loadable
      /\ api' = [up |-> TRUE, json |-> json, body |-> index[store].body, reps |-> index[store].reps]
      /\ UNCHANGED <<json, index, job, store, crashes>>
  BY DEF StartApi, world
<1>2. job.at \notin UnpairedPlaces \cup {"reps"} /\ store \in Stores /\ crashes \in Nat
  BY <1>1, InvNow DEF Ended, UnpairedPlaces, WorldTypes, ApiTypes
<1>3. index[store].body = json.segs /\ index[store].reps = json.reps
  BY <1>1 DEF Loadable, Valid
<1>4. \A m \in Manuals : json.segs[m] \in {None, json.units[m]}
  BY <1>1 DEF Loadable, Orphans
<1>5. ASSUME store = "pgvector" \/ crashes <= 1
      PROVE  PairedRecords \/ PairedIndex(store)
  <2>1. CASE store = "pgvector"
    BY <2>1 DEF ServeInv, DatabaseInv
  <2>2. CASE crashes <= 1
    <3>1. crashes = 0 \/ crashes = 1
      BY <1>2, <2>2
    <3>. QED
      BY <3>1, <1>2 DEF ServeInv, OnceInv
  <2>. QED
    BY <1>5, <2>1, <2>2
<1>6. ASSUME PairedRecords \/ PairedIndex(store)
      PROVE  ServesOneIngestion'
  <2>1. /\ api'.json.reps = json.segs /\ api'.json.segs = json.segs /\ api'.json.units = json.units
        /\ api'.body = json.segs /\ api'.reps = json.segs
    BY <1>1, <1>3, <1>6 DEF PairedRecords, PairedIndex
  <2>. QED
    BY <2>1, <1>4 DEF ServesOneIngestion, None
<1>7. Served'
  BY <1>1, <1>5, <1>6 DEF Served
<1>. QED
  BY <1>1, <1>7, Beside

\* Between the two files only the records are unpaired, and the index is not touched.
LEMMA WriteRecordsServes ==
  ASSUME IngestInv, ServeInv, WriteRecords
  PROVE  ServeInv'
<1>1. PICK f : f = job.at
  OBVIOUS
<1>2. /\ f \in Files /\ job.at = f /\ json' = [json EXCEPT ![f] = Content(f)] /\ Go(AfterIt[f])
      /\ UNCHANGED <<index, crashes>> /\ UNCHANGED <<api, store>>
  BY <1>1 DEF WriteRecords, world
<1>3. /\ AfterIt[f] \in Places /\ AfterIt[f] \notin UnpairedPlaces \cup {"wipe"}
      /\ f \notin UnpairedPlaces
      /\ AfterIt[f] = "reps" <=> f = "segs"
  BY <1>2 DEF Files, AfterIt, Places, UnpairedPlaces
<1>4. job'.at = AfterIt[f]
  BY <1>2, <1>3, Going
<1>5. json \in [Files -> Corpus] /\ Content(f) = job.units
  BY <1>2, InvNow DEF DiskTypes, FilesInv, Content
<1>6. f \notin {"segs", "reps"} => UNCHANGED <<json.segs, json.reps>>
  BY <1>2, <1>5 DEF Files
<1>7. f = "reps" => PairedRecords'
  <2>1. SUFFICES ASSUME f = "reps" PROVE PairedRecords'
    OBVIOUS
  <2>2. "segs" \in Written
    BY <2>1, <1>2 DEF Written, Files, Late, Before
  <2>3. json["segs"] = job.units
    BY <2>2, InvNow DEF FilesInv
  <2>4. json'["segs"] = job.units /\ json'["reps"] = job.units
    BY <2>1, <2>3, <1>2, <1>5 DEF Files
  <2>. QED
    BY <2>4 DEF PairedRecords
<1>8. Served'
  BY <1>2, ApiKept DEF ServeInv
<1>9. BuildInv'
  BY <1>3, <1>4 DEF BuildInv, UnpairedPlaces
<1>10. \A s \in Stores : PairedIndex(s)' <=> PairedIndex(s)
  BY <1>2 DEF PairedIndex
<1>11. f \notin {"segs", "reps"} => (PairedRecords' <=> PairedRecords)
  BY <1>6 DEF PairedRecords
<1>12. OnceInv'
  <2>1. crashes' = crashes
    BY <1>2
  <2>2. CASE f = "segs"
    BY <2>1, <2>2, <1>2, <1>3, <1>4, <1>10 DEF ServeInv, OnceInv, Stores
  <2>3. CASE f # "segs"
    BY <2>1, <2>3, <1>2, <1>3, <1>4, <1>7, <1>10, <1>11 DEF ServeInv, OnceInv, Stores
  <2>. QED
    BY <2>2, <2>3
<1>13. DatabaseInv'
  BY <1>2 DEF ServeInv, DatabaseInv, PairedIndex
<1>. QED
  BY <1>8, <1>9, <1>12, <1>13 DEF ServeInv

\* While the index is built, or the database gets its collections, the records are
\* paired, so only the other collections matter.
LEMMA RecordsPaired ==
  ASSUME IngestInv, job.at \in Late \/ (BackfillAfter \subseteq {"done"} /\ job.at = "backfill")
  PROVE  PairedRecords
<1>1. CASE job.at \in Late
  BY <1>1, InvNow DEF FilesInv, Written, Files, PairedRecords
<1>2. CASE BackfillAfter \subseteq {"done"} /\ job.at = "backfill"
  BY <1>2, InvNow DEF WholeInv, OneIngestion, Files, PairedRecords
<1>. QED
  BY <1>1, <1>2

\* Chroma is built: other collections are left alone, and the one being built holds
\* what BuildInv says, or both of its collections hold the job's records.
LEMMA BuildingServes ==
  ASSUME IngestInv, ServeInv, job.at \in {"wipe", "open", "body", "bodyreps"},
         UNCHANGED json, UNCHANGED <<api, store>>, UNCHANGED crashes, BuildInv',
         \A s \in Stores \ {store} : index'[s] = index[s],
         job'.at \in UnpairedPlaces \/ PairedIndex(store)',
         job'.at # "reps"
  PROVE  ServeInv'
<1>1. Served'
  BY ApiKept DEF ServeInv
<1>2. PairedRecords /\ PairedRecords'
  BY RecordsPaired DEF Late, PairedRecords
<1>3. \A s \in Stores \ {store} : PairedIndex(s)' <=> PairedIndex(s)
  BY DEF PairedIndex
<1>4. store # "pgvector" /\ "pgvector" \in Stores
  BY DEF ServeInv, BuildInv, Stores
<1>5. DatabaseInv'
  BY <1>3, <1>4 DEF ServeInv, DatabaseInv, PairedIndex
<1>6. OnceInv'
  BY <1>2, <1>3 DEF ServeInv, OnceInv, Stores
<1>. QED
  BY <1>1, <1>5, <1>6 DEF ServeInv

LEMMA WipeServes ==
  ASSUME IngestInv, ServeInv, Wipe
  PROVE  ServeInv'
<1>1. /\ job.at = "wipe" /\ Go("open")
      /\ UNCHANGED json /\ UNCHANGED <<api, store>> /\ UNCHANGED crashes
      /\ index' = [index EXCEPT ![store] =
                     IF store = "local" THEN [made |-> FALSE, body |-> Empty, reps |-> Empty]
                                        ELSE [index[store] EXCEPT !.body = Empty]]
  BY DEF Wipe, world
<1>2. "open" \in Places /\ "open" \in UnpairedPlaces
  BY DEF Places, UnpairedPlaces
<1>3. job'.at = "open" /\ job'.todo = job.todo /\ job'.files = job.files
  BY <1>1, <1>2, Going
<1>4. /\ index \in [Stores -> [made : BOOLEAN, body : Corpus, reps : Corpus]]
      /\ store \in Stores
  BY InvNow DEF DiskTypes, WorldTypes
<1>5. index'[store].body = Empty /\ \A s \in Stores \ {store} : index'[s] = index[s]
  BY <1>1, <1>4
<1>6. BuildInv'
  BY <1>1, <1>3, <1>5 DEF ServeInv, BuildInv, Empty, None
<1>. QED
  BY <1>1, <1>2, <1>3, <1>5, <1>6, BuildingServes

LEMMA OpenServes ==
  ASSUME IngestInv, ServeInv, Open
  PROVE  ServeInv'
<1>1. /\ job.at = "open" /\ Go("body")
      /\ UNCHANGED json /\ UNCHANGED <<api, store>> /\ UNCHANGED crashes
      /\ index' = [index EXCEPT ![store] = [made |-> TRUE, body |-> index[store].body, reps |-> Empty]]
  BY DEF Open, world
<1>2. "body" \in Places /\ "body" \in UnpairedPlaces
  BY DEF Places, UnpairedPlaces
<1>3. job'.at = "body" /\ job'.todo = job.todo /\ job'.units = job.units
  BY <1>1, <1>2, Going
<1>4. /\ index \in [Stores -> [made : BOOLEAN, body : Corpus, reps : Corpus]]
      /\ store \in Stores
  BY InvNow DEF DiskTypes, WorldTypes
<1>5. /\ index'[store].body = Empty /\ index'[store].reps = Empty
      /\ \A s \in Stores \ {store} : index'[s] = index[s]
  BY <1>1, <1>4 DEF ServeInv, BuildInv
<1>6. job.todo = job.files /\ store # "pgvector"
  BY <1>1 DEF ServeInv, BuildInv
<1>7. \A m \in Manuals : m \notin job.files => job.units[m] = None
  BY <1>1, InvNow DEF RecordsInv, LeftInv, Taken, Parsing
<1>8. Filled(index[store].body, job.todo)'
  BY <1>1, <1>3, <1>5, <1>6, <1>7 DEF Filled, Empty, None
<1>9. BuildInv'
  BY <1>1, <1>3, <1>5, <1>6, <1>8 DEF BuildInv, Empty, None
<1>. QED
  BY <1>1, <1>2, <1>3, <1>5, <1>9, BuildingServes

\* One more manual is in a collection that is being filled.
LEMMA OneMoreFilled ==
  ASSUME NEW n \in Manuals, NEW left \in SUBSET Manuals, NEW records \in Corpus,
         Filled(records, left)
  PROVE  Filled([records EXCEPT ![n] = job.units[n]], left \ {n})
BY DEF Filled, Corpus

LEMMA AllFilled ==
  ASSUME NEW records \in Corpus, job.units \in Corpus, Filled(records, {})
  PROVE  records = job.units
BY DEF Filled, Corpus

LEMMA AddBodyServes ==
  ASSUME IngestInv, ServeInv, AddBody
  PROVE  ServeInv'
<1>1. PICK n : n = NextManual
  OBVIOUS
<1>2. /\ job.at = "body"
      /\ UNCHANGED json /\ UNCHANGED <<api, store>> /\ UNCHANGED crashes
      /\ index' = [index EXCEPT ![store].body[n] = job.segs[n]]
      /\ job' = IF job.todo = {n} THEN [job EXCEPT !.at = "bodyreps", !.todo = job.files]
                                  ELSE [job EXCEPT !.todo = job.todo \ {n}]
  BY <1>1 DEF AddBody, world
<1>3. job.todo # {} /\ job.todo \in SUBSET Manuals /\ n \in job.todo /\ n \in Manuals
  BY <1>1, <1>2, InvNow, NextOne DEF TodoInv, JobTypes, JobSet
<1>4. job \in JobSet /\ job.segs = job.units /\ job.units \in Corpus
  BY <1>2, InvNow DEF JobTypes, JobSet, FilesInv, Late
<1>5. PICK old, new : old = index[store].body /\ new = [old EXCEPT ![n] = job.units[n]]
  OBVIOUS
<1>6. /\ index \in [Stores -> [made : BOOLEAN, body : Corpus, reps : Corpus]]
      /\ store \in Stores
  BY InvNow DEF DiskTypes, WorldTypes
<1>7. index' = [index EXCEPT ![store] = [index[store] EXCEPT !.body = new]]
  BY <1>2, <1>4, <1>5, <1>6
<1>8. /\ index'[store].body = new /\ index'[store].reps = index[store].reps
      /\ \A s \in Stores \ {store} : index'[s] = index[s]
  BY <1>6, <1>7
<1>9. store # "pgvector" /\ index[store].reps = Empty /\ Filled(old, job.todo)
  BY <1>2, <1>5 DEF ServeInv, BuildInv
<1>10. old \in Corpus /\ new \in Corpus
  BY <1>3, <1>4, <1>5, <1>6 DEF Corpus
<1>11. Filled(new, job.todo \ {n})
  BY <1>3, <1>5, <1>9, <1>10, OneMoreFilled
<1>12. CASE job.todo = {n}
  <2>1. job'.at = "bodyreps" /\ job'.todo = job.files /\ job'.units = job.units
    BY <1>2, <1>4, <1>12 DEF JobSet
  <2>2. new = job.units
    <3>1. job.todo \ {n} = {}
      BY <1>12
    <3>. QED
      BY <1>4, <1>10, <1>11, <3>1, AllFilled
  <2>3. \A m \in Manuals : m \notin job.files => job.units[m] = None
    BY <1>2, InvNow DEF RecordsInv, LeftInv, Taken, Parsing
  <2>4. Filled(index[store].reps, job.todo)'
    BY <1>2, <1>8, <1>9, <2>1, <2>3 DEF Filled, Empty, None
  <2>5. BuildInv'
    BY <1>2, <1>8, <1>9, <2>1, <2>2, <2>4 DEF BuildInv
  <2>. QED
    BY <1>2, <1>8, <2>1, <2>5, BuildingServes DEF UnpairedPlaces
<1>13. CASE job.todo # {n}
  <2>1. job'.at = "body" /\ job'.todo = job.todo \ {n} /\ job'.units = job.units
    BY <1>2, <1>4, <1>13 DEF JobSet
  <2>2. Filled(index[store].body, job.todo)'
    BY <1>2, <1>8, <1>11, <2>1 DEF Filled, None
  <2>3. BuildInv'
    BY <1>2, <1>8, <1>9, <2>1, <2>2 DEF BuildInv, Empty, None
  <2>. QED
    BY <1>2, <1>8, <2>1, <2>3, BuildingServes DEF UnpairedPlaces
<1>. QED
  BY <1>12, <1>13

LEMMA AddRepsServes ==
  ASSUME IngestInv, ServeInv, AddReps
  PROVE  ServeInv'
<1>1. PICK n : n = NextManual
  OBVIOUS
<1>2. PICK place : place = IF job.todo = {n} THEN "validate" ELSE "bodyreps"
  OBVIOUS
<1>3. /\ job.at = "bodyreps"
      /\ UNCHANGED json /\ UNCHANGED <<api, store>> /\ UNCHANGED crashes
      /\ index' = [index EXCEPT ![store].reps[n] = json.reps[n]]
      /\ job' = [job EXCEPT !.at = place, !.todo = job.todo \ {n}]
  BY <1>1, <1>2 DEF AddReps, world
<1>4. job.todo # {} /\ job.todo \in SUBSET Manuals /\ n \in job.todo /\ n \in Manuals
  BY <1>1, <1>3, InvNow, NextOne DEF TodoInv, JobTypes, JobSet
<1>5. job \in JobSet /\ job.units \in Corpus /\ json.reps = job.units
  BY <1>3, InvNow DEF JobTypes, JobSet, FilesInv, Written, Late, Files
<1>6. PICK old, new : old = index[store].reps /\ new = [old EXCEPT ![n] = job.units[n]]
  OBVIOUS
<1>7. /\ index \in [Stores -> [made : BOOLEAN, body : Corpus, reps : Corpus]]
      /\ store \in Stores
  BY InvNow DEF DiskTypes, WorldTypes
<1>8. index' = [index EXCEPT ![store] = [index[store] EXCEPT !.reps = new]]
  BY <1>3, <1>5, <1>6, <1>7
<1>9. /\ index'[store].reps = new /\ index'[store].body = index[store].body
      /\ \A s \in Stores \ {store} : index'[s] = index[s]
  BY <1>7, <1>8
<1>10. store # "pgvector" /\ index[store].body = job.units /\ Filled(old, job.todo)
  BY <1>3, <1>6 DEF ServeInv, BuildInv
<1>11. old \in Corpus /\ new \in Corpus
  BY <1>4, <1>5, <1>6, <1>7 DEF Corpus
<1>12. Filled(new, job.todo \ {n})
  BY <1>4, <1>6, <1>10, <1>11, OneMoreFilled
<1>13. job'.at = place /\ job'.todo = job.todo \ {n} /\ job'.units = job.units
  BY <1>3, <1>5 DEF JobSet
<1>14. CASE job.todo = {n}
  <2>1. job.todo \ {n} = {}
    BY <1>14
  <2>2. new = job.units
    BY <1>5, <1>11, <1>12, <2>1, AllFilled
  <2>3. PairedIndex(store)'
    BY <1>3, <1>9, <1>10, <2>2 DEF PairedIndex
  <2>4. job'.at = "validate"
    BY <1>2, <1>13, <1>14
  <2>5. BuildInv'
    BY <2>4 DEF BuildInv
  <2>. QED
    BY <1>3, <1>9, <2>3, <2>4, <2>5, BuildingServes
<1>15. CASE job.todo # {n}
  <2>1. job'.at = "bodyreps"
    BY <1>2, <1>13, <1>15
  <2>2. Filled(index[store].reps, job.todo)'
    BY <1>3, <1>9, <1>12, <1>13 DEF Filled, None
  <2>3. BuildInv'
    BY <1>3, <1>9, <1>10, <1>13, <2>1, <2>2 DEF BuildInv
  <2>. QED
    BY <1>3, <1>9, <2>1, <2>3, BuildingServes DEF UnpairedPlaces
<1>. QED
  BY <1>14, <1>15

\* The transaction publishes the records there are, which are paired.
LEMMA PublishedPaired ==
  ASSUME IngestInv, ServeInv, PairedRecords, index' = Published
  PROVE  /\ PairedIndex("pgvector")'
         /\ \A s \in Stores \ {"pgvector"} : PairedIndex(s)' <=> PairedIndex(s)
<1>1. /\ index'["pgvector"].body = json.segs /\ index'["pgvector"].reps = json.reps
  BY PublishedType
<1>2. index \in [Stores -> [made : BOOLEAN, body : Corpus, reps : Corpus]]
  BY InvNow DEF DiskTypes
<1>3. \A s \in Stores \ {"pgvector"} : index'[s] = index[s]
  BY <1>2 DEF Published
<1>. QED
  BY <1>1, <1>3 DEF PairedIndex, PairedRecords

LEMMA PublishServes ==
  ASSUME IngestInv, ServeInv, BackfillAfter \subseteq {"done"}, Publish \/ PublishFails
  PROVE  ServeInv'
<1>1. /\ job.at \in {"publish", "backfill"} /\ index' \in {index, Published}
      /\ UNCHANGED json /\ UNCHANGED <<api, store>> /\ crashes' \in {crashes, crashes + 1}
  BY DEF Publish, PublishFails, world
<1>2. job'.at \in {"manifest", "summary", "crashed"}
  <2>1. CASE Publish
    <3>1. PICK place : place = IF job.at = "publish" THEN "manifest" ELSE "summary"
      OBVIOUS
    <3>2. place \in Places /\ Go(place) /\ place \in {"manifest", "summary"}
      BY <2>1, <3>1 DEF Publish, Places
    <3>. QED
      BY <3>2, Going
  <2>2. PublishFails => job'.at = "crashed"
    BY DEF PublishFails, End, Idle
  <2>. QED
    BY <2>1, <2>2
<1>3. PairedRecords /\ PairedRecords'
  <2>1. PairedRecords
    BY <1>1, RecordsPaired DEF Late
  <2>. QED
    BY <1>1, <2>1 DEF PairedRecords
<1>4. Served'
  BY <1>1, ApiKept DEF ServeInv
<1>5. BuildInv'
  BY <1>2 DEF BuildInv
<1>6. /\ PairedIndex("pgvector")'
      /\ \A s \in Stores \ {"pgvector"} : PairedIndex(s)' <=> PairedIndex(s)
  <2>1. CASE index' = index
    BY <2>1 DEF ServeInv, DatabaseInv, PairedIndex
  <2>2. CASE index' = Published
    BY <2>2, <1>3, PublishedPaired
  <2>. QED
    BY <1>1, <2>1, <2>2
<1>7. DatabaseInv'
  BY <1>6 DEF DatabaseInv
<1>8. OnceInv'
  <2>1. crashes \in Nat
    BY InvNow DEF ApiTypes
  <2>2. crashes' = 0 => crashes = 0
    BY <1>1, <2>1
  <2>3. crashes = 0 => \A s \in Stores : PairedIndex(s)
    BY <1>1 DEF ServeInv, OnceInv, UnpairedPlaces
  <2>4. crashes' = 0 => \A s \in Stores : PairedIndex(s)'
    BY <1>6, <2>2, <2>3
  <2>. QED
    BY <1>3, <2>4 DEF OnceInv
<1>. QED
  BY <1>4, <1>5, <1>7, <1>8 DEF ServeInv

\* The first interruption leaves the records or all collections paired.
LEMMA CrashServes ==
  ASSUME IngestInv, ServeInv, Crash
  PROVE  ServeInv'
<1>1. /\ job'.at = "crashed" /\ crashes' = crashes + 1
      /\ UNCHANGED <<json, index>> /\ UNCHANGED <<api, store>>
  BY DEF Crash, End, Idle, world
<1>2. crashes \in Nat
  BY InvNow DEF ApiTypes
<1>3. Served'
  BY <1>1, ApiKept DEF ServeInv
<1>4. BuildInv'
  BY <1>1 DEF BuildInv
<1>5. \A s \in Stores : PairedIndex(s)' <=> PairedIndex(s)
  BY <1>1 DEF PairedIndex
<1>6. PairedRecords' <=> PairedRecords
  BY <1>1 DEF PairedRecords
<1>7. DatabaseInv'
  BY <1>1 DEF ServeInv, DatabaseInv, PairedIndex
<1>8. crashes' # 0 /\ (crashes' = 1 => crashes = 0)
  BY <1>1, <1>2
<1>9. crashes = 0 => PairedRecords \/ \A s \in Stores : PairedIndex(s)
  BY DEF ServeInv, OnceInv, UnpairedPlaces
<1>10. OnceInv'
  BY <1>5, <1>6, <1>8, <1>9 DEF OnceInv
<1>. QED
  BY <1>3, <1>4, <1>7, <1>10 DEF ServeInv

LEMMA InitServes == ASSUME Init PROVE ServeInv
<1>1. /\ json = [f \in Files |-> Empty] /\ api = Down /\ job = Idle("idle", store)
      /\ index = [s \in Stores |-> [made |-> FALSE, body |-> Empty, reps |-> Empty]] /\ crashes = 0
  BY DEF Init
<1>2. job.at = "idle"
  BY <1>1 DEF Idle
<1>3. PairedRecords /\ \A s \in Stores : PairedIndex(s)
  BY <1>1 DEF PairedRecords, PairedIndex, Files
<1>4. Served
  BY <1>1 DEF Served, ServesOneIngestion
<1>. QED
  BY <1>2, <1>3, <1>4 DEF ServeInv, BuildInv, OnceInv, DatabaseInv, Stores

LEMMA NextServes ==
  ASSUME IngestInv, ServeInv, BackfillAfter \subseteq {"done"}, [Next]_vars
  PROVE  ServeInv'
<1>1. CASE Ingesting
  BY <1>1, JobQuiet, DecisionQuiet, WriteRecordsServes, Zenon DEF Ingesting
<1>2. CASE Building
  BY <1>2, WipeServes, OpenServes, AddBodyServes, AddRepsServes, DecisionQuiet, PublishServes, Zenon
     DEF Building
<1>3. CASE Operator
  BY <1>3, EditServes, StartQuiet, StartApiServes, Zenon DEF Operator
<1>4. CASE UNCHANGED vars
  <2>1. UNCHANGED <<json, index, job, store, crashes>> /\ UNCHANGED <<api, store>>
    BY <1>4 DEF vars
  <2>2. Served'
    BY <2>1, ApiKept DEF ServeInv
  <2>. QED
    BY <2>1, <2>2, Beside
<1>. QED
  BY <1>1, <1>2, <1>3, <1>4, StartQuiet, CrashServes, PublishServes, Zenon DEF Next, JobStep

\* An API process never searches a mixture of two ingestions, as long as no more
\* than one job was interrupted, or whatever was interrupted if the store is the
\* database, which gets both collections at once; backfills only follow a job that
\* completed.  The second interruption is one too many for Chroma: the checks at the
\* start compare each collection with its file, and no file with another.
THEOREM OneInterruption ==
  ASSUME BackfillAfter \subseteq {"done"}
  PROVE  Spec => [](store = "pgvector" \/ crashes <= 1 => ServesOneIngestion)
<1>1. IngestInv /\ IngestInv' /\ ServeInv /\ [Next]_vars => ServeInv'
  BY NextServes
<1>2. Init => ServeInv
  BY InitServes
<1>3. ServeInv => (store = "pgvector" \/ crashes <= 1 => ServesOneIngestion)
  BY DEF ServeInv, Served
<1>. QED
  BY <1>1, <1>2, <1>3, Invariance, PTL DEF Spec
=============================================================================
