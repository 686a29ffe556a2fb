---------------------------- MODULE BlobStorage -----------------------------
(***************************************************************************)
(* Where artifacts lie: the paths under which datasets, feature sets and   *)
(* models are stored, in the cloud or on the local disk, how the readers   *)
(* of each resolve the path that a row names, and what a delete removes.   *)
(* A path is the sequence of its segments; in the cloud the first one is   *)
(* the container.  Steps of requests that interleave are in Datasets and   *)
(* ModelRegistry; here every operation is one step.                        *)
(***************************************************************************)
EXTENDS Integers, Sequences, FiniteSets, SequencesExt, Functions

CONSTANTS
  RawIds, MergeIds, SplitIds, FeatureIds,  \* artifact ids of the four stages
  ModelJobs,     \* training jobs that store a model
  MaxSaves,      \* bound: artifacts stored
  MaxSwitches    \* bound: restarts with the cloud configured or not

ASSUME BlobAssumption ==
  /\ MaxSaves \in Nat /\ MaxSwitches \in Nat
  /\ RawIds \cap MergeIds = {} /\ (RawIds \cup MergeIds) \cap SplitIds = {}
  /\ (RawIds \cup MergeIds) \cap (FeatureIds \cup ModelJobs) = {}

VARIABLE kept  \* the two stores, the rows that name paths, the configuration

blobVars == <<kept>>

-----------------------------------------------------------------------------
SplitHalves == {"train", "test"}
ModelParts == <<"model", "onnx", "preprocessor", "calibrator", "manifest">>

\* A dataset is named by the id of its stage and, of a split, the half.
StoredDatasets == {<<i>> : i \in RawIds \cup MergeIds} \cup (SplitIds \X SplitHalves)

\* blobs and disk map a path to the artifact and the part that lies there;
\* named: the rows of datasets and feature sets that are not deleted, with the
\* path; models: rows of the registry, by the job's try that stored them; gone,
\* stranded: history, what was removed, and in the cloud while it was not
\* configured.
EmptyStores ==
  [cloud |-> TRUE, blobs |-> <<>>, disk |-> <<>>, named |-> <<>>, models |-> <<>>,
   tries |-> [j \in ModelJobs |-> 0], gone |-> {}, stranded |-> {}, saves |-> 0, switches |-> 0]

\* A store with more files, which take the places of what lay there.
Put(store, files) ==
  [p \in DOMAIN store \cup DOMAIN files |-> IF p \in DOMAIN files THEN files[p] ELSE store[p]]
File(path, content) == [p \in {path} |-> content]
Without(store, paths) == Restrict(store, DOMAIN store \ paths)
Under(store, directory) == {p \in DOMAIN store : IsPrefix(directory, p)}

-----------------------------------------------------------------------------
(* Paths *)

\* Mutant: the local file of a half lies next to the other's.
SharedLocalPath(d) == <<"storage", "datasets", d[1], Last(d)>>

LocalPath(d) ==
  IF d[1] \in SplitIds THEN <<"storage", "datasets", d[1], d[2], "data">>
  ELSE <<"storage", "datasets", d[1], "data">>

CloudPath(d) ==
  IF d[1] \in RawIds THEN <<"datasets", "raw", d[1], "data">>
  ELSE IF d[1] \in MergeIds THEN <<"datasets", "merged", d[1], "v1.0", "data">>
  ELSE <<"datasets", "processed", d[1], d[2], "data">>

\* A merged dataset has two companions in the cloud.
CloudFiles(d) ==
  LET companions == IF d[1] \notin MergeIds THEN {}
                    ELSE {<<"datasets", "merged", d[1], "v1.0", n>> : n \in {"lineage", "merge_config"}}
  IN [p \in {CloudPath(d)} \cup companions |-> <<d, Last(p)>>]

FeatureKind(d) == IF Len(d) = 2 THEN d[2] ELSE "raw"
FeatureCloudPath(f, d) == <<"features", FeatureKind(d), f, "features">>
FeatureLocalPath(f, d) ==
  <<"storage", "features",
    IF Len(d) = 2 THEN "split" ELSE IF d[1] \in MergeIds THEN "merged" ELSE "raw", f, "features">>

ModelPath(j, cloud, part) == IF cloud THEN <<"models", j, part>> ELSE <<"storage", "models", j, part>>

FeatureContainer(path) == <<"features">> \o path

-----------------------------------------------------------------------------
(* Readers: what lies where the row's path leads, Missing or NameError     *)

Missing == <<>>
BlobAt(k, path) == IF k.cloud /\ path \in DOMAIN k.blobs THEN k.blobs[path] ELSE Missing

\* prepare_training_data, the training worker and the feature worker.
ReadDataset(k, path) == IF path \in DOMAIN k.disk THEN k.disk[path] ELSE BlobAt(k, path)

\* The planner of preprocessing never looks on the disk.
ReadForPlan(k, path) == BlobAt(k, path)

IsLocal(k, path) == path[1] = "storage" \/ path \in DOMAIN k.disk

\* A preview of a dataset shows the columns alone when the file is missing.
ReadForPreview(k, path) ==
  IF ~IsLocal(k, path) THEN BlobAt(k, path)
  ELSE IF path \in DOMAIN k.disk THEN k.disk[path] ELSE Missing

\* A download: the store that the URL leads to, which is signed without a look
\* at the blob.
UrlStore(k, path) ==
  IF IsLocal(k, path) THEN (IF path \in DOMAIN k.disk THEN k.disk ELSE <<>>)
  ELSE IF k.cloud THEN k.blobs ELSE <<>>

\* The worker that analyses knows the container.
ReadForAnalysis(k, path) ==
  IF path \in DOMAIN k.disk THEN k.disk[path] ELSE BlobAt(k, FeatureContainer(path))

\* The preview and the download of a feature set, in the cloud or on the disk,
\* come to a name that their file does not import before they look for a file.
NameError == <<"raised">>
ReadForPage(k, path) == NameError

\* With the cloud configured a model is read there only, and else on the disk
\* only, in the folder that the row's path names in either form.
ReadModel(k, path, part) ==
  LET folder == IF path[1] = "models" THEN <<"storage">> \o Front(path) ELSE Front(path)
      file == folder \o <<part>>
  IN IF k.cloud THEN BlobAt(k, Front(path) \o <<part>>)
     ELSE IF file \in DOMAIN k.disk THEN k.disk[file] ELSE Missing

-----------------------------------------------------------------------------
(* Operations *)

BlobInit == kept = EmptyStores

MaySave == kept.saves < MaxSaves

Fresh(id) == \A n \in kept.gone \cup DOMAIN kept.named : n[1] # id

\* Uploads and merges fall back to the disk when the cloud refuses.
KeepDataset(d, cloud) ==
  IF cloud
  THEN [kept EXCEPT !.blobs = Put(@, CloudFiles(d)), !.named = Put(@, File(d, CloudPath(d))), !.saves = @ + 1]
  ELSE [kept EXCEPT !.disk = Put(@, File(LocalPath(d), <<d, "data">>)),
                    !.named = Put(@, File(d, LocalPath(d))), !.saves = @ + 1]

SaveDataset(id) ==
  /\ MaySave /\ Fresh(id)
  /\ \E cloud \in BOOLEAN : (cloud => kept.cloud) /\ kept' = KeepDataset(<<id>>, cloud)

\* Splits never fall back.
SaveSplit(s) ==
  /\ MaySave /\ Fresh(s)
  /\ LET path(h) == IF kept.cloud THEN CloudPath(<<s, h>>) ELSE LocalPath(<<s, h>>)
         files(h) == File(path(h), <<<<s, h>>, "data">>)
         both(store) == Put(Put(store, files("train")), files("test"))
     IN kept' = [kept EXCEPT
          !.blobs = IF kept.cloud THEN both(@) ELSE @,
          !.disk = IF kept.cloud THEN @ ELSE both(@),
          !.named = Put(Put(@, File(<<s, "train">>, path("train"))), File(<<s, "test">>, path("test"))),
          !.saves = @ + 1]

\* Features go where their dataset lies.
SaveFeatures(f, d) ==
  /\ MaySave /\ Fresh(f) /\ d \in DOMAIN kept.named
  /\ LET local == kept.named[d] \in DOMAIN kept.disk
         path == IF local THEN FeatureLocalPath(f, d) ELSE FeatureCloudPath(f, d)
         files(p) == [q \in {p, Front(p) \o <<"transformer">>} |-> <<<<f>>, Last(q)>>]
     IN /\ ReadDataset(kept, kept.named[d]) # Missing
        /\ kept' = [kept EXCEPT
             !.disk = IF local THEN Put(@, files(path)) ELSE @,
             !.blobs = IF local THEN @ ELSE Put(@, files(FeatureContainer(path))),
             !.named = Put(@, File(<<f>>, path)), !.saves = @ + 1]

\* The parts in their order, without ONNX for a large model and without a
\* calibrator for an uncalibrated one; a try that is cut stores the first few
\* and no row.
SaveModel(j) ==
  /\ MaySave
  /\ \E left \in SUBSET {"onnx", "calibrator"}, upto \in 0..Len(ModelParts) :
       LET parts == ToSet(SubSeq(ModelParts, 1, upto)) \ left
           try == kept.tries[j] + 1
           files == [p \in {ModelPath(j, kept.cloud, n) : n \in parts} |-> <<<<j>>, Last(p), try>>]
           row == [job |-> j, try |-> try, cloud |-> kept.cloud, parts |-> parts,
                   path |-> ModelPath(j, kept.cloud, "model")]
       IN kept' = [kept EXCEPT
            !.blobs = IF kept.cloud THEN Put(@, files) ELSE @,
            !.disk = IF kept.cloud THEN @ ELSE Put(@, files),
            !.models = IF upto = Len(ModelParts) THEN Append(@, row) ELSE @,
            !.tries[j] = try, !.saves = @ + 1]

\* On the disk the file's folder goes with it; in the cloud the folder of a
\* merged dataset, else the file.  The row goes even if the cloud refuses.
RemoveDataset(d) ==
  /\ d \in DOMAIN kept.named /\ d \in StoredDatasets
  /\ LET path == kept.named[d]
         local == path[1] = "storage"
         doomed == IF path[2] = "merged" THEN Under(kept.blobs, SubSeq(path, 1, 4)) ELSE {path}
     IN kept' = [kept EXCEPT
          !.disk = IF local /\ path \in DOMAIN @ THEN Without(@, Under(@, Front(path))) ELSE @,
          !.blobs = IF local \/ ~kept.cloud THEN @ ELSE Without(@, doomed),
          !.named = Without(@, {d}), !.gone = @ \cup {d},
          !.stranded = IF local \/ kept.cloud THEN @ ELSE @ \cup {d}]

\* A path with a version segment would take its folder along; the model's and
\* the ONNX file's have none.  The disk is never looked at.
RemoveModel(n) ==
  /\ n \in DOMAIN kept.models
  /\ LET row == kept.models[n]
         named == {Front(row.path) \o <<p>> : p \in row.parts \cap {"model", "onnx"}}
     IN kept' = [kept EXCEPT !.blobs = IF kept.cloud THEN Without(@, named) ELSE @,
                             !.models = RemoveAt(@, n), !.gone = @ \cup {<<row.job>>}]

\* A restart with or without the connection string.
Reconfigure ==
  /\ kept.switches < MaxSwitches
  /\ kept' = [kept EXCEPT !.cloud = ~@, !.switches = @ + 1]

BlobNext ==
  \/ \E id \in RawIds \cup MergeIds : SaveDataset(id)
  \/ \E s \in SplitIds : SaveSplit(s)
  \/ \E f \in FeatureIds, d \in StoredDatasets : SaveFeatures(f, d)
  \/ \E j \in ModelJobs : SaveModel(j)
  \/ \E d \in StoredDatasets : RemoveDataset(d)
  \/ \E n \in 1..MaxSaves : RemoveModel(n)
  \/ Reconfigure

BlobTypeOK ==
  /\ DOMAIN kept.named \subseteq StoredDatasets \cup {<<f>> : f \in FeatureIds}
  /\ kept.saves \in 0..MaxSaves /\ kept.switches \in 0..MaxSwitches
  /\ Len(kept.models) <= kept.saves

-----------------------------------------------------------------------------
(* Properties *)

Reachable(path) == path[1] = "storage" \/ kept.cloud

\* Every reader finds, under the path that a row names, the row's own artifact,
\* whatever else was stored and removed and though the cloud came and went
\* (where it is not needed); but the planner finds nothing on the disk, and the
\* pages that show or download features find none anywhere.
ReadersFindTheirs ==
  \A n \in DOMAIN kept.named :
    LET path == kept.named[n] IN
    Reachable(path) =>
      IF n \in StoredDatasets
      THEN /\ ReadDataset(kept, path) = <<n, "data">> /\ ReadForPreview(kept, path) = <<n, "data">>
           /\ ReadForPlan(kept, path) = IF IsLocal(kept, path) THEN Missing ELSE <<n, "data">>
           /\ UrlStore(kept, path)[path] = <<n, "data">>
      ELSE ReadForAnalysis(kept, path) = <<n, "features">>

\* A model is read whole in the configuration it was stored in, no part older
\* than the row, and newer only if its job was tried again; but removing one of
\* the rows that a job's tries registered removes the files of all.
ModelsAreWhole ==
  \A n \in DOMAIN kept.models :
    LET row == kept.models[n] IN
    row.cloud = kept.cloud =>
      \A part \in row.parts :
        LET file == ReadModel(kept, row.path, part) IN
        IF file = Missing THEN <<row.job>> \in kept.gone
        ELSE file[1] = <<row.job>> /\ file[2] = part /\ file[3] \in row.try..kept.tries[row.job]

\* A dataset that was removed leaves no file in either store, unless it lay in
\* the cloud and the cloud was not configured.
RemovalsAreWhole ==
  \A d \in (kept.gone \ kept.stranded) \cap StoredDatasets :
    \A store \in {kept.blobs, kept.disk} : \A p \in DOMAIN store : store[p][1] # d

\* Paths keep artifacts apart, for readers and for deletes.
BlobsStand == ReadersFindTheirs /\ ModelsAreWhole /\ RemovalsAreWhole
=============================================================================
