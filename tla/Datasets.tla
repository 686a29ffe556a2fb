------------------------------ MODULE Datasets ------------------------------
(***************************************************************************)
(* Datasets: rows of the database and files of the blob store or the local *)
(* disk, written in separate steps by uploads, train/test splits, merges   *)
(* and deletes, each a request that may be cut between two of its steps.   *)
(* Requests are named after the dataset they make: an upload one row, a    *)
(* split two, a merge one row and a lineage row per source.                *)
(***************************************************************************)
EXTENDS FiniteSets

CONSTANTS
  Uploads, Splits, Merges,   \* the requests that make datasets
  Deletes,                   \* delete requests open at a time
  SplitPlace,                \* where the environment puts splits
  NoDataset

Halves == {"train", "test"}

ASSUME DatasetsAssumption ==
  /\ NoDataset \notin Uploads \cup Merges \cup (Splits \X Halves)
  /\ Uploads \cap Merges = {} /\ Splits \cap (Uploads \cup Merges) = {}
  /\ (Splits \X Halves) \cap (Uploads \cup Merges) = {}
  /\ SplitPlace \in {"cloud", "local"}

VARIABLES
  rows,      \* each dataset: "none", "PROCESSING", "ACTIVE" or "removed"
  files,     \* <<dataset, place>>
  where,     \* the place each row's storage_path names
  makes,     \* each making request: its next step and its sources
  lineage,   \* <<merged dataset, source>>
  deleting,  \* each delete request: its next step and the dataset it read
  doomed,    \* history: datasets whose delete began
  cut        \* history: merges that stopped between their two commits

dataVars == <<rows, files, where, makes, lineage, deleting, doomed, cut>>

-----------------------------------------------------------------------------
Half(j, h) == <<j, h>>
DatasetIds == Uploads \cup Merges \cup (Splits \X Halves)
Makers == Uploads \cup Splits \cup Merges
Places == {"pending", "cloud", "local"}
Active == {d \in DatasetIds : rows[d] = "ACTIVE"}

NotMade == [pc |-> "new", from |-> {}]

DataTypeOK ==
  /\ rows \in [DatasetIds -> {"none", "PROCESSING", "ACTIVE", "removed"}]
  /\ files \subseteq DatasetIds \X {"cloud", "local"}
  /\ where \in [DatasetIds -> Places]
  /\ \A j \in Makers : makes[j].pc \in {"new", "upload", "second", "rows", "lineage", "over"}
  /\ lineage \subseteq Merges \X DatasetIds
  /\ deleting \in [Deletes -> [pc : {"idle", "file", "rows"},
                           of : DatasetIds \cup {NoDataset}, at : Places]]
  /\ doomed \subseteq DatasetIds /\ cut \subseteq Merges

NoDelete == [pc |-> "idle", of |-> NoDataset, at |-> "pending"]

DataInit ==
  /\ rows = [d \in DatasetIds |-> "none"] /\ files = {}
  /\ where = [d \in DatasetIds |-> "pending"]
  /\ makes = [j \in Makers |-> NotMade] /\ lineage = {}
  /\ deleting = [r \in Deletes |-> NoDelete]
  /\ doomed = {} /\ cut = {}

At(j, pc) == makes[j].pc = pc
GoTo(j, pc) == makes' = [makes EXCEPT ![j].pc = pc]

SetRow(d, place) ==
  /\ rows' = [rows EXCEPT ![d] = "ACTIVE"]
  /\ where' = [where EXCEPT ![d] = place]

-----------------------------------------------------------------------------
(* create_dataset *)

\* Mutant: the storage path of the row in place of its status.
InsertedUnnamed == "pending"

Inserted == "PROCESSING"

\* The row is visible before the file is stored.
InsertUpload(d) ==
  /\ d \in Uploads /\ At(d, "new") /\ GoTo(d, "upload")
  /\ rows' = [rows EXCEPT ![d] = Inserted]
  /\ UNCHANGED <<files, where, lineage, deleting, doomed, cut>>

\* To the cloud, or if the upload or the commit after it fails to the local
\* disk, then the row.  If the row is gone the commit fails, which falls back to
\* the local disk too and fails again: both files stay.
StoreUpload(d) ==
  /\ d \in Uploads /\ At(d, "upload") /\ GoTo(d, "over")
  /\ \/ /\ rows[d] = "PROCESSING"
        /\ \E places \in (SUBSET {"cloud", "local"}) \ {{}} :
             /\ files' = files \cup ({d} \X places)
             /\ SetRow(d, IF "local" \in places THEN "local" ELSE "cloud")
     \/ /\ rows[d] = "removed" /\ UNCHANGED <<rows, where>>
        /\ \E cloud \in SUBSET {"cloud"} : files' = files \cup ({d} \X (cloud \cup {"local"}))
  /\ UNCHANGED <<lineage, deleting, doomed, cut>>

\* Neither place takes the file, or the request is cut, before or after a file is
\* stored: the row stays PROCESSING.
LoseUpload(d) ==
  /\ d \in Uploads /\ At(d, "upload") /\ GoTo(d, "over")
  /\ \E places \in SUBSET {"cloud", "local"} : files' = files \cup ({d} \X places)
  /\ UNCHANGED <<rows, where, lineage, deleting, doomed, cut>>

-----------------------------------------------------------------------------
(* prepare: the source's file is read, then the two halves are stored, then
   both rows are committed. *)

Stored(d) == <<d, where[d]>> \in files

StartSplit(j, d) ==
  /\ j \in Splits /\ At(j, "new") /\ d \in Active /\ Stored(d)
  /\ makes' = [makes EXCEPT ![j] = [pc |-> "upload", from |-> {d}]]
  /\ UNCHANGED <<rows, files, where, lineage, deleting, doomed, cut>>

\* Where splits go is decided by the configuration, never by a failure.
StoreHalf(j) ==
  \E h \in Halves :
    /\ j \in Splits /\ At(j, IF h = "train" THEN "upload" ELSE "second")
    /\ files' = files \cup {<<Half(j, h), SplitPlace>>}
    /\ GoTo(j, IF h = "train" THEN "second" ELSE "rows")
    /\ UNCHANGED <<rows, where, lineage, deleting, doomed, cut>>

CommitSplit(j) ==
  /\ j \in Splits /\ At(j, "rows") /\ GoTo(j, "over")
  /\ LET made == {Half(j, h) : h \in Halves}
     IN /\ rows' = [d \in DatasetIds |-> IF d \in made THEN "ACTIVE" ELSE rows[d]]
        /\ where' = [d \in DatasetIds |-> IF d \in made THEN SplitPlace ELSE where[d]]
  /\ UNCHANGED <<files, lineage, deleting, doomed, cut>>

-----------------------------------------------------------------------------
(* merge_datasets: the sources' files are read, the merged file is stored, the
   row is committed, and the lineage rows in a second commit. *)

StartMerge(m, from) ==
  /\ m \in Merges /\ At(m, "new") /\ from \subseteq Active /\ \A d \in from : Stored(d)
  /\ makes' = [makes EXCEPT ![m] = [pc |-> "upload", from |-> from]]
  /\ UNCHANGED <<rows, files, where, lineage, deleting, doomed, cut>>

StoreMerged(m, place) ==
  /\ m \in Merges /\ At(m, "upload") /\ GoTo(m, "rows")
  /\ files' = files \cup {<<m, place>>} /\ where' = [where EXCEPT ![m] = place]
  /\ UNCHANGED <<rows, lineage, deleting, doomed, cut>>

CommitMerged(m) ==
  /\ m \in Merges /\ At(m, "rows") /\ GoTo(m, "lineage")
  /\ rows' = [rows EXCEPT ![m] = "ACTIVE"]
  /\ UNCHANGED <<files, where, lineage, deleting, doomed, cut>>

\* Mutant: only one source is recorded.
OneSource(m) == {CHOOSE d \in makes[m].from : TRUE}

Recorded(m) == makes[m].from

\* All the rows or, if one of the datasets is gone (foreign keys), none.
CommitLineage(m) ==
  /\ m \in Merges /\ At(m, "lineage") /\ GoTo(m, "over")
  /\ lineage' = IF \A d \in Recorded(m) \cup {m} : rows[d] = "ACTIVE"
                THEN lineage \cup ({m} \X Recorded(m)) ELSE lineage
  /\ UNCHANGED <<rows, files, where, deleting, doomed, cut>>

\* A split or a merge raises, or is cut, between two of its steps.
StopMaking(j) ==
  /\ j \in Splits \cup Merges /\ ~At(j, "new") /\ ~At(j, "over") /\ GoTo(j, "over")
  /\ cut' = IF At(j, "lineage") THEN cut \cup {j} ELSE cut
  /\ UNCHANGED <<rows, files, where, lineage, deleting, doomed>>

-----------------------------------------------------------------------------
(* delete_dataset *)

StartDelete(r, d) ==
  /\ deleting[r].pc = "idle" /\ rows[d] \in {"PROCESSING", "ACTIVE"}
  /\ deleting' = [deleting EXCEPT ![r] = [pc |-> "file", of |-> d, at |-> where[d]]]
  /\ doomed' = doomed \cup {d}
  /\ UNCHANGED <<rows, files, where, makes, lineage, cut>>

\* The file the row named when it was read; a failure is passed over.  The path
\* of a PROCESSING row names no file.
DeleteFile(r) ==
  /\ deleting[r].pc = "file"
  /\ deleting' = [deleting EXCEPT ![r].pc = "rows"]
  /\ files' \in {files, files \ {<<deleting[r].of, deleting[r].at>>}}
  /\ UNCHANGED <<rows, where, makes, lineage, doomed, cut>>

\* Feature sets, training jobs and lineage go with the row, in one transaction
\* (once more by _force_remove_dataset_by_id if it fails).
DeleteRows(r) ==
  LET d == deleting[r].of IN
  /\ deleting[r].pc = "rows"
  /\ deleting' = [deleting EXCEPT ![r] = NoDelete]
  /\ rows' = [rows EXCEPT ![d] = "removed"]
  /\ lineage' = {l \in lineage : d # l[1] /\ d # l[2]}
  /\ UNCHANGED <<files, where, makes, doomed, cut>>

StopDelete(r) ==
  /\ deleting[r].pc # "idle"
  /\ deleting' = [deleting EXCEPT ![r] = NoDelete]
  /\ UNCHANGED <<rows, files, where, makes, lineage, doomed, cut>>

DataNext ==
  \/ \E d \in Uploads : InsertUpload(d) \/ StoreUpload(d) \/ LoseUpload(d)
  \/ \E j \in Splits :
       \/ \E d \in DatasetIds : StartSplit(j, d)
       \/ StoreHalf(j) \/ CommitSplit(j)
  \/ \E m \in Merges :
       \/ \E from \in SUBSET Active : Cardinality(from) = 2 /\ StartMerge(m, from)
       \/ \E place \in {"cloud", "local"} : StoreMerged(m, place)
       \/ CommitMerged(m) \/ CommitLineage(m)
  \/ \E j \in Splits \cup Merges : StopMaking(j)
  \/ \E r \in Deletes :
       \/ \E d \in DatasetIds : StartDelete(r, d)
       \/ DeleteFile(r) \/ DeleteRows(r) \/ StopDelete(r)

-----------------------------------------------------------------------------
(* Properties *)

\* A dataset offered to the other components has its file, at the place its row
\* names, however uploads, fallbacks, splits, merges and cuts interleave, unless
\* a delete of it was begun (create_dataset, prepare, merge_datasets).
ActiveIsStored == \A d \in Active : d \in doomed \/ Stored(d)

\* A merged dataset knows every source, unless its request was cut between its
\* two commits or a delete of a dataset it involves was begun: one source gone
\* while the merge ran loses the lineage to the others as well
\* (merge_datasets).
LineageOrGone ==
  \A m \in Merges :
    At(m, "over") /\ rows[m] = "ACTIVE" /\ m \notin cut
      => {m} \X makes[m].from \subseteq lineage \/ makes[m].from \cap doomed # {}

\* Datasets and their lineage stand as requests left them.
DatasetsStand == ActiveIsStored /\ LineageOrGone
=============================================================================
