---------------------------- MODULE TrainingPage ----------------------------
(***************************************************************************)
(* The training page as one user's browser runs it: what the user picks,   *)
(* the list of jobs the page has fetched, the requests in flight, and the  *)
(* rows the API keeps.  Answers come in any order, and after the user has  *)
(* moved on.  The sets' own tasks are in FeatureSets, the splits in        *)
(* Datasets; the card of the selected set is in FeatureCard.               *)
(***************************************************************************)
EXTENDS Integers, Sequences

CONSTANTS
  RawData,      \* datasets that can be split
  NoRaw,        \* no dataset
  MaxSplitJobs, \* bound: split jobs
  MaxPageSets,  \* bound: feature sets
  MaxVisits     \* bound: times the page is loaded

ASSUME PageAssumption ==
  /\ NoRaw \notin RawData
  /\ MaxSplitJobs \in Nat /\ MaxPageSets \in Nat
  /\ MaxVisits \in Nat \ {0}

VARIABLES
  ui,      \* the page: what is selected and what is in flight
  stored   \* the API's split jobs and feature sets

pageVars == <<ui, stored>>

-----------------------------------------------------------------------------
SplitJobs == 1..Len(stored.splits)
PageSets == 1..Len(stored.sets)
NoJobRow == 0
NoSetRow == 0

\* Data split, features, training; the first step selects nothing for these.
Steps == 1..3

\* A dataset the page may name: a raw one, or the train split of a split job.
Table(d, s) == [raw |-> d, split |-> s]
NoTable == Table(NoRaw, NoJobRow)
Tables == [raw : RawData \cup {NoRaw}, split : 0..MaxSplitJobs]
NothingSent == [kind |-> "idle"]

\* History: the split is moved from under a set that stays selected.
Moved == IF ui.set = NoSetRow THEN ui.moved ELSE "split"

\* The page of an address that names step, dataset, split job and feature set.
\* History: under is the split the set was chosen under, moved why another may
\* be selected by now.
Opened(step, dataset, split, set, visit) ==
  [step |-> step, dataset |-> dataset, split |-> split, set |-> set, visit |-> visit,
   listed |-> {}, create |-> NothingSent, generate |-> NothingSent, under |-> split, moved |-> "none"]

\* The split job that the page finds in its own list of jobs, and the dataset
\* that features are computed of: its train split if found, else the raw one.
FoundSplit == IF ui.split \in ui.listed THEN ui.split ELSE NoJobRow
TargetDataset ==
  IF FoundSplit # NoJobRow THEN Table(stored.splits[FoundSplit].raw, FoundSplit)
  ELSE IF ui.dataset = NoRaw THEN NoTable ELSE Table(ui.dataset, NoJobRow)

\* The dataset of a training job: the other way round.
ResolvedDataset ==
  IF ui.dataset # NoRaw THEN Table(ui.dataset, NoJobRow) ELSE TargetDataset

-----------------------------------------------------------------------------
PageInit ==
  /\ ui = Opened(1, NoRaw, NoJobRow, NoSetRow, 1)
  /\ stored = [splits |-> <<>>, sets |-> <<>>]

\* The steps at the top lead to any step, whatever "Next" requires.
GoToStep ==
  /\ \E k \in Steps : k # ui.step /\ ui' = [ui EXCEPT !.step = k]
  /\ UNCHANGED stored

\* The list of jobs is fetched when the page opens and after a job changed.
JobsFetched ==
  /\ ui.listed # {s \in SplitJobs : stored.splits[s].there}
  /\ ui' = [ui EXCEPT !.listed = {s \in SplitJobs : stored.splits[s].there}]
  /\ UNCHANGED stored

PickDataset ==
  /\ ui.step = 1
  /\ \E d \in RawData \ {ui.dataset} : ui' = [ui EXCEPT !.dataset = d]
  /\ UNCHANGED stored

\* Mutant: the feature set stays.
PickedOnly(s) == [ui EXCEPT !.split = s]

\* A split picked by hand is another basis: the feature set is deselected.
Picked(s) == [ui EXCEPT !.split = s, !.set = NoSetRow]

PickSplit ==
  /\ ui.step = 1
  /\ \E s \in ui.listed \ {ui.split} : ui' = Picked(s)
  /\ UNCHANGED stored

RequestSplit ==
  /\ ui.step = 1 /\ ui.dataset # NoRaw /\ ui.create = NothingSent
  /\ Len(stored.splits) < MaxSplitJobs
  /\ ui' = [ui EXCEPT !.create = [kind |-> "split", raw |-> ui.dataset]]
  /\ UNCHANGED stored

\* The API has split the data: the new job is selected wherever the user is by
\* then, before the list holds it, and the feature set stays.
SplitAnswered ==
  /\ ui.create.kind = "split"
  /\ stored' = [stored EXCEPT !.splits = Append(@, [raw |-> ui.create.raw, there |-> TRUE])]
  /\ ui' = [ui EXCEPT !.create = NothingSent, !.split = Len(stored.splits) + 1, !.moved = Moved]

\* A refused request leaves the page as it was.
RequestRefused ==
  /\ \/ ui.create # NothingSent /\ ui' = [ui EXCEPT !.create = NothingSent]
     \/ ui.generate.kind = "sent" /\ ui' = [ui EXCEPT !.generate = NothingSent]
  /\ UNCHANGED stored

\* The split job of the selection is deselected with its deletion, its set is not.
DeleteSplit ==
  /\ ui.step = 1
  /\ \E s \in ui.listed :
       /\ stored.splits[s].there
       /\ stored' = [stored EXCEPT !.splits[s].there = FALSE]
       /\ ui' = IF s = ui.split THEN [ui EXCEPT !.split = NoJobRow, !.moved = Moved] ELSE ui

-----------------------------------------------------------------------------
(* Feature sets *)

RequestFeatures ==
  /\ ui.step = 2 /\ ui.set = NoSetRow /\ ui.generate = NothingSent
  /\ TargetDataset # NoTable
  /\ ui' = [ui EXCEPT !.generate = [kind |-> "sent", of |-> TargetDataset, under |-> ui.split]]
  /\ UNCHANGED stored

Completed(i) == stored.sets[i].there /\ stored.sets[i].status = "completed"

\* The API answers with a set that is COMPLETED for the same data, or a new one.
FeaturesAccepted ==
  /\ ui.generate.kind = "sent"
  /\ LET same == {i \in PageSets : Completed(i) /\ stored.sets[i].of = ui.generate.of}
         new == [of |-> ui.generate.of, status |-> "computing", there |-> TRUE]
         Done(i) == [ui EXCEPT !.generate = [kind |-> "done", id |-> i, under |-> @.under]]
     IN \/ \E i \in same : ui' = Done(i) /\ UNCHANGED stored
        \/ /\ same = {} /\ Len(stored.sets) < MaxPageSets
           /\ stored' = [stored EXCEPT !.sets = Append(@, new)]
           /\ ui' = Done(Len(stored.sets) + 1)

\* The answer selects its set, whatever was selected in between.
FeaturesAnswered ==
  /\ ui.generate.kind = "done"
  /\ ui' = [ui EXCEPT !.generate = NothingSent, !.set = ui.generate.id, !.under = ui.generate.under,
                      !.moved = IF ui.generate.under = ui.split THEN "none" ELSE "late"]
  /\ UNCHANGED stored

PickSet ==
  /\ ui.step = 2
  /\ \E i \in PageSets \ {ui.set} :
       /\ Completed(i) /\ stored.sets[i].of = TargetDataset
       /\ ui' = [ui EXCEPT !.set = i, !.under = ui.split, !.moved = "none"]
  /\ UNCHANGED stored

\* From the registry, where the selection stays, or to configure anew.
DeleteSet ==
  /\ ui.step = 2
  /\ \E i \in PageSets, u \in {ui, [ui EXCEPT !.set = NoSetRow]} :
       /\ stored.sets[i].there
       /\ u # ui => i = ui.set
       /\ u = ui => stored.sets[i].of = TargetDataset
       /\ stored' = [stored EXCEPT !.sets[i].there = FALSE]
       /\ ui' = u

SetComputed ==
  /\ \E i \in PageSets, s \in {"completed", "failed"} :
       /\ stored.sets[i].there /\ stored.sets[i].status = "computing"
       /\ stored' = [stored EXCEPT !.sets[i].status = s]
  /\ UNCHANGED ui

-----------------------------------------------------------------------------
(* Training, and the page opened again *)

StartTraining ==
  /\ ui.step = 3 /\ ui.create = NothingSent
  /\ ResolvedDataset # NoTable /\ ui.set # NoSetRow
  /\ ui' = [ui EXCEPT !.create = [kind |-> "train", of |-> ResolvedDataset, set |-> ui.set]]
  /\ UNCHANGED stored

\* Accepted, the page goes to the jobs; the user comes back to an empty one.
TrainingAccepted ==
  /\ ui.create.kind = "train" /\ ui.visit < MaxVisits
  /\ ui' = Opened(1, NoRaw, NoJobRow, NoSetRow, ui.visit + 1)
  /\ UNCHANGED stored

\* Selections come back from the address; lists, copies and requests do not.
ReloadPage ==
  /\ ui.visit < MaxVisits
  /\ ui' = [Opened(ui.step, ui.dataset, ui.split, ui.set, ui.visit + 1)
              EXCEPT !.under = ui.under, !.moved = ui.moved]
  /\ UNCHANGED stored

PageNext ==
  \/ GoToStep \/ JobsFetched \/ PickDataset \/ PickSplit \/ RequestSplit \/ SplitAnswered
  \/ RequestRefused \/ DeleteSplit \/ RequestFeatures \/ FeaturesAccepted \/ FeaturesAnswered
  \/ PickSet \/ DeleteSet \/ SetComputed \/ StartTraining \/ TrainingAccepted \/ ReloadPage

PageTypeOK ==
  /\ ui.step \in Steps /\ ui.dataset \in RawData \cup {NoRaw} /\ ui.visit \in 1..MaxVisits
  /\ ui.split \in 0..Len(stored.splits) /\ ui.set \in 0..Len(stored.sets)
  /\ ui.listed \subseteq SplitJobs
  /\ \A i \in PageSets : stored.sets[i].of \in Tables

-----------------------------------------------------------------------------
\* The features that are selected were chosen under the split that is selected,
\* unless a split's answer or deletion moved the selection under them, or their
\* own answer came after another split was picked.
FeaturesFollowSplit ==
  ui.set # NoSetRow /\ ui.under # ui.split => ui.moved # "none"
=============================================================================
