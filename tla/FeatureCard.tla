----------------------------- MODULE FeatureCard -----------------------------
(***************************************************************************)
(* FeatureAnalysisCard: it polls the feature set it shows and has it       *)
(* analysed when it has no scores.  The page shows another set in the same *)
(* card, or unmounts it, with a request in flight.  What the card previews *)
(* is left out: the API answers no preview (BlobStorage!ReadForPage).      *)
(***************************************************************************)
EXTENDS Integers

CONSTANTS
  CardSets,     \* feature sets the page shows
  NoCardSet,    \* no set
  MaxRefusals   \* bound: requests of one card that are refused

ASSUME CardAssumption == NoCardSet \notin CardSets /\ MaxRefusals \in Nat

VARIABLES
  card,     \* the state of the card, and the set the page shows in it
  copies,   \* the query cache's copy of each set, which outlives the card
  results   \* what the worker made of each set; other cards ask for analyses too

cardVars == <<card, copies, results>>

-----------------------------------------------------------------------------
\* "bare" is COMPLETED without scores, "error" the same and "failed" FAILED, with
\* an error in the report; for "over" (scores, or FAILED without a report) there
\* is nothing to ask for.  A copy that has not come is as one of a set that is
\* computed.
Statuses == {"computing", "bare", "error", "failed", "over"}
WithoutScores == {"bare", "error"}

\* pending: a request for an analysis is in flight; tab: another tab is open than
\* the report's.  History of the card: own, the analyses that it asked for by
\* itself, and refused, the requests that were refused, its own and the button's.
Mounted(set) ==
  [shown |-> set, triggered |-> FALSE, pending |-> FALSE, tab |-> FALSE,
   own |-> 0, refused |-> 0]

CardInit ==
  /\ card = Mounted(NoCardSet)
  /\ copies = [s \in CardSets |-> "computing"]
  /\ results = [s \in CardSets |-> "computing"]

\* The page selects a set, or none, or goes to another step.  With another set
\* the card stays, and the trigger is not given back.
ShowSet ==
  /\ \E set \in (CardSets \cup {NoCardSet}) \ {card.shown} :
       card' = IF NoCardSet \in {set, card.shown} THEN Mounted(set) ELSE [card EXCEPT !.shown = set]
  /\ UNCHANGED <<copies, results>>

\* Each second while the copy tells of no end; the button asks at any time.
Poll ==
  /\ card.shown # NoCardSet
  /\ copies' = [copies EXCEPT ![card.shown] = results[card.shown]]
  /\ UNCHANGED <<card, results>>

\* Whether the effect may ask for an analysis.
MayTrigger == ~card.triggered /\ ~card.pending

\* A copy that is COMPLETED without scores is analysed at once, the first time.
TriggerAnalysis ==
  /\ card.shown # NoCardSet /\ copies[card.shown] \in WithoutScores /\ MayTrigger
  /\ card' = [card EXCEPT !.triggered = TRUE, !.pending = TRUE, !.own = @ + 1]
  /\ UNCHANGED <<copies, results>>

\* A report with an error offers a button in its own tab, which uses no trigger.
RetryAnalysis ==
  /\ card.shown # NoCardSet /\ copies[card.shown] \in {"error", "failed"}
  /\ ~card.pending /\ ~card.tab
  /\ card' = [card EXCEPT !.pending = TRUE]
  /\ UNCHANGED <<copies, results>>

\* The API queues the analysis, or the request fails, and the trigger is given
\* back, whichever of the two had asked and whatever set is shown by then.
AnalysisAnswered ==
  /\ card.pending
  /\ \/ card' = [card EXCEPT !.pending = FALSE]
     \/ /\ card.refused < MaxRefusals
        /\ card' = [card EXCEPT !.pending = FALSE, !.triggered = FALSE, !.refused = @ + 1]
  /\ UNCHANGED <<copies, results>>

ToggleTab ==
  /\ card.shown # NoCardSet
  /\ card' = [card EXCEPT !.tab = ~@]
  /\ UNCHANGED <<copies, results>>

\* The worker ends a computation, or an analysis.
SetEnds ==
  /\ \E s \in CardSets :
       \/ /\ results[s] = "computing"
          /\ \E end \in {"bare", "over"} : results' = [results EXCEPT ![s] = end]
       \/ /\ results[s] \in WithoutScores
          /\ \E end \in {"error", "failed", "over"} : results' = [results EXCEPT ![s] = end]
       \/ results[s] = "failed" /\ results' = [results EXCEPT ![s] = "over"]
  /\ UNCHANGED <<card, copies>>

CardNext ==
  \/ ShowSet \/ Poll \/ TriggerAnalysis \/ RetryAnalysis \/ AnalysisAnswered
  \/ ToggleTab \/ SetEnds

CardTypeOK ==
  /\ card.shown \in CardSets \cup {NoCardSet}
  /\ card.own \in 0..MaxRefusals + 1 /\ card.refused \in 0..MaxRefusals
  /\ copies \in [CardSets -> Statuses]
  /\ results \in [CardSets -> Statuses]

-----------------------------------------------------------------------------
\* In its life a card asks by itself for one analysis, and for one more after
\* each request of its own or of the button that was refused, whatever sets it
\* was made to show: so two of its own may be accepted, when the button's was not.
AnalysedOnce == card.own <= 1 + card.refused
=============================================================================
