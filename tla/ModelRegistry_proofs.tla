------------------------ MODULE ModelRegistry_proofs ------------------------
(* Proofs about ModelRegistry for any jobs, models and requests. *)
EXTENDS ModelRegistry, FiniteSetTheorems, TLAPS

(***************************************************************************)
(* Type correctness, one step per action.                                  *)
(***************************************************************************)

\* Every step keeps the tables and the sessions of the requests well typed.
LEMMA TypeStep == TypeOK /\ [Next]_vars => TypeOK'
<1> SUFFICES ASSUME TypeOK, [Next]_vars PROVE TypeOK'
  OBVIOUS
<1> USE DEF TypeOK, Targets, Idle, Resting, tables
<1>1. ASSUME NEW j \in Jobs, Upload(j) PROVE TypeOK'
  BY <1>1 DEF Upload
<1>2. ASSUME NEW j \in Jobs, DeleteJob(j) PROVE TypeOK'
  BY <1>2 DEF DeleteJob
<1>3. ASSUME NEW m \in Models, Register(m) PROVE TypeOK'
  <2>1. Cardinality(Rows) \in Nat
    BY ModelsAssumption, FS_Subset, FS_CardinalityType DEF Rows
  <2>2. version' \in [Models -> Nat]
    BY <1>3, <2>1 DEF Register
  <2> QED
    BY <1>3, <2>2 DEF Register
<1>4. CASE Link
  BY <1>4 DEF Link, Rows
<1>5. CASE Abandon
  BY <1>5 DEF Abandon
<1>6. ASSUME NEW r \in Requests, NEW m \in Models, NEW target \in Targets,
             StartPromote(r, m, target)
      PROVE  TypeOK'
  BY <1>6 DEF StartPromote, Sessions
<1>7. ASSUME NEW r \in Requests, NEW m \in Models, StartDelete(r, m) PROVE TypeOK'
  BY <1>7 DEF StartDelete, Sessions
<1>8. ASSUME NEW r \in Requests, ReadProduction(r) PROVE TypeOK'
  <2>1. req[r] \in Sessions /\ req[r].model \in Models /\ req[r].target \in Targets
    BY <1>8 DEF ReadProduction
  <2>2. ASSUME NEW m \in Models \cup {NoModel},
               req' = [req EXCEPT ![r].pc = "commit", ![r].current = m]
        PROVE  TypeOK'
    <3> DEFINE q == [req[r] EXCEPT !.pc = "commit", !.current = m]
    <3>1. q \in Sessions /\ q.model \in Models /\ q.target \in Targets
      BY <2>1 DEF Sessions
    <3>2. req' = [req EXCEPT ![r] = q]
      BY <2>2
    <3> HIDE DEF q
    <3> QED
      BY <1>8, <3>1, <3>2 DEF ReadProduction
  <2>3. CASE req' = [req EXCEPT ![r].pc = "commit"]
    <3> DEFINE q == [req[r] EXCEPT !.pc = "commit"]
    <3>1. q \in Sessions /\ q.model \in Models /\ q.target \in Targets
      BY <2>1 DEF Sessions
    <3>2. req' = [req EXCEPT ![r] = q]
      BY <2>3
    <3> HIDE DEF q
    <3> QED
      BY <1>8, <3>1, <3>2 DEF ReadProduction
  <2>4. CASE req' = [req EXCEPT ![r] = Idle]
    <3>1. Idle \in Sessions
      BY DEF Sessions
    <3> QED
      BY <1>8, <2>4, <3>1 DEF ReadProduction
  <2> QED
    BY <1>8, <2>2, <2>3, <2>4 DEF ReadProduction
<1>9. ASSUME NEW r \in Requests, CommitPromotion(r) PROVE TypeOK'
  <2> DEFINE q == req[r]
  <2>0. q.model \in Models /\ q.target \in Targets
    BY <1>9 DEF CommitPromotion
  <2>1. status' \in [Models -> Targets \cup {"ABSENT"}]
    <3>1. CASE {q.model, q.current} \subseteq Rows \cup {NoModel}
      <4>1. status' = [m \in Models |->
                         IF m = q.model /\ q.writes THEN q.target
                         ELSE IF m = q.current THEN "ARCHIVED" ELSE status[m]]
        BY <1>9, <3>1 DEF CommitPromotion
      <4> HIDE DEF q
      <4> QED
        BY <2>0, <4>1
    <3>2. CASE ~({q.model, q.current} \subseteq Rows \cup {NoModel})
      BY <1>9, <3>2 DEF CommitPromotion
    <3> QED
      BY <3>1, <3>2
  <2>2. races' \subseteq SUBSET Models
    <3>1. RacesAfter(r, q.model) \subseteq SUBSET Models
      BY <2>0 DEF RacesAfter
    <3> QED
      BY <1>9, <3>1 DEF CommitPromotion
  <2>3. Idle \in Sessions
    BY DEF Sessions
  <2> QED
    BY <1>9, <2>1, <2>2, <2>3 DEF CommitPromotion
<1>10. ASSUME NEW r \in Requests, DeleteBlobs(r) PROVE TypeOK'
  <2> DEFINE q == [req[r] EXCEPT !.pc = "row"]
  <2>1. q \in Sessions /\ q.model \in Models /\ q.pc = "row"
    BY <1>10 DEF DeleteBlobs, Sessions
  <2>2. req' = [req EXCEPT ![r] = q]
    BY <1>10 DEF DeleteBlobs
  <2>3. blobs' \subseteq Jobs
    BY <1>10 DEF DeleteBlobs
  <2> HIDE DEF q
  <2> QED
    BY <1>10, <2>1, <2>2, <2>3 DEF DeleteBlobs
<1>11. ASSUME NEW r \in Requests, DeleteRow(r) PROVE TypeOK'
  <2>1. Idle \in Sessions
    BY DEF Sessions
  <2>2. CASE \E j \in Jobs : linked[j] = req[r].model
    BY <1>11, <2>1, <2>2 DEF DeleteRow
  <2>3. CASE ~ \E j \in Jobs : linked[j] = req[r].model
    <3>1. status' \in [Models -> Targets \cup {"ABSENT"}] /\ version' \in [Models -> Nat]
      BY <1>11, <2>3 DEF DeleteRow
    <3> QED
      BY <1>11, <2>1, <2>3, <3>1 DEF DeleteRow
  <2> QED
    BY <2>2, <2>3
<1>12. CASE UNCHANGED vars
  BY <1>12 DEF vars
<1> QED
  BY <1>1, <1>2, <1>3, <1>4, <1>5, <1>6, <1>7, <1>8, <1>9, <1>10, <1>11, <1>12 DEF Next

(***************************************************************************)
(* Two models in PRODUCTION come from a race of their promotions.          *)
(***************************************************************************)

\* A step that puts no model in PRODUCTION, and after which no request has
\* newly read the current one, keeps the race invariant.
LEMMA NoNewProduction ==
  ASSUME SplitOnlyByRace, ReadCurrent, Production' \subseteq Production, races' = races,
         \A s \in Requests :
           \/ req'[s] = req[s]
           \/ /\ \A m \in Models : ~Promoting(s, m)'
              /\ req'[s].pc = "production" => req'[s].current = NoModel
  PROVE  SplitOnlyByRace' /\ ReadCurrent'
<1>1. SplitOnlyByRace'
  BY DEF SplitOnlyByRace
<1>2. ReadCurrent'
  BY DEF ReadCurrent, Promoting
<1> QED
  BY <1>1, <1>2

\* RacesAfter keeps each pair, old or new, of models that are in PRODUCTION
\* or about to be.
LEMMA RaceKept ==
  ASSUME NEW r \in Requests, NEW p, NEW m, NEW n,
         \/ {m, n} \in races
         \/ m # p /\ n = p /\ m \in Models /\ \E s \in Requests : Promoting(s, m),
         status'[n] = "PRODUCTION",
         status'[m] = "PRODUCTION" \/ \E s \in Requests \ {r} : Promoting(s, m)
  PROVE  {m, n} \in RacesAfter(r, p)
<1> DEFINE rivals == {x \in Models \ {p} : \E s \in Requests : Promoting(s, x)}
           before == races \cup {{p, x} : x \in rivals}
<1>1. {m, n} \in before
  <2>1. CASE {m, n} \in races
    BY <2>1
  <2>2. CASE m # p /\ n = p /\ m \in Models /\ \E s \in Requests : Promoting(s, m)
    <3>1. {p, m} \in {{p, x} : x \in rivals}
      BY <2>2
    <3>2. {m, n} = {p, m}
      BY <2>2
    <3> QED
      BY <3>1, <3>2
  <2> QED
    BY <2>1, <2>2
<1>2. \A x \in {m, n} :
        status'[x] = "PRODUCTION" \/ \E s \in Requests \ {r} : Promoting(s, x)
  OBVIOUS
<1> QED
  BY <1>1, <1>2 DEF RacesAfter

\* The commit of a promotion to PRODUCTION splits it only from models whose
\* promotions it raced with, and tells the promotions still under way.
LEMMA CommitRaces ==
  ASSUME TypeOK, SplitOnlyByRace, ReadCurrent,
         NEW r \in Requests, CommitPromotion(r), req[r].target = "PRODUCTION"
  PROVE  SplitOnlyByRace' /\ ReadCurrent'
<1> DEFINE p == req[r].model
           c == req[r].current
<1>1. Promoting(r, p) /\ p \in Models /\ races' = RacesAfter(r, p)
  BY DEF CommitPromotion, Promoting, TypeOK
<1>2. req' = [req EXCEPT ![r] = Idle]
  BY DEF CommitPromotion
<1>3. \A n \in Production' : n \in Models /\ status'[n] = "PRODUCTION"
  BY DEF Production
<1>4. Production' \subseteq Production \/ Production' \subseteq (Production \ {c}) \cup {p}
  <2>1. CASE {p, c} \subseteq Rows \cup {NoModel}
    <3>1. status' = [m \in Models |->
                       IF m = p /\ req[r].writes THEN req[r].target
                       ELSE IF m = c THEN "ARCHIVED" ELSE status[m]]
      BY <2>1 DEF CommitPromotion
    <3> HIDE DEF p, c
    <3> QED
      BY <3>1 DEF Production
  <2>2. CASE ~({p, c} \subseteq Rows \cup {NoModel})
    <3>1. status' = status
      BY <2>2 DEF CommitPromotion
    <3> QED
      BY <3>1 DEF Production
  <2> QED
    BY <2>1, <2>2
<1>5. SplitOnlyByRace'
  <2> SUFFICES ASSUME NEW m \in Production', NEW n \in Production', m # n
               PROVE  {m, n} \in races'
    BY DEF SplitOnlyByRace
  <2>1. {m, n} \in races
    <3>1. CASE m \in Production /\ n \in Production
      BY <3>1 DEF SplitOnlyByRace
    <3>2. CASE m \notin Production
      <4>1. m = p /\ n \in Production /\ n # c
        BY <1>4, <3>2
      <4> QED
        BY <4>1, <1>1, <1>3 DEF ReadCurrent
    <3>3. CASE n \notin Production
      <4>1. n = p /\ m \in Production /\ m # c
        BY <1>4, <3>3
      <4>2. {n, m} \in races
        BY <4>1, <1>1, <1>3 DEF ReadCurrent
      <4>3. {n, m} = {m, n}
        OBVIOUS
      <4> QED
        BY <4>2, <4>3
    <3> QED
      BY <3>1, <3>2, <3>3
  <2>2. {m, n} \in RacesAfter(r, p)
    BY <2>1, <1>3, RaceKept
  <2> QED
    BY <2>2, <1>1
<1>6. ReadCurrent'
  <2>1. ASSUME NEW s \in Requests, req'[s].pc = "production"
        PROVE  req'[s].current = NoModel
    BY <1>2, <2>1 DEF ReadCurrent, TypeOK, Idle
  <2>2. ASSUME NEW s \in Requests, NEW m \in Models, NEW n \in Models,
               Promoting(s, m)', n \in Production'
        PROVE  n \in {m, req'[s].current} \/ {m, n} \in races'
    <3>1. s # r /\ req'[s] = req[s] /\ Promoting(s, m)
      BY <1>2, <2>2 DEF TypeOK, Idle, Promoting
    <3>2. CASE n \in Production
      <4>1. n \in {m, req[s].current} \/ {m, n} \in races
        BY <3>1, <3>2 DEF ReadCurrent
      <4>2. {m, n} \in races => {m, n} \in RacesAfter(r, p)
        BY <1>3, <2>2, <3>1, RaceKept
      <4> QED
        BY <4>1, <4>2, <3>1, <1>1
    <3>3. CASE n \notin Production
      <4>1. n = p
        BY <1>4, <2>2, <3>3
      <4>2. m # p => {m, n} \in RacesAfter(r, p)
        BY <4>1, <1>3, <2>2, <3>1, RaceKept
      <4> QED
        BY <4>1, <4>2, <1>1
    <3> QED
      BY <3>2, <3>3
  <2> QED
    BY <2>1, <2>2 DEF ReadCurrent
<1> QED
  BY <1>5, <1>6

\* Every step keeps the race invariant.
LEMMA RaceStep ==
  TypeOK /\ SplitOnlyByRace /\ ReadCurrent /\ [Next]_vars => SplitOnlyByRace' /\ ReadCurrent'
<1> DEFINE Goal == SplitOnlyByRace' /\ ReadCurrent'
<1> SUFFICES ASSUME TypeOK, SplitOnlyByRace, ReadCurrent, [Next]_vars PROVE Goal
  OBVIOUS
<1>0. ASSUME Production' \subseteq Production, races' = races, req' = req PROVE Goal
  BY <1>0, NoNewProduction
<1>1. ASSUME status' = status PROVE Production' = Production
  BY <1>1 DEF Production
<1>2. ASSUME NEW r \in Requests, Production' \subseteq Production, races' = races,
             req' = [req EXCEPT ![r] = req'[r]],
             \A m \in Models : ~Promoting(r, m)',
             req'[r].pc = "production" => req'[r].current = NoModel
      PROVE  Goal
  <2>1. \A s \in Requests \ {r} : req'[s] = req[s]
    BY <1>2 DEF TypeOK
  <2> QED
    BY <1>2, <2>1, NoNewProduction
<1>3. CASE \/ \E j \in Jobs : Upload(j) \/ DeleteJob(j)
           \/ Link \/ Abandon \/ UNCHANGED vars
  BY <1>0, <1>1, <1>3 DEF Upload, DeleteJob, Link, Abandon, vars, tables
<1>4. ASSUME NEW m \in Models, Register(m) PROVE Goal
  BY <1>0, <1>4 DEF Register, Production, TypeOK
<1>5. ASSUME NEW r \in Requests, NEW m \in Models, NEW target \in Targets,
             StartPromote(r, m, target)
      PROVE  Goal
  <2>1. /\ req'[r].pc = IF target = "PRODUCTION" THEN "production" ELSE "commit"
        /\ req'[r].target = target /\ req'[r].current = NoModel
        /\ req' = [req EXCEPT ![r] = req'[r]]
    BY <1>5 DEF StartPromote, TypeOK, Idle
  <2>2. Production' \subseteq Production /\ races' = races
    BY <1>1, <1>5 DEF StartPromote, tables
  <2> QED
    BY <1>2, <2>1, <2>2 DEF Promoting
<1>6. ASSUME NEW r \in Requests, NEW m \in Models, StartDelete(r, m) PROVE Goal
  <2>1. req'[r].pc = "blobs" /\ req' = [req EXCEPT ![r] = req'[r]]
    BY <1>6 DEF StartDelete, TypeOK, Idle
  <2>2. Production' \subseteq Production /\ races' = races
    BY <1>1, <1>6 DEF StartDelete, tables
  <2> QED
    BY <1>2, <2>1, <2>2 DEF Promoting
<1>7. ASSUME NEW r \in Requests, DeleteBlobs(r) PROVE Goal
  <2>1. req'[r].pc = "row" /\ req' = [req EXCEPT ![r] = req'[r]]
    BY <1>7 DEF DeleteBlobs, TypeOK, Sessions
  <2>2. Production' \subseteq Production /\ races' = races
    BY <1>1, <1>7 DEF DeleteBlobs, tables
  <2> QED
    BY <1>2, <2>1, <2>2 DEF Promoting
<1>8. ASSUME NEW r \in Requests, DeleteRow(r) PROVE Goal
  <2>1. req'[r].pc = "idle" /\ req' = [req EXCEPT ![r] = req'[r]]
    BY <1>8 DEF DeleteRow, TypeOK, Idle
  <2>2. Production' \subseteq Production /\ races' = races
    BY <1>8 DEF DeleteRow, Production, TypeOK
  <2> QED
    BY <1>2, <2>1, <2>2 DEF Promoting
<1>9. ASSUME NEW r \in Requests, ReadProduction(r) PROVE Goal
  <2>1. Production' = Production /\ races' = races
    BY <1>1, <1>9 DEF ReadProduction, tables
  <2>2. \A s \in Requests \ {r} : req'[s] = req[s]
    BY <1>9 DEF ReadProduction, TypeOK
  <2>3. req'[r].pc # "production"
    BY <1>9 DEF ReadProduction, TypeOK, Sessions, Idle
  <2>4. ASSUME NEW m \in Models, NEW n \in Production, Promoting(r, m)'
        PROVE  n \in {m, req'[r].current}
    BY <1>9, <2>4 DEF ReadProduction, TypeOK, Sessions, Idle, Promoting
  <2>5. SplitOnlyByRace'
    BY <2>1 DEF SplitOnlyByRace
  <2>6. ReadCurrent'
    BY <2>1, <2>2, <2>3, <2>4 DEF ReadCurrent, Promoting
  <2> QED
    BY <2>5, <2>6
<1>10. ASSUME NEW r \in Requests, CommitPromotion(r) PROVE Goal
  <2>1. CASE req[r].target = "PRODUCTION"
    BY <1>10, <2>1, CommitRaces
  <2>2. CASE req[r].target # "PRODUCTION"
    <3>1. req'[r].pc = "idle" /\ req' = [req EXCEPT ![r] = req'[r]] /\ races' = races
      BY <1>10, <2>2 DEF CommitPromotion, TypeOK, Idle
    <3>2. Production' \subseteq Production
      BY <1>10, <2>2 DEF CommitPromotion, Production, TypeOK
    <3> QED
      BY <1>2, <3>1, <3>2 DEF Promoting
  <2> QED
    BY <2>1, <2>2
<1> QED
  BY <1>3, <1>4, <1>5, <1>6, <1>7, <1>8, <1>9, <1>10 DEF Next

(***************************************************************************)
(* A job's model_id resolves.                                              *)
(***************************************************************************)

\* A step that keeps the links, the rows that are there and their owners
\* keeps LinksResolve.
LEMMA LinksKept ==
  ASSUME LinksResolve, linked' = linked,
         \A j \in Jobs : linked[j] \in Rows =>
           linked[j] \in Rows' /\ owner'[linked[j]] = owner[linked[j]]
  PROVE  LinksResolve'
  BY DEF LinksResolve

\* Every step keeps the links.
LEMMA LinkStep == Linking /\ [Next]_vars => RegisteredForJob' /\ LinksResolve'
<1> DEFINE Goal == RegisteredForJob' /\ LinksResolve'
<1> SUFFICES ASSUME TypeOK, RegisteredForJob, LinksResolve, [Next]_vars PROVE Goal
  BY DEF Linking
<1>1. ASSUME NEW j \in Jobs, Upload(j) PROVE Goal
  BY <1>1, LinksKept DEF Upload, tables, Rows, RegisteredForJob, TypeOK
<1>2. ASSUME NEW j \in Jobs, DeleteJob(j) PROVE Goal
  BY <1>2 DEF DeleteJob, Rows, RegisteredForJob, LinksResolve, TypeOK
<1>3. ASSUME NEW m \in Models, Register(m) PROVE Goal
  <2>1. RegisteredForJob'
    BY <1>3 DEF Register, RegisteredForJob, TypeOK
  <2>2. \A j \in Jobs : linked[j] # NoModel => linked[j] # m
    BY <1>3, NullAssumption DEF Register, LinksResolve
  <2>3. ASSUME NEW n \in Rows, n # m PROVE n \in Rows' /\ owner'[n] = owner[n]
    BY <1>3, <2>3 DEF Register, Rows, TypeOK
  <2>4. linked' = linked /\ NoModel \notin Rows
    BY <1>3, NullAssumption DEF Register, Rows
  <2> QED
    BY <2>1, <2>2, <2>3, <2>4, LinksKept
<1>4. CASE Link
  <2>1. RegisteredForJob'
    BY <1>4 DEF Link, Resting, RegisteredForJob
  <2>2. CASE trainer.job \in jobs /\ trainer.model \in Rows
    <3>1. linked' = [linked EXCEPT ![trainer.job] = trainer.model]
      BY <1>4, <2>2 DEF Link
    <3>2. Rows' = Rows /\ owner' = owner /\ owner[trainer.model] = trainer.job
      BY <1>4 DEF Link, Rows, RegisteredForJob
    <3> QED
      BY <2>1, <2>2, <3>1, <3>2 DEF LinksResolve, TypeOK
  <2>3. CASE ~(trainer.job \in jobs /\ trainer.model \in Rows)
    BY <1>4, <2>1, <2>3, LinksKept DEF Link, Rows
  <2> QED
    BY <2>2, <2>3
<1>5. CASE Abandon
  BY <1>5, LinksKept DEF Abandon, tables, Rows, Resting, RegisteredForJob
<1>6. ASSUME linked' = linked, owner' = owner, trainer' = trainer,
             \A j \in Jobs : linked[j] \in Rows => linked[j] \in Rows'
      PROVE  Goal
  BY <1>6, LinksKept DEF RegisteredForJob
<1>7. ASSUME tables' = tables, trainer' = trainer PROVE Goal
  BY <1>6, <1>7 DEF tables, Rows
<1>8. ASSUME NEW r \in Requests, CommitPromotion(r) PROVE Goal
  <2> DEFINE q == req[r]
  <2>1. CASE {q.model, q.current} \subseteq Rows \cup {NoModel}
    <3>1. status' = [m \in Models |->
                       IF m = q.model /\ q.writes THEN q.target
                       ELSE IF m = q.current THEN "ARCHIVED" ELSE status[m]]
      BY <1>8, <2>1 DEF CommitPromotion
    <3>2. q.target # "ABSENT"
      BY <1>8 DEF CommitPromotion, TypeOK, Targets
    <3>3. Rows \subseteq Rows'
      <4> HIDE DEF q
      <4> QED
        BY <3>1, <3>2 DEF Rows
    <3> QED
      BY <1>6, <1>8, <3>3 DEF CommitPromotion
  <2>2. CASE ~({q.model, q.current} \subseteq Rows \cup {NoModel})
    <3>1. status' = status
      BY <1>8, <2>2 DEF CommitPromotion
    <3> QED
      BY <1>6, <1>8, <3>1 DEF CommitPromotion, Rows
  <2> QED
    BY <2>1, <2>2
<1>9. ASSUME NEW r \in Requests, DeleteRow(r) PROVE Goal
  <2>1. CASE \E j \in Jobs : linked[j] = req[r].model
    BY <1>6, <1>9, <2>1 DEF DeleteRow, Rows
  <2>2. CASE ~ \E j \in Jobs : linked[j] = req[r].model
    <3>1. \A m \in Rows : m # req[r].model => m \in Rows'
      BY <1>9, <2>2 DEF DeleteRow, Rows, TypeOK
    <3> QED
      BY <1>6, <1>9, <2>2, <3>1 DEF DeleteRow
  <2> QED
    BY <2>1, <2>2
<1>10. ASSUME NEW r \in Requests, NEW m \in Models, NEW target \in Targets,
              StartPromote(r, m, target)
       PROVE  Goal
  BY <1>7, <1>10 DEF StartPromote
<1>11. ASSUME NEW r \in Requests, NEW m \in Models, StartDelete(r, m) PROVE Goal
  BY <1>7, <1>11 DEF StartDelete
<1>12. ASSUME NEW r \in Requests, ReadProduction(r) \/ DeleteBlobs(r) PROVE Goal
  BY <1>7, <1>12 DEF ReadProduction, DeleteBlobs
<1>13. CASE UNCHANGED vars
  BY <1>7, <1>13 DEF vars
<1> HIDE DEF Goal
<1> QED
  BY <1>1, <1>2, <1>3, <1>4, <1>5, <1>8, <1>9, <1>10, <1>11, <1>12, <1>13 DEF Next

(***************************************************************************)
(* The theorems.                                                           *)
(***************************************************************************)

\* The initial tables are well typed, and nothing is in PRODUCTION.
LEMMA InductiveInit == Init => Inductive
<1> SUFFICES ASSUME Init PROVE Inductive
  OBVIOUS
<1>1. Production = {}
  BY DEF Init, Production
<1>2. Idle \in Sessions
  BY DEF Idle, Sessions
<1>3. TypeOK
  BY <1>2 DEF Init, TypeOK, Targets, Resting, Idle
<1> QED
  BY <1>1, <1>3 DEF Init, Inductive, SplitOnlyByRace, ReadCurrent, Idle

\* The tables and every session stay well typed, for any number of models
\* and of concurrent requests.
THEOREM TypeCorrect == Spec => []TypeOK
<1>1. Init => TypeOK
  BY InductiveInit DEF Inductive
<1> QED
  BY <1>1, TypeStep, PTL DEF Spec

\* The race invariant is inductive.
THEOREM InductiveInvariant == Spec => []Inductive
<1>1. Inductive /\ [Next]_vars => Inductive'
  BY TypeStep, RaceStep DEF Inductive
<1> QED
  BY <1>1, InductiveInit, PTL DEF Spec

\* However promotions, deletions and training interleave, two models are in
\* PRODUCTION together only after a race of their promotions.
THEOREM SplitNeedsRace == Spec => []SplitOnlyByRace
<1>1. Inductive => SplitOnlyByRace
  BY DEF Inductive
<1> QED
  BY <1>1, InductiveInvariant, PTL

\* Whatever is deleted while the worker is between its commits, a job's
\* model_id names a model that is there and was trained by that job.
THEOREM LinksAlwaysResolve == Spec => []LinksResolve
<1>1. Init => Linking
  BY InductiveInit DEF Init, Inductive, Linking, RegisteredForJob, LinksResolve, Resting
<1>2. Linking /\ [Next]_vars => Linking'
  BY TypeStep, LinkStep DEF Linking
<1>3. Linking => LinksResolve
  BY DEF Linking
<1> QED
  BY <1>1, <1>2, <1>3, PTL DEF Spec

(***************************************************************************)
(* Versions are counts of rows: while no row was deleted, each is smaller  *)
(* than the number of rows, which the next version will be.                *)
(***************************************************************************)

\* A row has an owner; a version is below the number of rows.
Owned == \A m \in Rows : owner[m] # NoJob
Counted == ~deleted => \A m \in Rows : version[m] < Cardinality(Rows)
Numbered == TypeOK /\ Owned /\ Counted /\ VersionsDistinct

\* Rows is a finite set, and its cardinality a number.
LEMMA RowsFinite == IsFiniteSet(Rows) /\ Cardinality(Rows) \in Nat
BY ModelsAssumption, FS_Subset, FS_CardinalityType DEF Rows

\* A step that leaves the rows, their owners and their versions, or deletes one.
LEMMA NumbersKept ==
  ASSUME Numbered, Rows' = Rows, UNCHANGED version, deleted' = deleted \/ deleted' = TRUE,
         UNCHANGED owner
  PROVE Owned' /\ Counted' /\ VersionsDistinct'
<1>1. Owned'
  BY DEF Numbered, Owned
<1>2. CASE deleted'
  BY <1>1, <1>2, Zenon DEF Counted, VersionsDistinct
<1>3. CASE ~deleted'
  <2>1. ~deleted
    BY <1>3, Zenon
  <2>2. \A m \in Rows : version[m] < Cardinality(Rows)
    BY <2>1, Zenon DEF Numbered, Counted
  <2>3. \A m, n \in Rows : m # n => version[m] # version[n]
    BY <2>1, Zenon DEF Numbered, VersionsDistinct
  <2>4. (\A m \in Rows : version[m] < Cardinality(Rows))'
    BY <2>2
  <2>5. (\A m, n \in Rows : m # n => version[m] # version[n])'
    BY <2>3
  <2> QED
    BY <1>1, <2>4, <2>5, Zenon DEF Counted, VersionsDistinct
<1> QED
  BY <1>2, <1>3

LEMMA NumberStep == Numbered /\ [Next]_vars => Owned' /\ Counted' /\ VersionsDistinct'
<1> SUFFICES ASSUME Numbered, [Next]_vars PROVE Owned' /\ Counted' /\ VersionsDistinct'
  OBVIOUS
<1>0. TypeOK
  BY DEF Numbered
<1>1. ASSUME UNCHANGED <<status, version, owner, deleted>>
      PROVE Owned' /\ Counted' /\ VersionsDistinct'
  <2>1. Rows' = Rows
    BY <1>1 DEF Rows
  <2> QED
    BY <1>1, <2>1, NumbersKept, Zenon
<1>2. ASSUME NEW m \in Models, Register(m) PROVE Owned' /\ Counted' /\ VersionsDistinct'
  <2>1. m \notin Rows /\ Rows' = Rows \cup {m} /\ owner'[m] # NoJob
    BY <1>0, <1>2, NullAssumption DEF Register, Rows, Numbered, Owned, TypeOK
  <2>2. IsFiniteSet(Rows) /\ Cardinality(Rows) \in Nat
    BY RowsFinite
  <2>3. Cardinality(Rows') = Cardinality(Rows) + 1
    BY <2>1, <2>2, FS_AddElement
  <2>4. /\ version'[m] = Cardinality(Rows)
        /\ \A n \in Models \ {m} : version'[n] = version[n] /\ owner'[n] = owner[n]
    BY <1>0, <1>2 DEF Register, TypeOK
  <2>5. Owned'
    BY <2>1, <2>4 DEF Numbered, Owned, Rows
  <2>6. ASSUME ~deleted'
        PROVE /\ \A n \in Rows' : version'[n] < Cardinality(Rows')
              /\ \A k, n \in Rows' : k # n => version'[k] # version'[n]
    <3>1. ~deleted
      BY <1>2, <2>6, Zenon DEF Register
    <3>2. /\ \A n \in Rows : version[n] < Cardinality(Rows)
          /\ \A k, n \in Rows : k # n => version[k] # version[n]
      BY <3>1, Zenon DEF Numbered, Counted, VersionsDistinct
    <3>3. \A n \in Rows : n \in Models \ {m} /\ version[n] \in Nat
      BY <1>0, <2>1 DEF Rows, TypeOK
    <3> QED
      BY <2>1, <2>2, <2>3, <2>4, <3>2, <3>3
  <2> QED
    BY <2>5, <2>6, Zenon DEF Counted, VersionsDistinct
<1>3. ASSUME NEW r \in Requests, CommitPromotion(r) PROVE Owned' /\ Counted' /\ VersionsDistinct'
  <2>1. req[r] \in Sessions /\ req[r].model \in Models /\ req[r].target \in Targets
    BY <1>0, <1>3 DEF CommitPromotion, TypeOK
  <2>2. Rows' = Rows
    <3>1. CASE {req[r].model, req[r].current} \subseteq Rows \cup {NoModel}
      <4>1. status' = [m \in Models |->
                         IF m = req[r].model /\ req[r].writes THEN req[r].target
                         ELSE IF m = req[r].current THEN "ARCHIVED" ELSE status[m]]
        BY <1>3, <3>1 DEF CommitPromotion
      <4>2. req[r].model \in Rows /\ (req[r].current \in Models => req[r].current \in Rows)
        BY <2>1, <3>1, NullAssumption
      <4>3. \A m \in Models : status'[m] = "ABSENT" <=> status[m] = "ABSENT"
        BY <2>1, <4>1, <4>2 DEF Rows, Targets
      <4> QED
        BY <4>3 DEF Rows
    <3>2. CASE ~({req[r].model, req[r].current} \subseteq Rows \cup {NoModel})
      BY <1>3, <3>2 DEF CommitPromotion, Rows
    <3> QED
      BY <3>1, <3>2
  <2>3. UNCHANGED <<version, owner, deleted>>
    BY <1>3, Zenon DEF CommitPromotion
  <2> QED
    BY <2>2, <2>3, NumbersKept, Zenon
<1>4. ASSUME NEW r \in Requests, DeleteRow(r) PROVE Owned' /\ Counted' /\ VersionsDistinct'
  <2>1. CASE \E j \in Jobs : linked[j] = req[r].model
    BY <1>1, <1>4, <2>1, Zenon DEF DeleteRow
  <2>2. CASE ~\E j \in Jobs : linked[j] = req[r].model
    <3>1. deleted' = TRUE /\ UNCHANGED owner
      BY <1>4, <2>2, Zenon DEF DeleteRow
    <3>2. Rows' \subseteq Rows
      BY <1>0, <1>4, <2>2 DEF DeleteRow, Rows, TypeOK
    <3>3. Owned'
      BY <3>1, <3>2 DEF Numbered, Owned
    <3> QED
      BY <3>1, <3>3, Zenon DEF Counted, VersionsDistinct
  <2> QED
    BY <2>1, <2>2
<1>5. CASE UNCHANGED vars
  BY <1>1, <1>5 DEF vars, tables
<1>6. ASSUME NEW j \in Jobs, Upload(j) \/ DeleteJob(j)
      PROVE Owned' /\ Counted' /\ VersionsDistinct'
  BY <1>1, <1>6 DEF Upload, DeleteJob, tables
<1>7. CASE Link \/ Abandon
  BY <1>1, <1>7 DEF Link, Abandon, tables
<1>8. ASSUME NEW r \in Requests, ReadProduction(r) \/ DeleteBlobs(r)
      PROVE Owned' /\ Counted' /\ VersionsDistinct'
  BY <1>1, <1>8 DEF ReadProduction, DeleteBlobs, tables
<1>9. ASSUME NEW r \in Requests, NEW m \in Models,
             StartDelete(r, m) \/ \E target \in Targets : StartPromote(r, m, target)
      PROVE Owned' /\ Counted' /\ VersionsDistinct'
  BY <1>1, <1>9 DEF StartDelete, StartPromote, tables
<1> QED
  BY <1>2, <1>3, <1>4, <1>5, <1>6, <1>7, <1>8, <1>9 DEF Next

\* Until a row is deleted, counting the rows gives every model a version of its
\* own, whatever executions die and whatever is promoted in between.
THEOREM VersionsStayDistinct == Spec => []VersionsDistinct
<1>1. Init => Numbered
  <2> SUFFICES ASSUME Init PROVE Numbered
    OBVIOUS
  <2>1. TypeOK
    BY InductiveInit DEF Inductive
  <2>2. Rows = {}
    BY DEF Init, Rows
  <2> QED
    BY <2>1, <2>2 DEF Numbered, Owned, Counted, VersionsDistinct
<1>2. Numbered /\ [Next]_vars => Numbered'
  BY TypeStep, NumberStep DEF Numbered
<1>3. Numbered => VersionsDistinct
  BY DEF Numbered
<1> QED
  BY <1>1, <1>2, <1>3, PTL DEF Spec
=============================================================================
