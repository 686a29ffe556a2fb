------------------------- MODULE FeatureEngineering -------------------------
(***************************************************************************)
(* FraudFeatureEngineer and the column role detector it fits with: which   *)
(* column plays which role, what is learned from the training frame, and   *)
(* the features of a frame that is transformed with it, at training and at *)
(* serving.  Values are small integers; a mean is the total it divides.    *)
(***************************************************************************)
EXTENDS Integers, Sequences, FiniteSets, Functions, SequencesExt, FiniteSetsExt

CONSTANTS
  Columns, NoColumn,
  TargetNamed, TargetLike,   \* names of TARGET_NAMES; binary with a like name
  TimeNamed, AmountNamed, UserNamed,  \* matching the patterns
  Identifying,               \* matching ID_PATTERNS, or integers nearly unique
  Numeric, Dated, Wide,      \* by type, in every frame; Wide: text of more
                             \* than 50 values
  Current, Original,         \* the columns of a deviation pair, or NoColumn
  Mappable,                  \* bound: columns a column_mapping may name
  Varied, CellValues, OtherValue, \* bound: the columns whose cells vary, one
                             \* in a row, and the cells plus one: 0 stands
                             \* for a negative
  TimeValues,                \* bound: those of a time
  DayFirst, Either, Loose,   \* text cells plus one, as times: 13/01/2024,
                             \* 01/02/2024, no layout; others: 2024-01-13
  MaxRows,                   \* bound: rows of a frame
  Absent,                    \* bound: columns a served frame may lack
  Switchable                 \* bound: groups the config may turn off

ASSUME FeatureAssumption ==
  /\ NoColumn \notin Columns /\ Mappable \subseteq Columns /\ Varied \subseteq Columns
  /\ TargetNamed \cup TargetLike \cup TimeNamed \cup AmountNamed \cup UserNamed \cup Dated \subseteq Columns
  /\ Numeric \cap Dated = {} /\ Wide \cap (Numeric \cup Dated) = {}
  /\ CellValues \subseteq Nat /\ TimeValues \subseteq Nat
  /\ OtherValue \in Nat /\ MaxRows \in Nat

VARIABLES
  engineer,   \* the fitted transformer, or Unfitted
  training,   \* history: the frame it was fitted on
  frame       \* the frame transform was last called with, and its columns

engineerVars == <<engineer, training, frame>>

-----------------------------------------------------------------------------
Unfitted == [fitted |-> FALSE]
NoFrame == [rows |-> <<>>, has |-> {}]

MappedRoles == {"amount", "timestamp", "user_id", "target"}
Mappings == UNION {[S -> MappedRoles] : S \in SUBSET Mappable}

\* A row in which one column has a value of its own.
Row(c, v) == [d \in Columns |-> IF d = c THEN v - 1 ELSE OtherValue - 1]

CellRows ==
  {Row(c, v) : c \in Varied, v \in CellValues} \cup {Row(c, v) : c \in TimeNamed, v \in TimeValues}

\* Nothing depends on the order of the rows but the layout of their times, and
\* time_since_last_txn between rows of equal time.
Frames == UNION {[1..n -> CellRows] : n \in 1..MaxRows}

EngineerInit == engineer = Unfitted /\ training = <<>> /\ frame = NoFrame

-----------------------------------------------------------------------------
(* Column roles.  A mapped column is assigned even when another column     *)
(* mapped to its role took the role over; a role nobody is mapped to takes *)
(* any candidate of its patterns among the columns not assigned yet.       *)

MappedTo(mapping, role) == {c \in DOMAIN mapping : mapping[c] = role}

Holders(mapping, role, taken, first, second) ==
  IF MappedTo(mapping, role) # {} THEN MappedTo(mapping, role)
  ELSE IF first \ taken # {} THEN first \ taken
  ELSE IF second \ taken # {} THEN second \ taken ELSE {NoColumn}

RolesOf(target, time, amount, user, rest) ==
  LET ids == rest \cap (Identifying \cup Wide)
      text == rest \ (Numeric \cup Dated)
  IN [target |-> target, time |-> time, amount |-> amount, user |-> user,
      ids |-> ids, cats |-> text \ ids, nums |-> rest \ (text \cup ids)]

Detected(mapping) ==
  LET mapped == DOMAIN mapping IN
  UNION {UNION {UNION {{RolesOf(t, s, a, u, Columns \ (mapped \cup {t, s, a, u}))
    : u \in Holders(mapping, "user_id", mapped \cup {t, s, a}, UserNamed, {})}
    : a \in Holders(mapping, "amount", mapped \cup {t, s}, AmountNamed \cap Numeric, {})}
    : s \in Holders(mapping, "timestamp", mapped \cup {t}, Dated, TimeNamed)}
    : t \in Holders(mapping, "target", mapped, TargetNamed, TargetLike)}

-----------------------------------------------------------------------------
(* What fit learns.                                                        *)

Total(rows, c) == FoldSeq(LAMBDA r, sum : r[c] + sum, 0, rows)
OfUser(rows, c, u) == SelectSeq(rows, LAMBDA r : r[c] = u)
Seen(rows, c) == {rows[i][c] : i \in DOMAIN rows}

UserStats(rows, roles) ==
  IF roles.user = NoColumn \/ roles.amount = NoColumn THEN [u \in {} |-> 0]
  ELSE [u \in Seen(rows, roles.user) |->
          LET own == OfUser(rows, roles.user, u) IN
          [count |-> Len(own), sum |-> Total(own, roles.amount),
           max |-> Max(Seen(own, roles.amount))]]

FraudRates(rows, roles, rated) ==
  [c \in IF rated THEN roles.cats ELSE {} |->
     [v \in Seen(rows, c) |-> <<Total(OfUser(rows, c, v), roles.target), Len(OfUser(rows, c, v))>>]]

Learned(rows, roles, rated) ==
  [size |-> Len(rows),
   totals |-> [c \in (roles.nums \cup {roles.amount}) \ {NoColumn} |-> Total(rows, c)],
   users |-> UserStats(rows, roles),
   rates |-> FraudRates(rows, roles, rated),
   codes |-> [c \in roles.cats |-> Seen(rows, c)]]

-----------------------------------------------------------------------------
(* The features of a frame: those _transform_impl adds given the columns   *)
(* the frame has, each with its value for a row.  NaN where the trained    *)
(* name is not added.                                                      *)

NaN == <<>>
Day == 86400
Known(e, row) == row[e.roles.user] \in DOMAIN e.learned.users
SameUser(e, f, i) == {j \in DOMAIN f.rows : f.rows[j][e.roles.user] = f.rows[i][e.roles.user]}

Added(e, f) ==
  LET r == e.roles
      amount == {r.amount} \cap f.has   user == {r.user} \cap f.has   time == {r.time} \cap f.has
      group(g, cols) == {<<g, c>> : c \in IF g \in e.off THEN {} ELSE cols}
      both(cols, needed) == IF needed = {} THEN {} ELSE cols
  IN group("transaction", amount)
     \cup group("behavioral", both(amount, IF DOMAIN e.learned.users = {} THEN {} ELSE user))
     \cup group("temporal", time)
     \cup (IF "temporal" \in e.off THEN {} ELSE {<<"since_last", c>> : c \in both(time, user)})
     \cup group("aggregation", both(both(amount, user), time))
     \cup group("deviation", IF {Current, Original} \subseteq f.has THEN {Current} ELSE {})
     \cup {<<"log", c>> : c \in {c \in r.nums \cap f.has : \A i \in DOMAIN f.rows : f.rows[i][c] >= 0}}
     \cup {<<"zscore", c>> : c \in r.nums \cap f.has}
     \cup {<<"encoded", c>> : c \in r.cats \cap f.has}
     \cup {<<"fraud_rate", c>> : c \in DOMAIN e.learned.rates \cap f.has}

Written(v) ==
  CASE v + 1 \in DayFirst -> "day first"
    [] v + 1 \in Either -> "either"
    [] v + 1 \in Loose -> "loose"
    [] OTHER -> "iso"

\* A day whose number is read as the month's.
OtherDay(v) == v + 30 * Day

\* pd.to_datetime of a text column takes the layout of its first cell for all:
\* a cell of another layout is NaT, or a day read as the month.  Without a
\* layout each cell is read for itself.  Bound: no cell has a time zone.
Stamp(e, f, i) ==
  LET c == e.roles.time   own == f.rows[i][c]   first == Written(f.rows[1][c]) IN
  IF c \in Numeric \cup Dated \/ first \in {"loose", Written(own)} THEN <<own>>
  ELSE IF first = "day first" /\ Written(own) = "either" THEN <<OtherDay(own)>>
  ELSE NaN

\* The rows of the same user before row i by time, then by position.
Earlier(e, f, i) ==
  LET at(j) == Stamp(e, f, j) IN
  {j \in SameUser(e, f, i) :
     /\ at(i) # NaN /\ at(j) # NaN
     /\ at(j)[1] < at(i)[1] \/ (at(j) = at(i) /\ j < i)}

\* Mutant: velocity and sums are counted in the frame, also for users whose
\* history was learned.
BatchActivity(e, f, i) ==
  <<Cardinality(SameUser(e, f, i)),
    FoldSet(LAMBDA j, sum : f.rows[j][e.roles.amount] + sum, 0, SameUser(e, f, i))>>

Activity(e, f, i) ==
  IF Known(e, f.rows[i])
  THEN LET stats == e.learned.users[f.rows[i][e.roles.user]] IN <<stats.count, stats.sum>>
  ELSE <<Cardinality(SameUser(e, f, i)),
         FoldSet(LAMBDA j, sum : f.rows[j][e.roles.amount] + sum, 0, SameUser(e, f, i))>>

\* Of the groups of the roles ...
RoleValue(e, f, i, name) ==
  LET row == f.rows[i]   own == row[name[2]]   l == e.learned IN
  CASE name[1] = "transaction" -> <<own, l.totals[name[2]], l.size>>
    [] name[1] = "behavioral" ->
         IF Known(e, row) THEN <<own, l.users[row[e.roles.user]]>>
         ELSE <<own, l.totals[name[2]], l.size>>
    [] name[1] = "temporal" -> Stamp(e, f, i)
    [] name[1] = "since_last" ->
         <<IF Earlier(e, f, i) = {} THEN Day
           ELSE Stamp(e, f, i)[1] - Max({Stamp(e, f, j)[1] : j \in Earlier(e, f, i)})>>
    [] name[1] = "aggregation" -> Activity(e, f, i)

\* ... and of the columns themselves.
ColumnValue(e, row, name) ==
  LET own == row[name[2]]   l == e.learned IN
  CASE name[1] = "deviation" -> <<own - row[Original]>>
    [] name[1] = "log" -> <<own>>
    [] name[1] = "zscore" -> <<own, l.totals[name[2]], l.size>>
    [] name[1] = "encoded" -> <<IF own \in l.codes[name[2]] THEN own ELSE -1>>
    [] name[1] = "fraud_rate" ->
         IF own \in DOMAIN l.rates[name[2]] THEN l.rates[name[2]][own] ELSE <<1, 2>>

RoleGroups == {"transaction", "behavioral", "temporal", "since_last", "aggregation"}

Value(e, f, i, name) ==
  IF name[1] \in RoleGroups THEN RoleValue(e, f, i, name) ELSE ColumnValue(e, f.rows[i], name)

Transformed(e, f) ==
  [i \in DOMAIN f.rows |->
     [name \in e.names |-> IF name \in Added(e, f) THEN Value(e, f, i, name) ELSE NaN]]

-----------------------------------------------------------------------------
\* fit, whose dry run of the transform gives the trained names.  Labels that
\* are text of more than two classes leave no rates.
FitEngineer ==
  /\ ~engineer.fitted
  /\ \E rows \in Frames, mapping \in Mappings, off \in SUBSET Switchable :
       \E roles \in Detected(mapping), rated \in BOOLEAN :
         /\ rated => roles.target # NoColumn /\ roles.cats # {}
         /\ LET e == [fitted |-> TRUE, mapping |-> mapping, off |-> off, roles |-> roles,
                      learned |-> Learned(rows, roles, rated), names |-> {}]
                all == [rows |-> rows, has |-> Columns]
            IN /\ engineer' = [e EXCEPT !.names = Added(e, all)]
               /\ training' = rows
  /\ UNCHANGED frame

TransformFrame ==
  /\ engineer.fitted /\ frame = NoFrame
  /\ \E rows \in Frames, lost \in SUBSET Absent : frame' = [rows |-> rows, has |-> Columns \ lost]
  /\ UNCHANGED <<engineer, training>>

EngineerNext == FitEngineer \/ TransformFrame

\* Every column plays exactly one role, but a column that was mapped to a role
\* another mapped column has: that one plays none.
RolesPlaced ==
  engineer.fitted =>
    LET r == engineer.roles
        single == <<r.target, r.time, r.amount, r.user>>
        count(c) == Cardinality({k \in 1..4 : single[k] = c})
                    + Cardinality({s \in {<<1, r.ids>>, <<2, r.cats>>, <<3, r.nums>>} : c \in s[2]})
    IN \A c \in Columns :
         \/ count(c) = 1
         \/ count(c) = 0 /\ c \in DOMAIN engineer.mapping
            /\ \E d \in DOMAIN engineer.mapping \ {c} : engineer.mapping[d] = engineer.mapping[c]

EngineerTypeOK ==
  /\ RolesPlaced
  /\ engineer.fitted =>
       /\ engineer.mapping \in Mappings /\ engineer.off \subseteq Switchable
       /\ {engineer.roles.target, engineer.roles.time, engineer.roles.amount, engineer.roles.user}
            \subseteq Columns \cup {NoColumn}
       /\ engineer.roles.ids \cup engineer.roles.cats \cup engineer.roles.nums \subseteq Columns
  /\ training \in Frames \cup {<<>>}
  /\ frame.rows \in Frames \cup {<<>>} /\ frame.has \subseteq Columns

-----------------------------------------------------------------------------
(* Properties.                                                             *)

\* A row gets the features it would get alone, and a training row those it was
\* trained with: there is no skew between training, a batch and a single
\* prediction.  The exceptions the code has: the time since the user's last
\* row, the activity of a user who was not in the training frame, a log that a
\* negative value in any row of the frame takes from all its rows, and the time
\* features of a text time that is not written as the frame's first row has it.
WrittenAlike(f, i, c) ==
  \/ c \in Numeric \cup Dated
  \/ Written(f.rows[1][c]) \in {"loose", Written(f.rows[i][c])}

Skewed(e, f, i, name) ==
  LET others == DOMAIN f.rows \ {i} IN
  \/ name[1] = "since_last" /\ SameUser(e, f, i) # {i}
  \/ name[1] = "aggregation" /\ ~Known(e, f.rows[i]) /\ SameUser(e, f, i) # {i}
  \/ name[1] = "log" /\ \E j \in others : f.rows[j][name[2]] < 0
  \/ name[1] = "temporal" /\ ~WrittenAlike(f, i, name[2])

FeaturesAlike ==
  engineer.fitted =>
    \A i \in DOMAIN frame.rows :
      LET e == engineer
          alone == Transformed(e, [frame EXCEPT !.rows = <<frame.rows[i]>>])[1]
          all == [rows |-> training, has |-> Columns]
      IN \A name \in e.names :
           /\ Transformed(e, frame)[i][name] = alone[name] \/ Skewed(e, frame, i, name)
           /\ frame.has = Columns =>
                \A k \in DOMAIN training :
                  training[k] = frame.rows[i] =>
                    Transformed(e, all)[k][name] = alone[name] \/ Skewed(e, all, k, name)
=============================================================================
