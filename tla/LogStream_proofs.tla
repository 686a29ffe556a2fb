-------------------------- MODULE LogStream_proofs --------------------------
(* Proofs about LogStream for any number of connections, lines, executions *)
(* and expiries.                                                           *)
EXTENDS LogStream, SequenceTheorems, TLAPS

(***************************************************************************)
(* What a round sends.                                                     *)
(***************************************************************************)

\* LRANGE from a cursor returns the lines after it, none when it is past the
\* end of a list that has expired.
LEMMA LinesFrom ==
  ASSUME NEW S, NEW s \in Seq(S), NEW n \in Nat
  PROVE  LET t == SubSeq(s, n + 1, Len(s)) IN
         /\ t \in Seq(S)
         /\ Len(t) = IF n <= Len(s) THEN Len(s) - n ELSE 0
         /\ \A i \in 1..Len(t) : t[i] = s[n + i]
<1> DEFINE t == SubSeq(s, n + 1, Len(s))
<1>1. Len(s) \in Nat /\ \A i \in n + 1 .. Len(s) : s[i] \in S
  BY ElementOfSeq, LenProperties
<1>2. n + 1 \in Int /\ Len(s) \in Int
  BY <1>1
<1>3. /\ t \in Seq(S)
      /\ Len(t) = IF n + 1 <= Len(s) THEN Len(s) - (n + 1) + 1 ELSE 0
      /\ \A i \in 1 .. Len(s) - (n + 1) + 1 : t[i] = s[(n + 1) + i - 1]
  BY <1>1, <1>2, SubSeqProperties
<1>4. Len(t) = IF n <= Len(s) THEN Len(s) - n ELSE 0
  BY <1>1, <1>3
<1>5. \A i \in 1..Len(t) : t[i] = s[n + i]
  BY <1>1, <1>3, <1>4
<1> QED
  BY <1>3, <1>4, <1>5

\* Two lists that agree up to a cursor have the same lines up to it.
LEMMA SamePrefix ==
  ASSUME NEW S, NEW s \in Seq(S), NEW t \in Seq(S), NEW n \in Nat,
         n <= Len(s), n <= Len(t), \A i \in 1..n : s[i] = t[i]
  PROVE  SubSeq(s, 1, n) = SubSeq(t, 1, n)
<1>1. \A i \in 1..n : s[i] \in S /\ t[i] \in S
  BY ElementOfSeq, LenProperties
<1>2. /\ SubSeq(s, 1, n) \in Seq(S) /\ Len(SubSeq(s, 1, n)) = n
      /\ \A i \in 1..n : SubSeq(s, 1, n)[i] = s[i]
  BY <1>1, SubSeqProperties
<1>3. /\ SubSeq(t, 1, n) \in Seq(S) /\ Len(SubSeq(t, 1, n)) = n
      /\ \A i \in 1..n : SubSeq(t, 1, n)[i] = t[i]
  BY <1>1, SubSeqProperties
<1> QED
  BY <1>2, <1>3, SeqEqual

(***************************************************************************)
(* Type correctness.                                                       *)
(***************************************************************************)

\* Every step keeps the keys, the job and the connections well typed.
LEMMA TypeStep == TypeOK /\ [Next]_vars => TypeOK'
<1> SUFFICES ASSUME TypeOK, [Next]_vars PROVE TypeOK'
  OBVIOUS
<1> USE DEF TypeOK, Open, Terminal, job, connection
<1>1. CASE Attach
  BY <1>1, LogStreamAssumption DEF Attach
<1>2. CASE Emit
  <2>1. pushed + 1 \in Lines /\ pushed' \in 0..MaxLines /\ before \in 0..pushed'
    BY <1>2, LogStreamAssumption DEF Emit, Lines
  <2>2. log' \in Seq(Lines)
    BY <1>2, <2>1, AppendProperties DEF Emit
  <2> QED
    BY <1>2, <2>1, <2>2 DEF Emit
<1>3. CASE Report
  BY <1>3, LogStreamAssumption DEF Report
<1>4. CASE Detach
  BY <1>4 DEF Detach
<1>5. CASE ExpireLog
  BY <1>5, EmptySeq, LogStreamAssumption DEF ExpireLog
<1>6. CASE ExpireStatus
  BY <1>6, LogStreamAssumption DEF ExpireStatus
<1>7. ASSUME NEW c \in Connections, Connect(c) PROVE TypeOK'
  BY <1>7, EmptySeq DEF Connect
<1>8. ASSUME NEW c \in Connections, Fetch(c) PROVE TypeOK'
  <2> DEFINE lines == SubSeq(log, cursor[c] + 1, Len(log))
  <2>1. lines \in Seq(Lines) /\ Len(lines) \in Nat
    BY LinesFrom, LenProperties
  <2>2. got[c] \o lines \in Seq(Lines)
    BY <2>1, ConcatProperties
  <2>3. got' = [got EXCEPT ![c] = got[c] \o lines] /\ cursor' = [cursor EXCEPT ![c] = cursor[c] + Len(lines)]
    BY <1>8 DEF Fetch
  <2> HIDE DEF lines
  <2>4. got' \in [Connections -> Seq(Lines)] /\ cursor' \in [Connections -> Nat]
    BY <2>1, <2>2, <2>3
  <2>5. pc' \in [Connections -> {"closed", "done"} \cup Open]
    BY <1>8 DEF Fetch
  <2>6. UNCHANGED <<job, expiries, expired>>
    BY <1>8 DEF Fetch
  <2> QED
    BY <2>4, <2>5, <2>6
<1>9. ASSUME NEW c \in Connections, Check(c) PROVE TypeOK'
  BY <1>9 DEF Check
<1>10. ASSUME NEW c \in Connections, Drop(c) PROVE TypeOK'
  BY <1>10 DEF Drop
<1>11. CASE UNCHANGED vars
  BY <1>11 DEF vars
<1> QED
  BY <1>1, <1>2, <1>3, <1>4, <1>5, <1>6, <1>7, <1>8, <1>9, <1>10, <1>11 DEF Next

\* The keys in Redis, the executions and the connections always have their types.
THEOREM TypeCorrect == Spec => []TypeOK
<1>1. Init => TypeOK
  BY EmptySeq, LogStreamAssumption DEF Init, TypeOK
<1> QED
  BY <1>1, TypeStep, PTL DEF Spec

(***************************************************************************)
(* What a connection sends.  SendsPrefix is not inductive: that lines stay *)
(* in order across an expiry needs the order of the list itself, that no   *)
(* line sent is newer than the last one pushed, and that the lines beyond  *)
(* a cursor are newer than those sent, also when the cursor is past the    *)
(* end of a list that began again.                                         *)
(***************************************************************************)

Increasing(s) == \A i, k \in 1..Len(s) : i < k => s[i] < s[k]
Older(s) == \A i \in 1..Len(s) : s[i] <= pushed

LogOrdered == Increasing(log) /\ Older(log)

SentOrdered(c) ==
  /\ Increasing(got[c]) /\ Older(got[c])
  /\ \A i \in 1..Len(got[c]), k \in 1..Len(log) : k > cursor[c] => got[c][i] < log[k]

SentWhole(c) ==
  pc[c] \in Open /\ ~expired[c] => cursor[c] <= Len(log) /\ got[c] = SubSeq(log, 1, cursor[c])

StreamInv == TypeOK /\ LogOrdered /\ \A c \in Connections : SentOrdered(c) /\ SentWhole(c)

\* A line pushed is newer than all lines of the list and all lines sent.
LEMMA EmitStep == StreamInv /\ TypeOK' /\ Emit => StreamInv'
<1> SUFFICES ASSUME StreamInv, TypeOK', Emit PROVE StreamInv'
  OBVIOUS
<1>1. /\ log \in Seq(Lines) /\ Len(log) \in Nat /\ pushed \in Nat /\ pushed' = pushed + 1
      /\ log' = Append(log, pushed + 1) /\ UNCHANGED connection /\ pushed + 1 \in Lines
  BY LenProperties, LogStreamAssumption DEF StreamInv, TypeOK, Emit, Lines
<1>2. /\ Len(log') = Len(log) + 1 /\ log'[Len(log) + 1] = pushed + 1
      /\ \A i \in 1..Len(log) : log'[i] = log[i]
  BY <1>1, AppendProperties
<1>3. LogOrdered'
  <2>1. \A i \in 1..Len(log) : log[i] \in Nat /\ log[i] <= pushed
    <3>1. \A i \in 1..Len(log) : log[i] \in Lines
      BY <1>1, ElementOfSeq
    <3> QED
      BY <3>1, LogStreamAssumption DEF StreamInv, LogOrdered, Older, Lines
  <2> QED
    BY <1>1, <1>2, <2>1 DEF StreamInv, LogOrdered, Increasing, Older
<1>4. ASSUME NEW c \in Connections PROVE SentOrdered(c)' /\ SentWhole(c)'
  <2>1. /\ got[c] \in Seq(Lines) /\ Len(got[c]) \in Nat /\ cursor[c] \in Nat
        /\ got'[c] = got[c] /\ cursor'[c] = cursor[c] /\ pc'[c] = pc[c] /\ expired'[c] = expired[c]
    BY <1>1, LenProperties DEF StreamInv, TypeOK, connection
  <2>2. SentOrdered(c) /\ SentWhole(c)
    BY DEF StreamInv
  <2>3. \A i \in 1..Len(got[c]) : got[c][i] \in Nat /\ got[c][i] <= pushed
    <3>1. \A i \in 1..Len(got[c]) : got[c][i] \in Lines
      BY <2>1, ElementOfSeq
    <3> QED
      BY <2>2, <3>1, LogStreamAssumption DEF SentOrdered, Older, Lines
  <2>4. SentOrdered(c)'
    <3>1. Increasing(got[c])'
      BY <2>1, <2>2 DEF SentOrdered, Increasing
    <3>2. Older(got[c])'
      BY <1>1, <2>1, <2>3 DEF Older
    <3>3. \A i \in 1..Len(got[c]), k \in 1..Len(log) + 1 : k > cursor[c] => got[c][i] < log'[k]
      BY <1>1, <1>2, <2>1, <2>2, <2>3 DEF SentOrdered
    <3> QED
      BY <1>2, <2>1, <3>1, <3>2, <3>3 DEF SentOrdered
  <2>5. SentWhole(c)'
    <3> SUFFICES ASSUME pc[c] \in Open, ~expired[c]
                 PROVE  cursor[c] <= Len(log') /\ got[c] = SubSeq(log', 1, cursor[c])
      BY <2>1 DEF SentWhole, Open
    <3>1. cursor[c] <= Len(log) /\ got[c] = SubSeq(log, 1, cursor[c])
      BY <2>2 DEF SentWhole
    <3>2. SubSeq(log', 1, cursor[c]) = SubSeq(log, 1, cursor[c])
      BY <1>1, <1>2, <2>1, <3>1, SamePrefix DEF TypeOK
    <3> QED
      BY <1>1, <1>2, <2>1, <3>1, <3>2
  <2> QED
    BY <2>4, <2>5
<1> QED
  BY <1>3, <1>4 DEF StreamInv

\* A round sends the lines beyond the cursor and moves it to the end of the
\* list, or leaves it past that end.
LEMMA FetchStep ==
  ASSUME StreamInv, NEW c \in Connections, Fetch(c)
  PROVE  SentOrdered(c)' /\ SentWhole(c)'
<1> DEFINE lines == SubSeq(log, cursor[c] + 1, Len(log))
           old == got[c]
           from == cursor[c]
<1>1. /\ log \in Seq(Lines) /\ Len(log) \in Nat /\ old \in Seq(Lines) /\ Len(old) \in Nat
      /\ from \in Nat /\ log' = log /\ pushed' = pushed /\ pushed \in Nat
      /\ pc[c] = "fetch" /\ expired'[c] = expired[c] /\ pc'[c] = "check"
  BY LenProperties, LogStreamAssumption DEF StreamInv, TypeOK, Fetch, job
<1>2. /\ lines \in Seq(Lines) /\ Len(lines) \in Nat
      /\ Len(lines) = IF from <= Len(log) THEN Len(log) - from ELSE 0
      /\ \A i \in 1..Len(lines) : lines[i] = log[from + i]
  BY <1>1, LinesFrom, LenProperties
<1>3. got'[c] = old \o lines /\ cursor'[c] = from + Len(lines)
  BY DEF Fetch, StreamInv, TypeOK
<1>4. /\ \A i \in 1..Len(log) : log[i] \in Nat /\ log[i] <= pushed
      /\ \A i \in 1..Len(old) : old[i] \in Nat /\ old[i] <= pushed
  <2>1. /\ \A i \in 1..Len(log) : log[i] \in Lines
        /\ \A i \in 1..Len(old) : old[i] \in Lines
    BY <1>1, ElementOfSeq
  <2> QED
    BY <2>1, LogStreamAssumption DEF StreamInv, LogOrdered, SentOrdered, Older, Lines
<1>5. /\ Increasing(old) /\ Increasing(log)
      /\ \A i \in 1..Len(old), k \in 1..Len(log) : k > from => old[i] < log[k]
  BY DEF StreamInv, LogOrdered, SentOrdered
<1>6. ~expired[c] => from <= Len(log) /\ old \o lines = log
  <2> SUFFICES ASSUME ~expired[c] PROVE from <= Len(log) /\ old \o lines = log
    OBVIOUS
  <2>1. from <= Len(log) /\ old = SubSeq(log, 1, from)
    BY <1>1 DEF StreamInv, SentWhole, Open
  <2>2. SubSeq(log, 1, from) \o lines = SubSeq(log, 1, Len(log))
    <3>1. 1 \in 1..Len(log) + 1 /\ from \in 1 - 1 .. Len(log) /\ Len(log) \in from .. Len(log)
      BY <1>1, <2>1
    <3> QED
      BY <1>1, <3>1, ConcatAdjacentSubSeq
  <2>3. SubSeq(log, 1, Len(log)) = log
    BY <1>1, SubSeqFull
  <2> HIDE DEF lines, old, from
  <2> QED
    BY <2>1, <2>2, <2>3
<1> HIDE DEF lines, old, from
<1>7. /\ Len(old \o lines) = Len(old) + Len(lines)
      /\ \A i \in 1..Len(old) : (old \o lines)[i] = old[i]
      /\ \A i \in Len(old) + 1 .. Len(old) + Len(lines) :
            /\ from + (i - Len(old)) \in 1..Len(log)
            /\ (old \o lines)[i] = log[from + (i - Len(old))]
  <2>1. /\ Len(old \o lines) = Len(old) + Len(lines)
        /\ \A i \in 1..Len(old) + Len(lines) :
              (old \o lines)[i] = IF i <= Len(old) THEN old[i] ELSE lines[i - Len(old)]
    BY <1>1, <1>2, ConcatProperties
  <2>2. \A i \in Len(old) + 1 .. Len(old) + Len(lines) : i - Len(old) \in 1..Len(lines)
    BY <1>1, <1>2
  <2> QED
    BY <1>1, <1>2, <2>1, <2>2
<1>8. Increasing(old \o lines)
  <2> SUFFICES ASSUME NEW i \in 1..Len(old) + Len(lines), NEW k \in 1..Len(old) + Len(lines), i < k
               PROVE  (old \o lines)[i] < (old \o lines)[k]
    BY <1>7 DEF Increasing
  <2>1. CASE k <= Len(old)
    BY <1>1, <1>2, <1>5, <1>7, <2>1 DEF Increasing
  <2>2. CASE i <= Len(old) /\ k > Len(old)
    <3>1. i \in 1..Len(old) /\ k \in Len(old) + 1 .. Len(old) + Len(lines) /\ from + (k - Len(old)) > from
      BY <1>1, <1>2, <2>2
    <3> QED
      BY <1>5, <1>7, <3>1
  <2>3. CASE i > Len(old)
    <3>1. /\ i \in Len(old) + 1 .. Len(old) + Len(lines) /\ k \in Len(old) + 1 .. Len(old) + Len(lines)
          /\ from + (i - Len(old)) < from + (k - Len(old))
      BY <1>1, <1>2, <2>3
    <3> QED
      BY <1>5, <1>7, <3>1 DEF Increasing
  <2> QED
    BY <1>1, <1>2, <2>1, <2>2, <2>3
<1>9. Older(got[c])'
  <2> SUFFICES ASSUME NEW i \in 1..Len(old) + Len(lines) PROVE (old \o lines)[i] <= pushed
    BY <1>1, <1>3, <1>7 DEF Older
  <2>1. CASE i <= Len(old)
    BY <1>1, <1>2, <1>4, <1>7, <2>1
  <2>2. CASE i > Len(old)
    <3>1. i \in Len(old) + 1 .. Len(old) + Len(lines)
      BY <1>1, <1>2, <2>2
    <3> QED
      BY <1>4, <1>7, <3>1
  <2> QED
    BY <1>1, <1>2, <2>1, <2>2
<1>10. \A k \in 1..Len(log) : ~(k > cursor'[c])
  BY <1>1, <1>2, <1>3
<1>11. SentOrdered(c)'
  BY <1>1, <1>3, <1>8, <1>9, <1>10 DEF SentOrdered, Increasing
<1>12. SentWhole(c)'
  <2> SUFFICES ASSUME ~expired[c] PROVE cursor'[c] <= Len(log) /\ got'[c] = SubSeq(log, 1, cursor'[c])
    BY <1>1 DEF SentWhole
  <2>1. cursor'[c] = Len(log)
    BY <1>1, <1>2, <1>3, <1>6
  <2> QED
    BY <1>1, <1>3, <1>6, <2>1, SubSeqFull
<1> QED
  BY <1>11, <1>12

\* Every step keeps the list and what was sent of it in order.
LEMMA StreamStep == StreamInv /\ [Next]_vars => StreamInv'
<1> SUFFICES ASSUME StreamInv, [Next]_vars PROVE StreamInv'
  OBVIOUS
<1>0. TypeOK /\ TypeOK'
  BY TypeStep DEF StreamInv
<1>1. ASSUME log' = log, pushed' = pushed, UNCHANGED connection PROVE StreamInv'
  BY <1>0, <1>1 DEF StreamInv, LogOrdered, SentOrdered, SentWhole, Increasing, Older, connection
<1>2. CASE Attach
  BY <1>1, <1>2 DEF Attach
<1>3. CASE Emit
  BY <1>0, <1>3, EmitStep
<1>4. CASE Report
  BY <1>1, <1>4 DEF Report
<1>5. CASE Detach
  BY <1>1, <1>5 DEF Detach
<1>6. CASE ExpireLog
  <2>1. /\ log' = <<>> /\ pushed' = pushed /\ got' = got /\ cursor' = cursor
        /\ Len(log') = 0 /\ \A c \in Connections : expired'[c]
    BY <1>6, EmptySeq DEF ExpireLog
  <2>2. LogOrdered'
    BY <2>1 DEF LogOrdered, Increasing, Older
  <2>3. ASSUME NEW c \in Connections PROVE SentOrdered(c)' /\ SentWhole(c)'
    BY <2>1 DEF StreamInv, SentOrdered, SentWhole, Increasing, Older
  <2> QED
    BY <1>0, <2>2, <2>3 DEF StreamInv
<1>7. CASE ExpireStatus
  BY <1>1, <1>7 DEF ExpireStatus
<1>8. ASSUME NEW c \in Connections, Connect(c) PROVE StreamInv'
  <2>1. log' = log /\ pushed' = pushed /\ LogOrdered'
    BY <1>8 DEF Connect, job, StreamInv, LogOrdered, Increasing, Older
  <2>2. got'[c] = <<>> /\ cursor'[c] = 0 /\ Len(got'[c]) = 0
    BY <1>0, <1>8, EmptySeq DEF Connect, TypeOK
  <2>3. SubSeq(log', 1, 0) = <<>>
    BY SubSeqEmpty
  <2>4. SentOrdered(c)' /\ SentWhole(c)'
    <3>1. Len(log') \in Nat
      BY <1>0, LenProperties DEF TypeOK
    <3> QED
      BY <2>1, <2>2, <2>3, <3>1 DEF SentOrdered, SentWhole, Increasing, Older
  <2>5. ASSUME NEW d \in Connections, d # c PROVE SentOrdered(d)' /\ SentWhole(d)'
    <3>1. got'[d] = got[d] /\ cursor'[d] = cursor[d] /\ pc'[d] = pc[d] /\ expired'[d] = expired[d]
      BY <1>0, <1>8, <2>5 DEF Connect, TypeOK
    <3> QED
      BY <2>1, <3>1 DEF StreamInv, SentOrdered, SentWhole, Increasing, Older
  <2> QED
    BY <1>0, <2>1, <2>4, <2>5 DEF StreamInv
<1>9. ASSUME NEW c \in Connections, Fetch(c) PROVE StreamInv'
  <2>1. log' = log /\ pushed' = pushed /\ LogOrdered'
    BY <1>9 DEF Fetch, job, StreamInv, LogOrdered, Increasing, Older
  <2>2. SentOrdered(c)' /\ SentWhole(c)'
    BY <1>9, FetchStep
  <2>3. ASSUME NEW d \in Connections, d # c PROVE SentOrdered(d)' /\ SentWhole(d)'
    <3>1. got'[d] = got[d] /\ cursor'[d] = cursor[d] /\ pc'[d] = pc[d] /\ expired'[d] = expired[d]
      BY <1>0, <1>9, <2>3 DEF Fetch, TypeOK
    <3> QED
      BY <2>1, <3>1 DEF StreamInv, SentOrdered, SentWhole, Increasing, Older
  <2> QED
    BY <1>0, <2>1, <2>2, <2>3 DEF StreamInv
<1>10. ASSUME NEW c \in Connections, Check(c) \/ Drop(c) PROVE StreamInv'
  <2>1. log' = log /\ pushed' = pushed /\ got' = got /\ cursor' = cursor /\ expired' = expired
    BY <1>10 DEF Check, Drop, job
  <2>2. \A d \in Connections : pc'[d] \in Open => pc[d] \in Open
    BY <1>0, <1>10 DEF Check, Drop, TypeOK, Open
  <2> QED
    BY <1>0, <2>1, <2>2 DEF StreamInv, LogOrdered, SentOrdered, SentWhole, Increasing, Older
<1>11. CASE UNCHANGED vars
  BY <1>1, <1>11 DEF vars, job
<1> QED
  BY <1>2, <1>3, <1>4, <1>5, <1>6, <1>7, <1>8, <1>9, <1>10, <1>11 DEF Next

\* A connection sends each line once and in order, from the first one to its
\* cursor, for any number of executions, connections and reconnections.
THEOREM StreamSendsPrefix == Spec => []SendsPrefix
<1>1. Init => StreamInv
  <2> SUFFICES ASSUME Init PROVE StreamInv
    OBVIOUS
  <2>1. TypeOK
    BY EmptySeq, LogStreamAssumption DEF Init, TypeOK
  <2>2. Len(log) = 0 /\ \A c \in Connections : Len(got[c]) = 0 /\ pc[c] = "closed"
    BY EmptySeq DEF Init
  <2> QED
    BY <2>1, <2>2 DEF StreamInv, LogOrdered, SentOrdered, SentWhole, Increasing, Older, Open
<1>2. StreamInv => SendsPrefix
  <2> SUFFICES ASSUME StreamInv, NEW c \in Connections
               PROVE  /\ SentWhole(c)
                      /\ \A i, k \in DOMAIN got[c] : i < k => got[c][i] < got[c][k]
    BY DEF SendsPrefix, SentWhole
  <2>1. DOMAIN got[c] = 1..Len(got[c])
    BY LenProperties DEF StreamInv, TypeOK
  <2> QED
    BY <2>1 DEF StreamInv, SentOrdered, Increasing
<1> QED
  BY <1>1, <1>2, StreamStep, PTL DEF Spec
=============================================================================
