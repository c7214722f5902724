------------------------------ MODULE MapPlanProofs ------------------------------
(***************************************************************************)
(* Theorems about MapPlan, for any rows and lengths, any capacity of the   *)
(* fragment buffer and any number of messages, jobs and restarts: its type *)
(* invariant, that the map draws what was reported, that no plan is torn,  *)
(* and that coverage survives.  Those about MapImage, which shows the same *)
(* map, are at the end.                                                    *)
(*                                                                         *)
(* The map lags behind the messages by the events that wait.  What holds   *)
(* before they have run says, row by row, which of them brings the row:    *)
(* the last one that tells of it.                                          *)
(***************************************************************************)
EXTENDS MapPlan, MapImage, FiniteSetTheorems, SequenceTheorems, TLAPS

Triggers == {"workComplete", "other", None}
RowMessages == [kind : {"row"}, row : Rows, length : Lengths]
Fragments ==
    [kind : {"part"}, batch : Nat, row : Rows, length : Lengths, of : [Rows -> Lengths]]
Stops == [kind : {"stop"}, job : Nat, trigger : Triggers]
Messages == RowMessages \cup Fragments \cup Stops

\* What the buffer keeps is begun and not complete.
Filled == [batch : Nat, parts : Partial]
Batches == {b \in Filled : Reported(b.parts) \notin {{}, Rows}}
Saves == [key : Readings \cup {None}, rows : Partial]

Typed ==
    /\ plan \in [Rows -> Lengths] /\ running \in BOOLEAN /\ jobs \in Nat /\ answers \in Nat
    /\ wire \in Seq(Messages) /\ Len(wire) <= MaxWire
    /\ buffer \in Seq(Batches) /\ Len(buffer) <= MaxBatches
    /\ lastEvent \in Events \cup {None}
    /\ tasks \in Seq(Events) /\ Len(tasks) <= MaxTasks
    /\ reading \in Readings
    /\ map \in Partial /\ reported \in Partial
    /\ timer \in BOOLEAN /\ missed \in BOOLEAN /\ stopped \in BOOLEAN
    /\ store \in Saves /\ leftover \in Saves
    /\ stage \in {"up", "saving", "down"}
    /\ planned \subseteq Rows

\* The event says what row r is.
Concerns(e, r) == e.complete \/ e.rows[r] # None

\* The map has row r as it was told, or the last event that waits and concerns
\* it brings it.
Follows(r) ==
    \/ /\ map[r] = reported[r]
       /\ \A i \in DOMAIN tasks : ~Concerns(tasks[i], r)
    \/ \E i \in DOMAIN tasks :
           /\ Concerns(tasks[i], r)
           /\ tasks[i].rows[r] = reported[r]
           /\ \A j \in DOMAIN tasks : j > i => ~Concerns(tasks[j], r)

MapFollows == stage # "down" => \A r \in Rows : Follows(r)

\* The bus would drop an event only if it told of nothing new.
LastIsReported ==
    lastEvent # None =>
        \A r \in Rows : Concerns(lastEvent, r) => lastEvent.rows[r] = reported[r]

\* Down, nothing waits; and the map that was is the one that was told.
DownIsQuiet ==
    /\ stage = "down" => tasks = <<>> /\ lastEvent = None /\ ~timer
    /\ stage = "down" /\ ~missed => map = reported

\* A map that no save is due for reads back as it is, unless a change was lost.
SavedIsMap ==
    /\ stage = "saving" /\ ~missed => ~timer
    /\ leftover # Rowless => missed
    /\ ~timer /\ ~missed => FromDict(reading) = map

\* Under the remaining reading nothing is drawn that was not told under it.
DrawnIsPlanned ==
    /\ reading = "remaining" =>
           /\ Reported(map) \subseteq planned
           /\ \A i \in DOMAIN tasks : Reported(tasks[i].rows) \subseteq planned
    /\ store.key = "remaining" => Reported(store.rows) \subseteq planned
    /\ leftover.key = "remaining" => Reported(leftover.rows) \subseteq planned

\* Coverage is merged, never replaced.
CoverageMerges ==
    reading = "coverage" => \A i \in DOMAIN tasks : ~tasks[i].complete

\* The stop of the last job is the last message; handed in, it leaves nothing.
StopIsLast ==
    /\ \A i \in DOMAIN wire : wire[i].kind = "stop" =>
           /\ wire[i].job <= jobs
           /\ wire[i].job = jobs => ~running /\ i = Len(wire)
    /\ stopped => ~running /\ wire = <<>> /\ reading = "remaining"
    /\ stopped /\ ~missed => reported = Empty

\* Fragments of one batch were cut from one plan, on the wire and in the buffer.
CutFrom(parts, whole) == \A r \in Rows : parts[r] \in {None, whole[r]}
FragmentsAgree ==
    /\ \A i \in DOMAIN wire : wire[i].kind = "part" =>
           /\ wire[i].batch <= answers
           /\ wire[i].length = wire[i].of[wire[i].row]
           /\ \A j \in DOMAIN wire :
                  wire[j].kind = "part" /\ wire[j].batch = wire[i].batch => wire[j].of = wire[i].of
           /\ \A k \in DOMAIN buffer :
                  buffer[k].batch = wire[i].batch => CutFrom(buffer[k].parts, wire[i].of)
    /\ \A k \in DOMAIN buffer : buffer[k].batch <= answers

IInv ==
    /\ Typed
    /\ MapFollows
    /\ LastIsReported
    /\ DownIsQuiet
    /\ SavedIsMap
    /\ DrawnIsPlanned
    /\ CoverageMerges
    /\ StopIsLast
    /\ FragmentsAgree

-------------------------------------------------------------------------------
(* Sequences and types.                                                     *)

\* The bounds are numbers, and the rows are finitely many.
LEMMA Bounds ==
    /\ MaxWire \in Nat /\ MaxTasks \in Nat /\ MaxLength \in Nat
    /\ MaxBatches \in Nat /\ MaxBatches >= 1
    /\ IsFiniteSet(Rows)
BY BoundsAssumption, RowsAssumption, BatchesAssumption

\* No rows are rows, and nothing saved is a save.
LEMMA EmptyPartial == Empty \in Partial /\ Rowless \in Saves
BY DEF Empty, Partial, Rowless, Saves

\* The first of a queue is taken.
LEMMA Taken ==
    ASSUME NEW S, NEW s \in Seq(S), s # <<>>
    PROVE  /\ Head(s) \in S /\ Head(s) = s[1] /\ 1 \in DOMAIN s
           /\ Tail(s) \in Seq(S)
           /\ Len(s) \in Nat /\ Len(Tail(s)) = Len(s) - 1
           /\ DOMAIN s = 1..Len(s) /\ DOMAIN Tail(s) = 1..(Len(s) - 1)
           /\ \A i \in DOMAIN Tail(s) : i + 1 \in DOMAIN s /\ Tail(s)[i] = s[i + 1]
BY HeadTailProperties, LenProperties

\* An element goes behind the others.
LEMMA Added ==
    ASSUME NEW S, NEW s \in Seq(S), NEW e \in S
    PROVE  /\ Append(s, e) \in Seq(S)
           /\ Len(s) \in Nat /\ Len(Append(s, e)) = Len(s) + 1
           /\ DOMAIN s = 1..Len(s) /\ DOMAIN Append(s, e) = 1..(Len(s) + 1)
           /\ \A i \in DOMAIN s : Append(s, e)[i] = s[i]
           /\ Append(s, e)[Len(s) + 1] = e
           /\ \A i \in DOMAIN Append(s, e) : i \in DOMAIN s \/ i = Len(s) + 1
BY AppendProperties, LenProperties

\* Elements of a part of a sequence are elements of it.
LEMMA Without ==
    ASSUME NEW S, NEW s \in Seq(S), NEW i \in DOMAIN s
    PROVE  /\ RemoveAt(s, i) \in Seq(S)
           /\ Len(RemoveAt(s, i)) = Len(s) - 1
           /\ \A k \in DOMAIN RemoveAt(s, i) : \E l \in DOMAIN s : RemoveAt(s, i)[k] = s[l]
<1> DEFINE a == SubSeq(s, 1, i - 1)
           b == SubSeq(s, i + 1, Len(s))
<1>1. Len(s) \in Nat /\ DOMAIN s = 1..Len(s) /\ i \in 1..Len(s) /\ i \in Int
  BY LenProperties
<1>2. \A k \in 1..Len(s) : s[k] \in S
  BY ElementOfSeq
<1>3. /\ a \in Seq(S) /\ Len(a) = i - 1
      /\ \A k \in 1..(i - 1) : a[k] = s[k]
  <2>1. \A k \in 1..(i - 1) : s[k] \in S
    BY <1>1, <1>2
  <2>2. i - 1 \in Int /\ 1 \in Int
    BY <1>1
  <2>3. /\ a \in Seq(S) /\ Len(a) = IF 1 <= i - 1 THEN (i - 1) - 1 + 1 ELSE 0
        /\ \A k \in 1..((i - 1) - 1 + 1) : a[k] = s[1 + k - 1]
    BY <2>1, <2>2, SubSeqProperties
  <2> QED BY <1>1, <2>3
<1>4. /\ b \in Seq(S) /\ Len(b) = Len(s) - i
      /\ \A k \in 1..(Len(s) - i) : b[k] = s[i + k]
  <2>1. \A k \in (i + 1)..Len(s) : s[k] \in S
    BY <1>1, <1>2
  <2>2. i + 1 \in Int /\ Len(s) \in Int
    BY <1>1
  <2>3. /\ b \in Seq(S) /\ Len(b) = IF i + 1 <= Len(s) THEN Len(s) - (i + 1) + 1 ELSE 0
        /\ \A k \in 1..(Len(s) - (i + 1) + 1) : b[k] = s[i + 1 + k - 1]
    BY <2>1, <2>2, SubSeqProperties
  <2> QED BY <1>1, <2>3
<1> HIDE DEF a, b
<1>5. RemoveAt(s, i) = a \o b
  BY DEF RemoveAt, a, b
<1>6. /\ a \o b \in Seq(S) /\ Len(a \o b) = Len(a) + Len(b)
      /\ \A k \in 1..(Len(a) + Len(b)) :
             (a \o b)[k] = IF k <= Len(a) THEN a[k] ELSE b[k - Len(a)]
  BY <1>3, <1>4, ConcatProperties
<1>7. DOMAIN (a \o b) = 1..(Len(s) - 1) /\ Len(a \o b) = Len(s) - 1
  <2>1. Len(a \o b) = Len(s) - 1
    BY <1>1, <1>3, <1>4, <1>6
  <2>2. DOMAIN (a \o b) = 1..Len(a \o b)
    BY <1>6, LenProperties
  <2> QED BY <2>1, <2>2
<1>8. \A k \in 1..(Len(s) - 1) : \E l \in DOMAIN s : (a \o b)[k] = s[l]
  <2> SUFFICES ASSUME NEW k \in 1..(Len(s) - 1)
               PROVE  \E l \in DOMAIN s : (a \o b)[k] = s[l]
    OBVIOUS
  <2>1. CASE k <= i - 1
    <3>1. (a \o b)[k] = s[k] /\ k \in DOMAIN s
      BY <1>1, <1>3, <1>4, <1>6, <2>1
    <3> QED BY <3>1
  <2>2. CASE ~(k <= i - 1)
    <3> DEFINE m == k - (i - 1)
    <3>1. m \in 1..(Len(s) - i) /\ i + m = k + 1 /\ k + 1 \in DOMAIN s
      BY <1>1, <2>2
    <3>2. (a \o b)[k] = b[m]
      <4>1. Len(a) = i - 1 /\ Len(b) = Len(s) - i
        BY <1>3, <1>4
      <4>2. k \in 1..(Len(a) + Len(b)) /\ ~(k <= Len(a))
        BY <1>1, <2>2, <4>1
      <4>3. (a \o b)[k] = b[k - Len(a)]
        BY <1>6, <4>2
      <4> QED BY <4>1, <4>3
    <3> HIDE DEF m
    <3>3. (a \o b)[k] = s[k + 1]
      BY <1>4, <3>1, <3>2
    <3> QED BY <3>1, <3>3
  <2> QED BY <2>1, <2>2
<1> QED BY <1>5, <1>6, <1>7, <1>8

\* All of a sequence but its last element.
LEMMA WithoutLast ==
    ASSUME NEW S, NEW s \in Seq(S), s # <<>>
    PROVE  /\ Front(s) \in Seq(S) /\ Len(Front(s)) = Len(s) - 1
           /\ \A k \in DOMAIN Front(s) : k \in DOMAIN s /\ Front(s)[k] = s[k]
<1> DEFINE f == Front(s)
           n == Len(s)
<1>1. n \in Nat /\ n # 0 /\ DOMAIN s = 1..n
  BY EmptySeq, LenProperties
<1>2. \A k \in 1..(n - 1) : s[k] \in S
  BY <1>1, ElementOfSeq
<1>3. 1 \in Int /\ n - 1 \in Int
  BY <1>1
<1>4. /\ f \in Seq(S)
      /\ Len(f) = IF 1 <= n - 1 THEN (n - 1) - 1 + 1 ELSE 0
      /\ \A k \in 1..((n - 1) - 1 + 1) : f[k] = s[1 + k - 1]
  <2>1. f = SubSeq(s, 1, n - 1)
    BY DEF Front
  <2> HIDE DEF f, n
  <2> QED BY <1>2, <1>3, <2>1, SubSeqProperties
<1>5. DOMAIN f = 1..Len(f)
  BY <1>4, LenProperties
<1> HIDE DEF f, n
<1>6. Len(f) = n - 1
  BY <1>1, <1>4
<1>7. \A k \in 1..(n - 1) : k \in DOMAIN s /\ f[k] = s[k]
  BY <1>1, <1>4
<1>8. f \in Seq(S) /\ Len(f) = n - 1 /\ \A k \in DOMAIN f : k \in DOMAIN s /\ f[k] = s[k]
  BY <1>4, <1>5, <1>6, <1>7
<1> QED BY <1>8 DEF f, n

\* What is proved of the types is more than what the runs check.
LEMMA TypedIsTypeOK == Typed => TypeOK
<1> SUFFICES ASSUME Typed PROVE TypeOK
  OBVIOUS
<1>1. Range(wire) \subseteq Messages /\ Range(buffer) \subseteq Batches /\ Range(tasks) \subseteq Events
  BY RangeOfSeq DEF Typed
<1>2. \A m \in Range(wire) : m.kind \in {"row", "part", "stop"}
  BY <1>1 DEF Messages, RowMessages, Fragments, Stops
<1>3. \A b \in Range(buffer) : b.parts \in Partial /\ Reported(b.parts) \notin {{}, Rows}
  BY <1>1 DEF Batches, Filled
<1> QED BY <1>1, <1>2, <1>3 DEF Typed, TypeOK, Saves

-------------------------------------------------------------------------------
(* What the steps do to the types.                                          *)

\* None is no length.
LEMMA LengthsFacts == Lengths \subseteq Nat /\ None \notin Lengths /\ 0 \in Lengths
BY Bounds, NoneAssumption DEF Lengths

\* A message is taken off the wire.
LEMMA ArrivingFacts ==
    ASSUME Typed, NEW kind, Arriving(kind)
    PROVE  /\ Head(wire) \in Messages /\ Head(wire).kind = kind
           /\ 1 \in DOMAIN wire /\ Head(wire) = wire[1]
           /\ wire' \in Seq(Messages) /\ Len(wire') <= MaxWire
           /\ \A i \in DOMAIN wire' : i + 1 \in DOMAIN wire /\ wire'[i] = wire[i + 1]
           /\ DOMAIN wire = 1..Len(wire) /\ DOMAIN wire' = 1..(Len(wire) - 1)
           /\ Len(wire) \in Nat /\ Len(wire') = Len(wire) - 1
<1>1. wire \in Seq(Messages) /\ wire # <<>> /\ Len(wire) <= MaxWire
  BY DEF Typed, Arriving
<1>2. wire' = Tail(wire) /\ Head(wire).kind = kind
  BY DEF Arriving
<1> QED BY <1>1, <1>2, Taken, Bounds

\* A message that nobody hears is taken off the wire as well.
LEMMA UnheardFacts ==
    ASSUME Typed, Unheard
    PROVE  /\ wire' \in Seq(Messages) /\ Len(wire') <= MaxWire
           /\ \A i \in DOMAIN wire' : i + 1 \in DOMAIN wire /\ wire'[i] = wire[i + 1]
           /\ DOMAIN wire = 1..Len(wire) /\ DOMAIN wire' = 1..(Len(wire) - 1)
           /\ Len(wire) \in Nat /\ Len(wire') = Len(wire) - 1
<1>1. wire \in Seq(Messages) /\ wire # <<>> /\ Len(wire) <= MaxWire /\ wire' = Tail(wire)
  BY DEF Typed, Unheard
<1> QED BY <1>1, Taken, Bounds

\* The kind of a message tells its fields.
LEMMA KindsOfMessages ==
    ASSUME NEW m \in Messages
    PROVE  /\ m.kind = "row" => m \in RowMessages
           /\ m.kind = "part" => m \in Fragments
           /\ m.kind = "stop" => m \in Stops
BY DEF Messages, RowMessages, Fragments, Stops

\* A message that is sent is lost or goes behind the others.
LEMMA SendFacts ==
    ASSUME Typed, NEW m \in Messages, Send(m)
    PROVE  /\ wire' \in Seq(Messages) /\ Len(wire') <= MaxWire
           /\ wire' = wire
              \/ /\ Len(wire) \in Nat /\ Len(wire') = Len(wire) + 1
                 /\ DOMAIN wire = 1..Len(wire) /\ DOMAIN wire' = 1..(Len(wire) + 1)
                 /\ \A i \in DOMAIN wire : wire'[i] = wire[i]
                 /\ wire'[Len(wire) + 1] = m
                 /\ \A i \in DOMAIN wire' : i \in DOMAIN wire \/ i = Len(wire) + 1
<1>1. wire \in Seq(Messages) /\ (wire' = wire \/ wire' = Append(wire, m)) /\ Len(wire') <= MaxWire
  BY DEF Typed, Send
<1>2. CASE wire' = wire
  BY <1>1, <1>2
<1>3. CASE wire' = Append(wire, m)
  BY <1>1, <1>3, Added
<1> QED BY <1>1, <1>2, <1>3

\* The messages of a plan go behind the others, each a fragment of this plan.
LEMMA SendPlanFacts ==
    ASSUME Typed, SendPlan
    PROVE  /\ wire' \in Seq(Messages) /\ Len(wire') <= MaxWire
           /\ answers' = answers + 1
           /\ \A i \in DOMAIN wire' :
                  \/ i \in DOMAIN wire /\ wire'[i] = wire[i]
                  \/ /\ wire'[i] \in Fragments
                     /\ wire'[i].batch = answers' /\ wire'[i].of = plan
                     /\ wire'[i].length = plan[wire'[i].row]
<1>1. /\ wire \in Seq(Messages) /\ plan \in [Rows -> Lengths]
      /\ answers \in Nat /\ answers' = answers + 1
      /\ Len(wire) + Cardinality(Rows) <= MaxWire
  BY DEF Typed, SendPlan
<1>2. PICK sent \in SUBSET Rows :
          wire' = wire \o [i \in 1..Cardinality(sent) |->
                              [kind |-> "part", batch |-> answers', row |-> SetToSeq(sent)[i],
                               length |-> plan[SetToSeq(sent)[i]], of |-> plan]]
  BY DEF SendPlan
<1> DEFINE n == Cardinality(sent)
           order == SetToSeq(sent)
           part(r) == [kind |-> "part", batch |-> answers', row |-> r,
                       length |-> plan[r], of |-> plan]
           parts == [i \in 1..n |-> part(order[i])]
<1>3. n \in Nat /\ n <= Cardinality(Rows) /\ Cardinality(Rows) \in Nat
  BY Bounds, FS_Subset, FS_CardinalityType
<1>4. order \in [1..n -> sent]
  <2>1. ExistsBijection(1..n, sent)
    BY Bounds, FS_Subset, FS_CardinalityType
  <2>2. \E f \in [1..n -> sent] : IsInjective(f)
    BY <2>1 DEF ExistsBijection, Bijection, Injection
  <2> QED BY <2>2 DEF SetToSeq
<1>5. \A r \in Rows : part(r) \in Fragments
  BY <1>1 DEF Fragments
<1>6. \A i \in 1..n : /\ parts[i] \in Fragments
                      /\ parts[i].batch = answers' /\ parts[i].of = plan
                      /\ parts[i].length = plan[parts[i].row]
  BY <1>4, <1>5
<1> HIDE DEF n, order, part
<1>7. parts \in Seq(Messages) /\ Len(parts) = n
  <2>1. \A i \in 1..n : parts[i] \in Messages
    BY <1>6 DEF Messages
  <2>2. parts = [i \in 1..n |-> parts[i]]
    OBVIOUS
  <2> HIDE DEF parts
  <2> QED BY <1>3, <2>1, <2>2, IsASeq, LenProperties
<1>8. wire' = wire \o parts
  BY <1>2 DEF n, order, part
<1> HIDE DEF parts
<1>9. /\ wire' \in Seq(Messages) /\ Len(wire') = Len(wire) + n
      /\ DOMAIN wire' = 1..(Len(wire) + n) /\ DOMAIN wire = 1..Len(wire) /\ Len(wire) \in Nat
      /\ \A i \in 1..(Len(wire) + n) :
             wire'[i] = IF i <= Len(wire) THEN wire[i] ELSE parts[i - Len(wire)]
  <2>1. /\ wire \o parts \in Seq(Messages) /\ Len(wire \o parts) = Len(wire) + Len(parts)
        /\ \A i \in 1..(Len(wire) + Len(parts)) :
               (wire \o parts)[i] = IF i <= Len(wire) THEN wire[i] ELSE parts[i - Len(wire)]
    BY <1>1, <1>7, ConcatProperties
  <2>2. Len(wire) \in Nat /\ DOMAIN wire = 1..Len(wire)
    BY <1>1, LenProperties
  <2>3. DOMAIN (wire \o parts) = 1..Len(wire \o parts)
    BY <2>1, LenProperties
  <2> QED BY <1>7, <1>8, <2>1, <2>2, <2>3
<1> DEFINE w == Len(wire)
           q == wire'
<1>10. Len(q) <= MaxWire
  BY <1>1, <1>3, <1>9, Bounds
<1>11. ASSUME NEW i \in DOMAIN q, i \notin DOMAIN wire
       PROVE  q[i] = parts[i - w] /\ i - w \in 1..n
  <2> HIDE DEF w, q
  <2> QED BY <1>3, <1>9, <1>11 DEF w, q
<1>12. \A i \in DOMAIN wire : i \in DOMAIN q => q[i] = wire[i]
  BY <1>9
<1> QED BY <1>1, <1>6, <1>9, <1>10, <1>11, <1>12

\* The operators on rows return rows.
LEMMA RowsArePartial ==
    /\ \A m \in RowMessages : [Empty EXCEPT ![m.row] = m.length] \in Partial
    /\ \A parts \in Partial : Unfinished(parts) \in Partial
    /\ \A old, new \in Partial : Merged(old, new) \in Partial
    /\ \A rows \in Partial : Reported(rows) \subseteq Rows
<1>1. \A m \in RowMessages : [Empty EXCEPT ![m.row] = m.length] \in Partial
  BY EmptyPartial DEF RowMessages, Partial
<1>2. \A parts \in Partial : Unfinished(parts) \in Partial
  BY DEF Partial, Unfinished
<1>3. \A old, new \in Partial : Merged(old, new) \in Partial
  BY DEF Partial, Merged
<1>4. \A rows \in Partial : Reported(rows) \subseteq Rows
  BY DEF Reported
<1> QED BY <1>1, <1>2, <1>3, <1>4

\* Publishing keeps the types of the bus and the tasks.
LEMMA PublishTyped ==
    ASSUME Typed, Len(tasks) < MaxTasks,
           NEW rows \in Partial, NEW complete \in BOOLEAN, Publish(rows, complete)
    PROVE  /\ lastEvent' \in Events
           /\ tasks' \in Seq(Events) /\ Len(tasks') <= MaxTasks
<1> DEFINE event == [rows |-> rows, complete |-> complete]
<1>1. event \in Events /\ lastEvent' = event
  BY DEF Events, Publish
<1>2. tasks' = tasks \/ tasks' = Append(tasks, event)
  BY DEF Publish
<1>3. tasks \in Seq(Events) /\ Len(tasks) <= MaxTasks
  BY DEF Typed
<1> HIDE DEF event
<1>4. Append(tasks, event) \in Seq(Events) /\ Len(Append(tasks, event)) = Len(tasks) + 1 /\ Len(tasks) \in Nat
  BY <1>1, <1>3, Added
<1>5. tasks' \in Seq(Events)
  BY <1>2, <1>3, <1>4
<1>6. Len(tasks') <= MaxTasks
  BY <1>2, <1>3, <1>4, Bounds
<1> QED BY <1>1, <1>5, <1>6

\* So does the history.
LEMMA TellTyped ==
    ASSUME Typed, NEW rows \in Partial, NEW whole \in BOOLEAN, Tell(rows, whole)
    PROVE  reported' \in Partial /\ planned' \subseteq Rows /\ stopped' = stopped
<1>1. reported \in Partial /\ planned \subseteq Rows
  BY DEF Typed
<1>2. reported' = rows \/ reported' = Merged(reported, rows)
  BY DEF Tell
<1>3. planned' = planned \cup Reported(rows) \/ planned' = planned
  BY DEF Tell
<1> QED BY <1>1, <1>2, <1>3, RowsArePartial DEF Tell

\* What the buffer holds without the fragment's batch, and with it.
LEMMA ExtendedFacts ==
    ASSUME Typed, NEW part \in Fragments
    PROVE  /\ Batch(part, Held(part)) \in Filled
           /\ Reported(Batch(part, Held(part)).parts) # {}
           /\ Held(part) \in Partial
           /\ Known(part) => Slot(part) \in DOMAIN buffer /\ buffer[Slot(part)].batch = part.batch
           /\ Extended(part) \in Seq(Filled) /\ Extended(part) # <<>>
           /\ Len(Extended(part)) <= MaxBatches
           /\ Last(Extended(part)) = Batch(part, Held(part))
           /\ \A k \in DOMAIN Extended(part) :
                  \/ k = Len(Extended(part))
                  \/ \E l \in DOMAIN buffer : Extended(part)[k] = buffer[l]
<1> DEFINE new == Batch(part, Held(part))
           others == Others(part)
           all == Append(others, new)
           after == Extended(part)
<1>1. buffer \in Seq(Batches) /\ Len(buffer) <= MaxBatches
  BY DEF Typed
<1>2. Known(part) => Slot(part) \in DOMAIN buffer /\ buffer[Slot(part)].batch = part.batch
  BY DEF Known, Slot
<1>3. Held(part) \in Partial
  <2>1. CASE Known(part)
    <3>1. buffer[Slot(part)] \in Batches
      BY <1>1, <1>2, <2>1, ElementOfSeq, LenProperties
    <3> QED BY <2>1, <3>1 DEF Held, Batches, Filled
  <2> QED BY <2>1, EmptyPartial DEF Held
<1>4. new \in Filled /\ Reported(new.parts) # {}
  <2>1. part.row \in Rows /\ part.length \in Lengths /\ part.batch \in Nat
    BY DEF Fragments
  <2>2. new.parts = [Held(part) EXCEPT ![part.row] = part.length] /\ new.batch = part.batch
    BY DEF Batch
  <2>3. new.parts[part.row] = part.length
    BY <1>3, <2>1, <2>2 DEF Partial
  <2>4. part.row \in Reported(new.parts)
    BY <2>1, <2>3, LengthsFacts DEF Reported
  <2> QED BY <1>3, <2>1, <2>4 DEF Batch, Filled, Partial
<1>5. /\ others \in Seq(Batches) /\ Len(others) <= MaxBatches /\ Len(others) \in Nat
      /\ \A k \in DOMAIN others : \E l \in DOMAIN buffer : others[k] = buffer[l]
  <2>1. CASE Known(part)
    <3>1. others = RemoveAt(buffer, Slot(part))
      BY <2>1 DEF Others
    <3>2. /\ others \in Seq(Batches) /\ Len(others) = Len(buffer) - 1
          /\ \A k \in DOMAIN others : \E l \in DOMAIN buffer : others[k] = buffer[l]
      BY <1>1, <1>2, <2>1, <3>1, Without
    <3>3. Len(others) \in Nat /\ Len(buffer) \in Nat
      BY <1>1, <3>2, LenProperties
    <3> HIDE DEF others
    <3> QED BY <1>1, <3>2, <3>3, Bounds
  <2>2. CASE ~Known(part)
    BY <1>1, <2>2, LenProperties DEF Others
  <2> QED BY <2>1, <2>2
<1> HIDE DEF new, others
<1>6. others \in Seq(Filled)
  <2>1. Batches \subseteq Filled
    BY DEF Batches
  <2> QED BY <1>5, <2>1
<1>7. /\ all \in Seq(Filled) /\ Len(all) = Len(others) + 1
      /\ DOMAIN all = 1..(Len(others) + 1) /\ DOMAIN others = 1..Len(others)
      /\ all[Len(others) + 1] = new
      /\ \A k \in DOMAIN others : all[k] = others[k]
      /\ \A k \in DOMAIN all : k \in DOMAIN others \/ k = Len(others) + 1
  BY <1>4, <1>6, Added
<1> HIDE DEF all
<1>8. after = IF Len(all) > MaxBatches THEN Tail(all) ELSE all
  BY DEF Extended, all, new, others
<1> HIDE DEF after
<1>9. all # <<>>
  BY <1>5, <1>7, EmptySeq
<1>10. CASE Len(all) > MaxBatches
  <2>1. after = Tail(all)
    BY <1>8, <1>10
  <2>2. /\ after \in Seq(Filled) /\ Len(after) = Len(all) - 1
        /\ DOMAIN after = 1..(Len(all) - 1)
        /\ \A k \in DOMAIN after : k + 1 \in DOMAIN all /\ after[k] = all[k + 1]
    BY <1>7, <1>9, <2>1, Taken
  <2>3. Len(others) = MaxBatches /\ Len(after) = MaxBatches
    <3>1. Len(all) = Len(others) + 1 /\ Len(after) = Len(all) - 1
      BY <1>7, <2>2
    <3>2. Len(others) <= MaxBatches /\ Len(others) \in Nat /\ MaxBatches \in Nat
      BY <1>5, Bounds
    <3> QED BY <1>10, <3>1, <3>2
  <2>4. after # <<>>
    BY <2>3, Bounds, EmptySeq
  <2>5. Last(after) = new
    <3>1. MaxBatches \in DOMAIN after
      BY <1>7, <2>2, <2>3, Bounds
    <3>2. after[MaxBatches] = all[MaxBatches + 1]
      BY <2>2, <3>1
    <3> QED BY <1>7, <2>3, <3>2 DEF Last
  <2>6. ASSUME NEW k \in DOMAIN after, k # Len(after)
        PROVE  \E l \in DOMAIN buffer : after[k] = buffer[l]
    <3>1. k + 1 \in DOMAIN others
      BY <1>7, <2>2, <2>3, <2>6, Bounds
    <3> QED BY <1>5, <1>7, <2>2, <3>1
  <2> QED BY <1>2, <1>3, <1>4, <2>2, <2>3, <2>4, <2>5, <2>6, Bounds DEF after, new
<1>11. CASE ~(Len(all) > MaxBatches)
  <2>1. after = all
    BY <1>8, <1>11
  <2>2. Len(after) <= MaxBatches /\ Len(after) = Len(others) + 1
    BY <1>5, <1>7, <1>11, <2>1, Bounds
  <2>3. Last(after) = new
    BY <1>7, <2>1, <2>2 DEF Last
  <2>4. ASSUME NEW k \in DOMAIN after, k # Len(after)
        PROVE  \E l \in DOMAIN buffer : after[k] = buffer[l]
    <3>1. k \in DOMAIN others
      BY <1>7, <2>1, <2>2, <2>4
    <3> QED BY <1>5, <1>7, <2>1, <3>1
  <2>5. after \in Seq(Filled) /\ after # <<>>
    BY <1>7, <1>9, <2>1
  <2> QED BY <1>2, <1>3, <1>4, <2>2, <2>3, <2>4, <2>5 DEF after, new
<1> QED BY <1>10, <1>11

\* A fragment completes its plan, or joins the incomplete ones.
LEMMA PartFacts ==
    ASSUME Typed, PartArrives
    PROVE  LET part == Head(wire)
               new == Batch(part, Held(part))
           IN  /\ part \in Fragments /\ new \in Filled
               /\ buffer' \in Seq(Batches) /\ Len(buffer') <= MaxBatches
               /\ \A k \in DOMAIN buffer' :
                      buffer'[k] = new \/ \E l \in DOMAIN buffer : buffer'[k] = buffer[l]
               /\ \/ Reported(new.parts) = Rows /\ PublishPlan(Unfinished(new.parts))
                  \/ UNCHANGED <<events, told>>
<1> DEFINE part == Head(wire)
           new == Batch(part, Held(part))
           after == Extended(part)
<1>1. part \in Fragments
  BY ArrivingFacts, KindsOfMessages DEF PartArrives
<1>2. /\ new \in Filled /\ Reported(new.parts) # {}
      /\ after \in Seq(Filled) /\ after # <<>> /\ Len(after) <= MaxBatches
      /\ Last(after) = new
      /\ \A k \in DOMAIN after :
             k = Len(after) \/ \E l \in DOMAIN buffer : after[k] = buffer[l]
  BY <1>1, ExtendedFacts
<1>3. IF Reported(new.parts) = Rows
      THEN buffer' = Front(after) /\ PublishPlan(Unfinished(new.parts))
      ELSE buffer' = after /\ UNCHANGED <<events, told>>
  BY <1>2 DEF PartArrives
<1>4. \A l \in DOMAIN buffer : buffer[l] \in Batches
  BY ElementOfSeq, LenProperties DEF Typed
<1> HIDE DEF part, new, after
<1>5. CASE Reported(new.parts) = Rows
  <2>1. buffer' = Front(after)
    BY <1>3, <1>5
  <2>2. /\ Front(after) \in Seq(Filled) /\ Len(Front(after)) = Len(after) - 1
        /\ \A k \in DOMAIN Front(after) : k \in DOMAIN after /\ Front(after)[k] = after[k]
    BY <1>2, WithoutLast
  <2> DEFINE f == Front(after)
  <2>3. Len(after) \in Nat /\ DOMAIN f = 1..Len(f)
    BY <1>2, <2>2, LenProperties
  <2> HIDE DEF f
  <2>4. Len(f) <= MaxBatches
    BY <1>2, <2>2, <2>3, Bounds DEF f
  <2>5. \A k \in DOMAIN f : k # Len(after)
    BY <2>2, <2>3 DEF f
  <2>6. \A k \in DOMAIN f : \E l \in DOMAIN buffer : f[k] = buffer[l]
    BY <1>2, <2>2, <2>5 DEF f
  <2>7. f \in Seq(Batches)
    <3>1. \A k \in 1..Len(f) : f[k] \in Batches
      BY <1>4, <2>3, <2>6
    <3>2. f \in Seq(Filled) /\ Len(f) \in Nat
      BY <2>2, LenProperties DEF f
    <3>3. f = [k \in 1..Len(f) |-> f[k]]
      BY <3>2, LenProperties
    <3> QED BY <3>1, <3>2, <3>3, IsASeq
  <2> QED BY <1>1, <1>2, <1>3, <1>5, <2>1, <2>4, <2>6, <2>7 DEF f, part, new
<1>6. CASE Reported(new.parts) # Rows
  <2>1. buffer' = after /\ UNCHANGED <<events, told>>
    BY <1>3, <1>6
  <2>2. new \in Batches
    BY <1>2, <1>6 DEF Batches
  <2>3. Len(after) \in Nat /\ DOMAIN after = 1..Len(after) /\ after[Len(after)] = new
    BY <1>2, LenProperties DEF Last
  <2>4. \A k \in DOMAIN after : after[k] = new \/ \E l \in DOMAIN buffer : after[k] = buffer[l]
    BY <1>2, <2>3
  <2>5. after \in Seq(Batches)
    <3>1. \A k \in 1..Len(after) : after[k] \in Batches
      BY <1>4, <2>2, <2>3, <2>4
    <3>2. after = [k \in 1..Len(after) |-> after[k]]
      BY <1>2, LenProperties
    <3> QED BY <2>3, <3>1, <3>2, IsASeq
  <2> QED BY <1>1, <1>2, <2>1, <2>4, <2>5 DEF part, new
<1> QED BY <1>5, <1>6 DEF part, new

\* What passed through the buffer may have cost it its oldest batch.
LEMMA PassedFacts ==
    ASSUME Typed
    PROVE  /\ Passed \in Seq(Batches) /\ Len(Passed) <= MaxBatches
           /\ \A k \in DOMAIN Passed : \E l \in DOMAIN buffer : Passed[k] = buffer[l]
<1>1. buffer \in Seq(Batches) /\ Len(buffer) <= MaxBatches
  BY DEF Typed
<1>2. CASE Len(buffer) = MaxBatches
  <2>1. buffer # <<>> /\ Passed = Tail(buffer)
    BY <1>2, Bounds, EmptySeq DEF Passed
  <2>2. /\ Passed \in Seq(Batches) /\ Len(Passed) = Len(buffer) - 1
        /\ \A k \in DOMAIN Passed : k + 1 \in DOMAIN buffer /\ Passed[k] = buffer[k + 1]
    BY <1>1, <2>1, Taken
  <2> QED BY <1>2, <2>2, Bounds
<1>3. CASE Len(buffer) # MaxBatches
  BY <1>1, <1>3 DEF Passed
<1> QED BY <1>2, <1>3

\* What is written to the store, and read from it, has its type.
LEMMA SavesTyped == Typed => AsDict \in Saves /\ (\A now \in Readings : FromDict(now) \in Partial)
BY EmptyPartial DEF Typed, AsDict, FromDict, Saves

\* Every step keeps the types.
LEMMA TypedStep == Typed /\ [Next]_vars => Typed'
<1> SUFFICES ASSUME Typed, [Next]_vars PROVE Typed'
  OBVIOUS
<1> USE DEF vars, mower, events, saved, life, told
<1>1. CASE BeginJob
  <2>1. plan' \in [Rows -> Lengths] /\ running' \in BOOLEAN /\ stopped' \in BOOLEAN
    BY <1>1 DEF BeginJob
  <2>2. jobs' \in Nat
    BY <1>1 DEF BeginJob, Typed
  <2> QED BY <1>1, <2>1, <2>2 DEF BeginJob, Typed
<1>2. ASSUME NEW r \in Rows, Mow(r) PROVE Typed'
  <2>1. plan \in [Rows -> Lengths] /\ plan[r] > 0
    BY <1>2 DEF Mow, Typed
  <2>2. plan' = [plan EXCEPT ![r] = plan[r] - 1]
    BY <1>2 DEF Mow
  <2>3. plan[r] - 1 \in Lengths
    <3>1. plan[r] \in 0..MaxLength
      BY <2>1 DEF Lengths
    <3> QED BY <2>1, <3>1, Bounds DEF Lengths
  <2>4. plan' \in [Rows -> Lengths] /\ plan'[r] \in Lengths
    BY <2>1, <2>2, <2>3
  <2>5. [kind |-> "row", row |-> r, length |-> plan'[r]] \in Messages
    BY <2>4 DEF Messages, RowMessages
  <2>6. wire' \in Seq(Messages) /\ Len(wire') <= MaxWire
    BY <1>2, <2>5, SendFacts DEF Mow
  <2> QED BY <1>2, <2>4, <2>6 DEF Mow, Typed
<1>3. CASE SendPlan
  <2>1. wire' \in Seq(Messages) /\ Len(wire') <= MaxWire
    BY <1>3, SendPlanFacts
  <2>2. answers' \in Nat
    BY <1>3 DEF SendPlan, Typed
  <2> QED BY <1>3, <2>1, <2>2 DEF SendPlan, Typed
<1>4. ASSUME NEW trigger \in Triggers, EndJob(trigger) PROVE Typed'
  <2>1. [kind |-> "stop", job |-> jobs, trigger |-> trigger] \in Messages
    BY DEF Messages, Stops, Typed
  <2>2. wire' \in Seq(Messages) /\ Len(wire') <= MaxWire
    BY <1>4, <2>1, SendFacts DEF EndJob
  <2>3. plan' \in [Rows -> Lengths]
    BY <1>4, LengthsFacts DEF EndJob
  <2> QED BY <1>4, <2>2, <2>3 DEF EndJob, Typed
<1>5. CASE RowArrives
  <2> DEFINE rows == [Empty EXCEPT ![Head(wire).row] = Head(wire).length]
  <2>1. Arriving("row") /\ Publish(rows, FALSE) /\ Tell(rows, FALSE) /\ buffer' = Passed
    BY <1>5 DEF RowArrives
  <2>2. wire' \in Seq(Messages) /\ Len(wire') <= MaxWire /\ Head(wire) \in RowMessages
    BY <2>1, ArrivingFacts, KindsOfMessages
  <2>3. rows \in Partial
    BY <2>2, RowsArePartial
  <2> HIDE DEF rows
  <2>4. lastEvent' \in Events /\ tasks' \in Seq(Events) /\ Len(tasks') <= MaxTasks
    BY <2>1, <2>3, PublishTyped DEF Arriving
  <2>5. reported' \in Partial /\ planned' \subseteq Rows /\ stopped' = stopped
    BY <2>1, <2>3, TellTyped
  <2>6. buffer' \in Seq(Batches) /\ Len(buffer') <= MaxBatches
    BY <2>1, PassedFacts
  <2> QED BY <1>5, <2>2, <2>4, <2>5, <2>6 DEF RowArrives, Typed
<1>6. CASE PartArrives
  <2> DEFINE new == Batch(Head(wire), Held(Head(wire)))
             rows == Unfinished(new.parts)
  <2>1. /\ new \in Filled /\ buffer' \in Seq(Batches) /\ Len(buffer') <= MaxBatches
        /\ PublishPlan(rows) \/ UNCHANGED <<events, told>>
    BY <1>6, PartFacts
  <2>2. wire' \in Seq(Messages) /\ Len(wire') <= MaxWire /\ Len(tasks) < MaxTasks
    BY <1>6, ArrivingFacts DEF PartArrives, Arriving
  <2>3. rows \in Partial
    BY <2>1, RowsArePartial DEF Filled
  <2> HIDE DEF new, rows
  <2>4. /\ lastEvent' \in Events \cup {None} /\ tasks' \in Seq(Events) /\ Len(tasks') <= MaxTasks
        /\ reported' \in Partial /\ planned' \subseteq Rows /\ stopped' = stopped
    <3>1. CASE UNCHANGED <<events, told>>
      BY <3>1 DEF Typed
    <3>2. CASE Publish(rows, reading = "remaining") /\ Tell(rows, reading = "remaining")
      <4>1. (reading = "remaining") \in BOOLEAN
        OBVIOUS
      <4> QED BY <2>2, <2>3, <3>2, <4>1, PublishTyped, TellTyped
    <3> QED BY <2>1, <3>1, <3>2 DEF PublishPlan
  <2> QED BY <1>6, <2>1, <2>2, <2>4 DEF PartArrives, Typed
<1>7. CASE StopArrives
  <2>1. wire' \in Seq(Messages) /\ Len(wire') <= MaxWire /\ Len(tasks) < MaxTasks
    BY <1>7, ArrivingFacts DEF StopArrives, Arriving
  <2>2. /\ lastEvent' \in Events \cup {None} /\ tasks' \in Seq(Events) /\ Len(tasks') <= MaxTasks
        /\ map' = map
    <3>1. CASE UNCHANGED <<events, map>>
      BY <3>1 DEF Typed
    <3>2. CASE Publish(Empty, TRUE) /\ UNCHANGED map
      BY <2>1, <3>2, EmptyPartial, PublishTyped
    <3> QED BY <1>7, <3>1, <3>2 DEF StopArrives, Reset
  <2>3. reported' \in Partial
    BY <1>7, EmptyPartial DEF StopArrives, Typed
  <2>4. stopped' \in BOOLEAN
    BY <1>7 DEF StopArrives
  <2> QED BY <1>7, <2>1, <2>2, <2>3, <2>4 DEF StopArrives, Typed
<1>8. CASE OnRows
  <2>1. tasks \in Seq(Events) /\ tasks # <<>> /\ tasks' = Tail(tasks) /\ Len(tasks) <= MaxTasks
    BY <1>8 DEF OnRows, Typed
  <2>2. Head(tasks) \in Events /\ tasks' \in Seq(Events) /\ Len(tasks') <= MaxTasks
    BY <2>1, Taken, Bounds
  <2>3. map' \in Partial
    <3>1. map' = Head(tasks).rows \/ map' = Merged(map, Head(tasks).rows)
      BY <1>8 DEF OnRows
    <3>2. Head(tasks).rows \in Partial /\ map \in Partial
      BY <2>2 DEF Events, Typed
    <3> QED BY <3>1, <3>2, RowsArePartial
  <2>4. missed' \in BOOLEAN
    BY <1>8 DEF OnRows, Typed
  <2> QED BY <1>8, <2>2, <2>3, <2>4 DEF OnRows, Typed
<1>9. CASE DelayedSave
  BY <1>9, SavesTyped DEF DelayedSave, Typed
<1>10. CASE Teardown
  BY <1>10, SavesTyped DEF Teardown, Typed
<1>11. CASE TeardownDevice
  <2>1. tasks' \in Seq(Events) /\ Len(tasks') <= MaxTasks
    BY <1>11, EmptySeq, Bounds DEF TeardownDevice
  <2>2. leftover' \in Saves /\ missed' \in BOOLEAN
    BY <1>11, SavesTyped DEF TeardownDevice, Typed
  <2> QED BY <1>11, <2>1, <2>2 DEF TeardownDevice, Typed
<1>12. CASE LeftoverSave
  BY <1>12, EmptyPartial DEF LeftoverSave, Typed
<1>13. CASE Crash
  <2>1. tasks' \in Seq(Events) /\ Len(tasks') <= MaxTasks /\ buffer' \in Seq(Batches) /\ Len(buffer') <= MaxBatches
    BY <1>13, EmptySeq, Bounds DEF Crash
  <2>2. leftover' \in Saves /\ missed' \in BOOLEAN
    BY <1>13, EmptyPartial DEF Crash, Typed
  <2> QED BY <1>13, <2>1, <2>2 DEF Crash, Typed
<1>14. CASE Unheard
  BY <1>14, UnheardFacts DEF Unheard, Typed
<1>15. CASE Setup
  <2>1. reading' \in Readings
    BY <1>15 DEF Setup, Typed, Readings
  <2>2. FromDict(reading') \in Partial
    BY <2>1, SavesTyped
  <2> QED BY <1>15, <2>1, <2>2 DEF Setup, Typed
<1>16. CASE SetupDiscarding
  BY <1>16, EmptyPartial DEF SetupDiscarding, Typed
<1>17. CASE UNCHANGED vars
  BY <1>17 DEF Typed
<1> QED BY <1>1, <1>2, <1>3, <1>4, <1>5, <1>6, <1>7, <1>8, <1>9, <1>10, <1>11, <1>12,
           <1>13, <1>14, <1>15, <1>16, <1>17 DEF Next, Triggers

-------------------------------------------------------------------------------
(* The events that wait and the map they are for.                           *)

\* A row event that is handed to the bus, and to the history.
Tells(rows, whole) ==
    /\ Publish(rows, whole)
    /\ reported' = IF whole THEN rows ELSE Merged(reported, rows)

\* An event that repeats the last one is dropped and costs nothing: the rows it
\* tells of were told.  Any other waits behind the rest.
LEMMA TellsFollow ==
    ASSUME Typed, MapFollows, LastIsReported, stage # "down", UNCHANGED map,
           NEW rows \in Partial, NEW whole \in BOOLEAN, Tells(rows, whole)
    PROVE  (\A r \in Rows : Follows(r))' /\ LastIsReported'
<1> DEFINE event == [rows |-> rows, complete |-> whole]
<1>1. event \in Events /\ event # None
  <2>1. event \in Events
    BY DEF Events
  <2> QED BY <2>1, NoneAssumption
<1>2. /\ lastEvent' = event
      /\ tasks' = IF event = lastEvent THEN tasks ELSE Append(tasks, event)
  BY DEF Tells, Publish
<1>3. \A r \in Rows : reported'[r] = IF Concerns(event, r) THEN rows[r] ELSE reported[r]
  BY DEF Tells, Merged, Concerns
<1>4. event.rows = rows
  OBVIOUS
<1> HIDE DEF event
<1>5. LastIsReported'
  BY <1>2, <1>3, <1>4 DEF LastIsReported, Concerns
<1>6. ASSUME NEW r \in Rows PROVE Follows(r)'
  <2>1. Follows(r)
    BY DEF MapFollows
  <2>2. CASE event = lastEvent
    <3>1. tasks' = tasks /\ map' = map
      BY <1>2, <2>2
    <3>2. reported'[r] = reported[r]
      BY <1>1, <1>3, <1>4, <2>2 DEF LastIsReported
    <3> QED BY <2>1, <3>1, <3>2 DEF Follows
  <2>3. CASE event # lastEvent
    <3> DEFINE n == Len(tasks) + 1
    <3>1. /\ tasks' = Append(tasks, event) /\ map' = map
          /\ Len(tasks) \in Nat
          /\ DOMAIN tasks = 1..Len(tasks) /\ DOMAIN tasks' = 1..n
          /\ \A i \in DOMAIN tasks : tasks'[i] = tasks[i]
          /\ tasks'[n] = event
          /\ \A i \in DOMAIN tasks' : i \in DOMAIN tasks \/ i = n
      BY <1>1, <1>2, <2>3, Added DEF Typed
    <3>2. n \in DOMAIN tasks' /\ \A i \in DOMAIN tasks : i \in DOMAIN tasks' /\ ~(i > n) /\ n > i
      BY <3>1
    <3> HIDE DEF n
    <3>3. CASE Concerns(event, r)
      <4>1. /\ n \in DOMAIN tasks' /\ Concerns(tasks'[n], r) /\ tasks'[n].rows[r] = reported'[r]
        BY <1>3, <1>4, <3>1, <3>2, <3>3
      <4>2. \A j \in DOMAIN tasks' : ~(j > n)
        BY <3>1, <3>2
      <4> QED BY <4>1, <4>2 DEF Follows, Concerns
    <3>4. CASE ~Concerns(event, r)
      <4>1. reported'[r] = reported[r]
        BY <1>3, <3>4
      <4>2. CASE map[r] = reported[r] /\ \A i \in DOMAIN tasks : ~Concerns(tasks[i], r)
        <5>1. \A i \in DOMAIN tasks' : ~Concerns(tasks'[i], r)
          BY <3>1, <3>4, <4>2
        <5> QED BY <3>1, <4>1, <4>2, <5>1 DEF Follows, Concerns
      <4>3. CASE \E i \in DOMAIN tasks :
                    /\ Concerns(tasks[i], r)
                    /\ tasks[i].rows[r] = reported[r]
                    /\ \A j \in DOMAIN tasks : j > i => ~Concerns(tasks[j], r)
        <5>1. PICK i \in DOMAIN tasks :
                    /\ Concerns(tasks[i], r)
                    /\ tasks[i].rows[r] = reported[r]
                    /\ \A j \in DOMAIN tasks : j > i => ~Concerns(tasks[j], r)
          BY <4>3
        <5>2. i \in DOMAIN tasks' /\ Concerns(tasks'[i], r) /\ tasks'[i].rows[r] = reported'[r]
          BY <3>1, <3>2, <4>1, <5>1
        <5>3. \A j \in DOMAIN tasks' : j > i => ~Concerns(tasks'[j], r)
          BY <3>1, <3>4, <5>1
        <5> QED BY <5>2, <5>3 DEF Follows, Concerns
      <4> QED BY <2>1, <4>2, <4>3 DEF Follows
    <3> QED BY <3>3, <3>4
  <2> QED BY <2>2, <2>3
<1> QED BY <1>5, <1>6

\* The first event that waits reaches the map.
LEMMA OnRowsFollows ==
    ASSUME Typed, MapFollows, stage # "down", OnRows
    PROVE  (\A r \in Rows : Follows(r))'
<1>1. /\ tasks \in Seq(Events) /\ tasks # <<>> /\ tasks' = Tail(tasks)
      /\ reported' = reported
  BY DEF OnRows, Typed, told
<1>2. /\ Head(tasks) = tasks[1] /\ 1 \in DOMAIN tasks
      /\ Len(tasks) \in Nat /\ DOMAIN tasks = 1..Len(tasks) /\ DOMAIN tasks' = 1..(Len(tasks) - 1)
      /\ \A i \in DOMAIN tasks' : i + 1 \in DOMAIN tasks /\ tasks'[i] = tasks[i + 1]
  BY <1>1, Taken
<1>3. \A r \in Rows : map'[r] = IF Concerns(tasks[1], r) THEN tasks[1].rows[r] ELSE map[r]
  BY <1>2 DEF OnRows, Concerns, Merged
<1> SUFFICES ASSUME NEW r \in Rows PROVE Follows(r)'
  OBVIOUS
<1>4. Follows(r)
  BY DEF MapFollows
<1>5. CASE map[r] = reported[r] /\ \A i \in DOMAIN tasks : ~Concerns(tasks[i], r)
  <2>1. map'[r] = reported'[r]
    BY <1>1, <1>2, <1>3, <1>5
  <2>2. \A i \in DOMAIN tasks' : ~Concerns(tasks'[i], r)
    BY <1>2, <1>5
  <2> QED BY <2>1, <2>2 DEF Follows, Concerns
<1>6. CASE \E i \in DOMAIN tasks :
               /\ Concerns(tasks[i], r)
               /\ tasks[i].rows[r] = reported[r]
               /\ \A j \in DOMAIN tasks : j > i => ~Concerns(tasks[j], r)
  <2>1. PICK i \in DOMAIN tasks :
               /\ Concerns(tasks[i], r)
               /\ tasks[i].rows[r] = reported[r]
               /\ \A j \in DOMAIN tasks : j > i => ~Concerns(tasks[j], r)
    BY <1>6
  <2>2. CASE i = 1
    <3>1. map'[r] = reported'[r]
      BY <1>1, <1>3, <2>1, <2>2
    <3>2. \A k \in DOMAIN tasks' : k + 1 > 1
      BY <1>2
    <3>3. \A k \in DOMAIN tasks' : ~Concerns(tasks'[k], r)
      BY <1>2, <2>1, <2>2, <3>2
    <3> QED BY <3>1, <3>3 DEF Follows, Concerns
  <2>3. CASE i # 1
    <3> DEFINE k == i - 1
    <3>1. k \in DOMAIN tasks' /\ k + 1 = i /\ \A j \in DOMAIN tasks' : j > k => j + 1 > i
      BY <1>2, <2>3
    <3> HIDE DEF k
    <3>2. tasks'[k] = tasks[i]
      BY <1>2, <3>1
    <3>3. \A j \in DOMAIN tasks' : j > k => ~Concerns(tasks'[j], r)
      BY <1>2, <2>1, <3>1
    <3>4. Concerns(tasks'[k], r) /\ tasks'[k].rows[r] = reported'[r]
      BY <1>1, <2>1, <3>2
    <3> QED BY <3>1, <3>3, <3>4 DEF Follows, Concerns
  <2> QED BY <2>2, <2>3
<1> QED BY <1>4, <1>5, <1>6 DEF Follows

\* With nothing waiting the map is the one that was told, and back.
LEMMA Followed ==
    ASSUME Typed, tasks = <<>>
    PROVE  (\A r \in Rows : Follows(r)) <=> map = reported
<1>1. DOMAIN tasks = {}
  BY DEF Typed
<1>2. \A r \in Rows : Follows(r) <=> map[r] = reported[r]
  BY <1>1 DEF Follows
<1>3. map \in Partial /\ reported \in Partial
  BY DEF Typed
<1>4. map = [r \in Rows |-> map[r]] /\ reported = [r \in Rows |-> reported[r]]
  BY <1>3 DEF Partial
<1> QED BY <1>2, <1>4

\* What a message that arrives tells, if it tells of rows at all.
LEMMA ArrivalTells ==
    ASSUME Typed, RowArrives \/ PartArrives \/ StopArrives
    PROVE  /\ stage # "down" /\ UNCHANGED <<mower, map, saved, life>>
           /\ planned \subseteq planned'
           /\ \/ UNCHANGED <<events, reported>>
              \/ \E rows \in Partial, whole \in BOOLEAN :
                     /\ Tells(rows, whole)
                     /\ whole => reading = "remaining"
                     /\ reading = "remaining" => Reported(rows) \subseteq planned'
<1>1. CASE RowArrives
  <2> DEFINE rows == [Empty EXCEPT ![Head(wire).row] = Head(wire).length]
  <2>1. Arriving("row") /\ Publish(rows, FALSE) /\ Tell(rows, FALSE)
    BY <1>1 DEF RowArrives
  <2>2. rows \in Partial
    BY <2>1, ArrivingFacts, KindsOfMessages, RowsArePartial
  <2> HIDE DEF rows
  <2>3. Tells(rows, FALSE) /\ planned \subseteq planned'
        /\ (reading = "remaining" => Reported(rows) \subseteq planned')
    BY <2>1 DEF Tells, Tell
  <2>4. stage # "down" /\ UNCHANGED <<mower, map, saved, life>>
    BY <1>1, <2>1 DEF RowArrives, Arriving
  <2> QED BY <2>2, <2>3, <2>4
<1>2. CASE PartArrives
  <2> DEFINE new == Batch(Head(wire), Held(Head(wire)))
             rows == Unfinished(new.parts)
             whole == reading = "remaining"
  <2>1. new \in Filled /\ (PublishPlan(rows) \/ UNCHANGED <<events, told>>)
    BY <1>2, PartFacts
  <2>2. rows \in Partial
    BY <2>1, RowsArePartial DEF Filled
  <2> HIDE DEF new, rows
  <2>3. stage # "down" /\ UNCHANGED <<mower, map, saved, life>>
    BY <1>2 DEF PartArrives, Arriving
  <2>4. CASE UNCHANGED <<events, told>>
    BY <2>3, <2>4 DEF told
  <2>5. CASE Publish(rows, whole) /\ Tell(rows, whole)
    <3>1. Tells(rows, whole) /\ planned \subseteq planned'
          /\ (reading = "remaining" => Reported(rows) \subseteq planned')
      BY <2>5 DEF Tells, Tell
    <3>2. whole \in BOOLEAN /\ (whole => reading = "remaining")
      OBVIOUS
    <3> HIDE DEF whole
    <3> QED BY <2>2, <2>3, <3>1, <3>2
  <2> QED BY <2>1, <2>4, <2>5 DEF PublishPlan
<1>3. CASE StopArrives
  <2>1. stage # "down" /\ UNCHANGED <<mower, map, saved, life>> /\ planned' = planned
    <3>1. UNCHANGED map
      BY <1>3 DEF StopArrives, Reset
    <3> QED BY <1>3, <3>1 DEF StopArrives, Arriving
  <2>2. CASE Head(wire).trigger # None /\ reading = "remaining"
    <3>1. Publish(Empty, TRUE) /\ reported' = Empty
      BY <1>3, <2>2 DEF StopArrives, Reset
    <3>2. Tells(Empty, TRUE) /\ Reported(Empty) = {}
      BY <3>1 DEF Tells, Reported, Empty
    <3> QED BY <2>1, <2>2, <3>2, EmptyPartial
  <2>3. CASE ~(Head(wire).trigger # None /\ reading = "remaining")
    <3>1. UNCHANGED events /\ UNCHANGED reported
      BY <1>3, <2>3 DEF StopArrives, Reset
    <3> QED BY <2>1, <3>1
  <2> QED BY <2>2, <2>3
<1> QED BY <1>1, <1>2, <1>3

\* The steps that leave the events, the map and what was told as they are.
Aloof ==
    \/ BeginJob \/ \E r \in Rows : Mow(r)
    \/ SendPlan \/ \E trigger \in Triggers : EndJob(trigger)
    \/ Unheard \/ UNCHANGED vars

\* They do.
LEMMA AloofFacts ==
    ASSUME Aloof
    PROVE  /\ UNCHANGED <<events, map, saved, life, reported, planned>>
           /\ UNCHANGED buffer
<1> USE DEF vars, mower, events, saved, life, told
<1>1. CASE BeginJob
  BY <1>1 DEF BeginJob
<1>2. CASE \E r \in Rows : Mow(r)
  BY <1>2 DEF Mow
<1>3. CASE SendPlan
  BY <1>3 DEF SendPlan
<1>4. CASE \E trigger \in Triggers : EndJob(trigger)
  BY <1>4 DEF EndJob
<1>5. CASE Unheard
  BY <1>5 DEF Unheard
<1>6. CASE UNCHANGED vars
  BY <1>6
<1> QED BY <1>1, <1>2, <1>3, <1>4, <1>5, <1>6 DEF Aloof

\* The other steps change the events, the map, its store or the stage.
LEMMA StepCases ==
    ASSUME [Next]_vars
    PROVE  \/ Aloof
           \/ RowArrives \/ PartArrives \/ StopArrives
           \/ OnRows \/ DelayedSave \/ Teardown \/ TeardownDevice \/ LeftoverSave
           \/ Crash \/ Setup \/ SetupDiscarding
BY DEF Next, Aloof, Triggers

\* Every step keeps the map behind the events by what waits, no more.
LEMMA FollowsStep ==
    ASSUME Typed, MapFollows, LastIsReported, DownIsQuiet, [Next]_vars
    PROVE  MapFollows' /\ LastIsReported'
<1> USE DEF events, saved, life, told
<1>1. CASE Aloof
  BY <1>1, AloofFacts DEF MapFollows, Follows, Concerns, LastIsReported
<1>2. CASE RowArrives \/ PartArrives \/ StopArrives
  <2>1. stage # "down" /\ UNCHANGED <<map, stage>>
    BY <1>2, ArrivalTells
  <2>2. CASE UNCHANGED <<events, reported>>
    BY <2>1, <2>2 DEF MapFollows, Follows, Concerns, LastIsReported
  <2>3. CASE \E rows \in Partial, whole \in BOOLEAN : Tells(rows, whole)
    BY <2>1, <2>3, TellsFollow DEF MapFollows
  <2> QED BY <1>2, <2>2, <2>3, ArrivalTells
<1>3. CASE OnRows
  <2>1. UNCHANGED <<lastEvent, reported, stage>>
    BY <1>3 DEF OnRows
  <2>2. LastIsReported'
    BY <2>1 DEF LastIsReported, Concerns
  <2>3. MapFollows'
    BY <1>3, <2>1, OnRowsFollows DEF MapFollows
  <2> QED BY <2>2, <2>3
<1>4. CASE DelayedSave \/ LeftoverSave \/ Teardown
  <2>1. UNCHANGED <<events, map, reported>> /\ (stage = "down" => stage' = "down")
    BY <1>4 DEF DelayedSave, LeftoverSave, Teardown
  <2> QED BY <2>1 DEF MapFollows, Follows, Concerns, LastIsReported
<1>5. CASE TeardownDevice \/ Crash
  BY <1>5 DEF TeardownDevice, Crash, MapFollows, LastIsReported
<1>6. CASE Setup \/ SetupDiscarding
  <2>1. /\ tasks = <<>> /\ lastEvent = None /\ UNCHANGED events
        /\ map' = reported'
    BY <1>6 DEF Setup, SetupDiscarding, DownIsQuiet
  <2>2. DOMAIN tasks' = {}
    BY <2>1
  <2> QED BY <2>1, <2>2 DEF MapFollows, Follows, LastIsReported
<1> QED BY <1>1, <1>2, <1>3, <1>4, <1>5, <1>6, StepCases

-------------------------------------------------------------------------------
(* Down and up again: the store.                                            *)

\* Every step keeps a controller that is down quiet.
LEMMA DownIsQuietStep ==
    ASSUME Typed, MapFollows, DownIsQuiet, [Next]_vars
    PROVE  DownIsQuiet'
<1> USE DEF events, saved, life, told
<1>1. CASE Aloof
  BY <1>1, AloofFacts DEF DownIsQuiet
<1>2. CASE RowArrives \/ PartArrives \/ StopArrives
  BY <1>2, ArrivalTells DEF DownIsQuiet
<1>3. CASE OnRows
  BY <1>3 DEF OnRows, DownIsQuiet
<1>4. CASE DelayedSave
  BY <1>4 DEF DelayedSave, DownIsQuiet
<1>5. CASE Teardown
  BY <1>5 DEF Teardown, DownIsQuiet
<1>6. CASE LeftoverSave
  BY <1>6 DEF LeftoverSave, DownIsQuiet
<1>7. CASE TeardownDevice \/ Crash
  <2>1. /\ stage # "down" /\ tasks' = <<>> /\ lastEvent' = None /\ ~timer'
        /\ ~missed' => tasks = <<>>
        /\ UNCHANGED <<map, reported>>
    BY <1>7 DEF TeardownDevice, Crash
  <2>2. ~missed' => map = reported
    BY <2>1, Followed DEF MapFollows
  <2> QED BY <2>1, <2>2 DEF DownIsQuiet
<1>8. CASE Setup \/ SetupDiscarding
  BY <1>8 DEF Setup, SetupDiscarding, DownIsQuiet
<1> QED BY <1>1, <1>2, <1>3, <1>4, <1>5, <1>6, <1>7, <1>8, StepCases

\* Every step keeps the store equal to the map, or a save due.
LEMMA SavedIsMapStep ==
    ASSUME Typed, SavedIsMap, [Next]_vars
    PROVE  SavedIsMap'
<1> USE DEF events, saved, life, told
<1>1. CASE Aloof
  BY <1>1, AloofFacts DEF SavedIsMap, FromDict
<1>2. CASE RowArrives \/ PartArrives \/ StopArrives
  <2>1. UNCHANGED <<map, saved, life>>
    BY <1>2, ArrivalTells
  <2> QED BY <2>1 DEF SavedIsMap, FromDict
<1>3. CASE OnRows
  BY <1>3 DEF OnRows, SavedIsMap
<1>4. CASE DelayedSave \/ Teardown
  <2>1. /\ store' = AsDict /\ ~timer' /\ UNCHANGED <<map, reading, leftover, missed>>
    BY <1>4 DEF DelayedSave, Teardown
  <2>2. FromDict(reading)' = map'
    BY <2>1 DEF FromDict, AsDict
  <2> QED BY <2>1, <2>2 DEF SavedIsMap
<1>5. CASE TeardownDevice
  BY <1>5 DEF TeardownDevice, SavedIsMap, FromDict
<1>6. CASE LeftoverSave
  BY <1>6 DEF LeftoverSave, SavedIsMap
<1>7. CASE Crash
  BY <1>7 DEF Crash, SavedIsMap, FromDict
<1>8. CASE Setup
  <2>1. UNCHANGED <<store, leftover, timer, missed>> /\ stage' = "up" /\ map' = FromDict(reading')
    BY <1>8 DEF Setup
  <2>2. FromDict(reading)' = map'
    BY <2>1 DEF FromDict
  <2> QED BY <2>1, <2>2 DEF SavedIsMap
<1>9. CASE SetupDiscarding
  BY <1>9 DEF SetupDiscarding, SavedIsMap
<1> QED BY <1>1, <1>2, <1>3, <1>4, <1>5, <1>6, <1>7, <1>8, <1>9, StepCases

\* The rows that are reported, of nothing and of a merge.
LEMMA ReportedFacts ==
    /\ Reported(Empty) = {} /\ Reported(Rowless.rows) = {}
    /\ Rowless.key # "remaining"
    /\ \A old, new : Reported(Merged(old, new)) \subseteq Reported(old) \cup Reported(new)
    /\ \A old, new : Reported(old) \subseteq Reported(Merged(old, new))
<1>1. None # "remaining"
  BY NoneAssumption DEF Readings
<1> QED BY <1>1 DEF Reported, Empty, Rowless, Merged

\* The events after one was queued.
LEMMA QueuedEvents ==
    ASSUME Typed, NEW rows \in Partial, NEW whole \in BOOLEAN, Tells(rows, whole)
    PROVE  \A i \in DOMAIN tasks' :
               \/ i \in DOMAIN tasks /\ tasks'[i] = tasks[i]
               \/ tasks'[i].rows = rows /\ tasks'[i].complete = whole
<1> DEFINE event == [rows |-> rows, complete |-> whole]
<1>1. event \in Events /\ event.rows = rows /\ event.complete = whole
  BY DEF Events
<1>2. tasks' = tasks \/ tasks' = Append(tasks, event)
  BY DEF Tells, Publish
<1> HIDE DEF event
<1> QED BY <1>1, <1>2, Added DEF Typed

\* The events after the first has run.
LEMMA TakenEvents ==
    ASSUME Typed, OnRows
    PROVE  /\ 1 \in DOMAIN tasks /\ Head(tasks) = tasks[1]
           /\ \A i \in DOMAIN tasks' : i + 1 \in DOMAIN tasks /\ tasks'[i] = tasks[i + 1]
BY Taken DEF Typed, OnRows

\* Every step keeps coverage out of what is drawn as still to mow.
LEMMA DrawnIsPlannedStep ==
    ASSUME Typed, DownIsQuiet, DrawnIsPlanned, [Next]_vars
    PROVE  DrawnIsPlanned'
<1> USE DEF events, saved, life, told
<1>1. CASE Aloof
  BY <1>1, AloofFacts DEF DrawnIsPlanned, Reported
<1>2. CASE RowArrives \/ PartArrives \/ StopArrives
  <2>1. UNCHANGED <<map, saved, life>> /\ planned \subseteq planned'
    BY <1>2, ArrivalTells
  <2>2. reading = "remaining" => \A i \in DOMAIN tasks' : Reported(tasks'[i].rows) \subseteq planned'
    <3>1. CASE UNCHANGED events
      BY <2>1, <3>1 DEF DrawnIsPlanned
    <3>2. CASE \E rows \in Partial, whole \in BOOLEAN :
                   Tells(rows, whole) /\ (reading = "remaining" => Reported(rows) \subseteq planned')
      <4>1. PICK rows \in Partial, whole \in BOOLEAN :
                   Tells(rows, whole) /\ (reading = "remaining" => Reported(rows) \subseteq planned')
        BY <3>2
      <4> QED BY <2>1, <4>1, QueuedEvents DEF DrawnIsPlanned
    <3> QED BY <1>2, <3>1, <3>2, ArrivalTells
  <2> QED BY <2>1, <2>2 DEF DrawnIsPlanned, Reported
<1>3. CASE OnRows
  <2>1. UNCHANGED <<store, leftover, reading, planned>>
    BY <1>3 DEF OnRows
  <2>2. map' = Head(tasks).rows \/ map' = Merged(map, Head(tasks).rows)
    BY <1>3 DEF OnRows
  <2>3. reading = "remaining" => Reported(map') \subseteq planned
    BY <1>3, <2>2, TakenEvents, ReportedFacts DEF DrawnIsPlanned
  <2>4. reading = "remaining" => \A i \in DOMAIN tasks' : Reported(tasks'[i].rows) \subseteq planned
    BY <1>3, TakenEvents DEF DrawnIsPlanned
  <2> QED BY <2>1, <2>3, <2>4 DEF DrawnIsPlanned, Reported
<1>4. CASE DelayedSave \/ Teardown
  BY <1>4 DEF DelayedSave, Teardown, AsDict, DrawnIsPlanned, Reported
<1>5. CASE TeardownDevice
  <2>1. tasks' = <<>> /\ (leftover' = leftover \/ leftover' = AsDict)
        /\ UNCHANGED <<map, store, reading, planned>>
    BY <1>5 DEF TeardownDevice
  <2>2. DOMAIN tasks' = {}
    BY <2>1
  <2> QED BY <2>1, <2>2 DEF AsDict, DrawnIsPlanned, Reported
<1>6. CASE LeftoverSave
  BY <1>6, ReportedFacts DEF LeftoverSave, DrawnIsPlanned, Reported
<1>7. CASE Crash
  <2>1. tasks' = <<>> /\ leftover' = Rowless /\ UNCHANGED <<map, store, reading, planned>>
    BY <1>7 DEF Crash
  <2>2. DOMAIN tasks' = {}
    BY <2>1
  <2> QED BY <2>1, <2>2, ReportedFacts DEF DrawnIsPlanned, Reported
<1>8. CASE Setup
  <2>1. tasks' = <<>> /\ UNCHANGED <<store, leftover, planned>> /\ map' = FromDict(reading')
    BY <1>8 DEF Setup, DownIsQuiet
  <2>2. DOMAIN tasks' = {}
    BY <2>1
  <2>3. reading' = "remaining" => Reported(map') \subseteq planned
    BY <2>1, ReportedFacts DEF FromDict, DrawnIsPlanned
  <2> QED BY <2>1, <2>2, <2>3 DEF DrawnIsPlanned, Reported
<1>9. CASE SetupDiscarding
  <2>1. /\ tasks' = <<>> /\ map' = Empty /\ store' = Rowless
        /\ UNCHANGED <<leftover, planned, reading>>
    BY <1>9 DEF SetupDiscarding, DownIsQuiet
  <2>2. DOMAIN tasks' = {}
    BY <2>1
  <2>3. Reported(map') = {} /\ Reported(store'.rows) = {}
    BY <2>1, ReportedFacts
  <2>4. Reported(leftover'.rows) = Reported(leftover.rows)
    BY <2>1
  <2> QED BY <2>1, <2>2, <2>3, <2>4 DEF DrawnIsPlanned
<1> QED BY <1>1, <1>2, <1>3, <1>4, <1>5, <1>6, <1>7, <1>8, <1>9, StepCases

\* No step queues a replacement of coverage.
LEMMA CoverageMergesStep ==
    ASSUME Typed, CoverageMerges, [Next]_vars
    PROVE  CoverageMerges'
<1> USE DEF events, saved, life, told
<1>1. CASE Aloof
  BY <1>1, AloofFacts DEF CoverageMerges
<1>2. CASE RowArrives \/ PartArrives \/ StopArrives
  <2>1. UNCHANGED reading
    BY <1>2, ArrivalTells
  <2>2. CASE UNCHANGED events
    BY <2>1, <2>2 DEF CoverageMerges
  <2>3. CASE \E rows \in Partial, whole \in BOOLEAN :
                 Tells(rows, whole) /\ (whole => reading = "remaining")
    <3>1. PICK rows \in Partial, whole \in BOOLEAN :
                 Tells(rows, whole) /\ (whole => reading = "remaining")
      BY <2>3
    <3> QED BY <2>1, <3>1, QueuedEvents DEF CoverageMerges
  <2> QED BY <1>2, <2>2, <2>3, ArrivalTells
<1>3. CASE OnRows
  BY <1>3, TakenEvents DEF OnRows, CoverageMerges
<1>4. CASE DelayedSave \/ Teardown \/ LeftoverSave
  BY <1>4 DEF DelayedSave, Teardown, LeftoverSave, CoverageMerges
<1>5. CASE TeardownDevice \/ Crash
  <2>1. tasks' = <<>>
    BY <1>5 DEF TeardownDevice, Crash
  <2>2. DOMAIN tasks' = {}
    BY <2>1
  <2> QED BY <2>2 DEF CoverageMerges
<1>6. CASE Setup \/ SetupDiscarding
  BY <1>6 DEF Setup, SetupDiscarding, CoverageMerges
<1> QED BY <1>1, <1>2, <1>3, <1>4, <1>5, <1>6, StepCases

-------------------------------------------------------------------------------
(* The last stop and the fragments on the wire.                             *)

\* The stops on the wire: of no job to come, and the last job's at the end.
StopsInOrder ==
    \A i \in DOMAIN wire : wire[i].kind = "stop" =>
        /\ wire[i].job <= jobs
        /\ wire[i].job = jobs => ~running /\ i = Len(wire)

\* A message that is taken off the wire leaves the others in their order.
LEMMA TakenStops ==
    ASSUME Typed, StopsInOrder, UNCHANGED mower,
           \A i \in DOMAIN wire' : i + 1 \in DOMAIN wire /\ wire'[i] = wire[i + 1],
           DOMAIN wire = 1..Len(wire), DOMAIN wire' = 1..(Len(wire) - 1),
           Len(wire) \in Nat, Len(wire') = Len(wire) - 1
    PROVE  StopsInOrder'
<1> SUFFICES ASSUME NEW i \in DOMAIN wire', wire'[i].kind = "stop"
             PROVE  /\ wire'[i].job <= jobs
                    /\ wire'[i].job = jobs => ~running /\ i = Len(wire')
  BY DEF StopsInOrder, mower
<1>1. /\ wire[i + 1].job <= jobs
      /\ wire[i + 1].job = jobs => ~running /\ i + 1 = Len(wire)
  BY DEF StopsInOrder
<1>2. i + 1 = Len(wire) => i = Len(wire')
  OBVIOUS
<1> QED BY <1>1, <1>2

\* Every step keeps the last job's stop behind all messages of the job.
LEMMA StopIsLastStep ==
    ASSUME Typed, DownIsQuiet, SavedIsMap, StopIsLast, [Next]_vars
    PROVE  StopIsLast'
<1> USE DEF events, saved, life, told, mower
<1>1. StopsInOrder
  BY DEF StopIsLast, StopsInOrder
<1>2. SUFFICES /\ StopsInOrder'
               /\ stopped' => ~running' /\ wire' = <<>> /\ reading' = "remaining"
               /\ stopped' /\ ~missed' => reported' = Empty
  BY DEF StopIsLast, StopsInOrder
<1>3. CASE BeginJob
  <2>1. jobs \in Nat /\ jobs' = jobs + 1 /\ wire' = wire /\ ~stopped'
    BY <1>3 DEF BeginJob, Typed
  <2>2. ASSUME NEW i \in DOMAIN wire, wire[i].kind = "stop"
        PROVE  wire[i].job <= jobs' /\ wire[i].job # jobs'
    <3>1. wire[i].job <= jobs
      BY <1>1, <2>2 DEF StopsInOrder
    <3>2. wire[i] \in Messages
      BY ElementOfSeq, LenProperties DEF Typed
    <3>3. wire[i].job \in Nat
      BY <2>2, <3>2, KindsOfMessages DEF Stops
    <3> QED BY <2>1, <3>1, <3>3
  <2> QED BY <2>1, <2>2 DEF StopsInOrder
<1>4. ASSUME NEW r \in Rows, Mow(r)
      PROVE  /\ StopsInOrder'
             /\ stopped' => ~running' /\ wire' = <<>> /\ reading' = "remaining"
             /\ stopped' /\ ~missed' => reported' = Empty
  <2> DEFINE m == [kind |-> "row", row |-> r, length |-> plan'[r]]
  <2>1. running /\ UNCHANGED <<running, jobs, stopped>> /\ Send(m)
    BY <1>4 DEF Mow
  <2>2. \A i \in DOMAIN wire' : (i \in DOMAIN wire /\ wire'[i] = wire[i]) \/ wire'[i].kind # "stop"
    <3>1. wire \in Seq(Messages) /\ (wire' = wire \/ wire' = Append(wire, m)) /\ m.kind # "stop"
      BY <2>1 DEF Send, Typed
    <3>2. CASE wire' = wire
      BY <3>2
    <3>3. CASE wire' = Append(wire, m)
      <4> HIDE DEF m
      <4>1. \A i \in DOMAIN wire' : (i \in DOMAIN wire /\ wire'[i] = wire[i]) \/ wire'[i] = m
        BY <3>1, <3>3, AppendProperties, LenProperties
      <4> QED BY <3>1, <4>1
    <3> QED BY <3>1, <3>2, <3>3
  <2>3. StopsInOrder'
    BY <1>1, <2>1, <2>2 DEF StopsInOrder
  <2> QED BY <2>1, <2>3 DEF StopIsLast
<1>5. CASE SendPlan
  <2>1. running /\ UNCHANGED <<running, jobs, stopped>>
    BY <1>5 DEF SendPlan
  <2>2. \A i \in DOMAIN wire' : (i \in DOMAIN wire /\ wire'[i] = wire[i]) \/ wire'[i].kind # "stop"
    BY <1>5, SendPlanFacts DEF Fragments
  <2>3. StopsInOrder'
    BY <1>1, <2>1, <2>2 DEF StopsInOrder
  <2> QED BY <2>1, <2>3 DEF StopIsLast
<1>6. ASSUME NEW trigger \in Triggers, EndJob(trigger)
      PROVE  /\ StopsInOrder'
             /\ stopped' => ~running' /\ wire' = <<>> /\ reading' = "remaining"
             /\ stopped' /\ ~missed' => reported' = Empty
  <2> DEFINE m == [kind |-> "stop", job |-> jobs, trigger |-> trigger]
  <2>1. running /\ ~running' /\ UNCHANGED <<jobs, stopped>> /\ Send(m)
    BY <1>6 DEF EndJob
  <2>2. m \in Messages /\ jobs \in Nat
    BY DEF Messages, Stops, Typed
  <2>3. \A i \in DOMAIN wire : wire[i].kind = "stop" => wire[i].job <= jobs /\ wire[i].job # jobs
    BY <1>1, <2>1 DEF StopsInOrder
  <2>4. m.job = jobs
    OBVIOUS
  <2> HIDE DEF m
  <2>5. StopsInOrder'
    <3>1. CASE wire' = wire
      BY <2>1, <2>3, <3>1 DEF StopsInOrder
    <3>2. CASE wire' # wire
      <4>1. /\ Len(wire) \in Nat /\ Len(wire') = Len(wire) + 1
            /\ \A i \in DOMAIN wire : wire'[i] = wire[i]
            /\ wire'[Len(wire) + 1] = m
            /\ \A i \in DOMAIN wire' : i \in DOMAIN wire \/ i = Len(wire) + 1
        BY <2>1, <2>2, <3>2, SendFacts
      <4> SUFFICES ASSUME NEW i \in DOMAIN wire', wire'[i].kind = "stop"
                   PROVE  /\ wire'[i].job <= jobs'
                          /\ wire'[i].job = jobs' => ~running' /\ i = Len(wire')
        BY DEF StopsInOrder
      <4>2. CASE i \in DOMAIN wire
        BY <2>1, <2>3, <4>1, <4>2
      <4>3. CASE i = Len(wire) + 1
        <5>1. wire'[i] = m /\ i = Len(wire')
          BY <4>1, <4>3
        <5> QED BY <2>1, <2>2, <2>4, <5>1
      <4> QED BY <4>1, <4>2, <4>3
    <3> QED BY <3>1, <3>2
  <2> QED BY <2>1, <2>5 DEF StopIsLast
<1>7. CASE RowArrives \/ PartArrives
  <2>1. wire # <<>> /\ UNCHANGED <<mower, stopped>>
    BY <1>7 DEF RowArrives, PartArrives, Arriving, Tell, PublishPlan
  <2>2. StopsInOrder'
    BY <1>1, <1>7, <2>1, ArrivingFacts, TakenStops DEF RowArrives, PartArrives
  <2> QED BY <2>1, <2>2 DEF StopIsLast
<1>8. CASE StopArrives
  <2> DEFINE gone == Head(wire).trigger # None /\ reading = "remaining"
  <2>1. Arriving("stop") /\ UNCHANGED <<mower, life>>
        /\ reported' = (IF gone THEN Empty ELSE reported)
        /\ stopped' = (gone /\ ~running /\ Head(wire).job = jobs)
    BY <1>8 DEF StopArrives
  <2>2. /\ Head(wire) = wire[1] /\ 1 \in DOMAIN wire /\ wire[1].kind = "stop"
        /\ Len(wire) \in Nat /\ Len(wire') = Len(wire) - 1 /\ wire' \in Seq(Messages)
    BY <2>1, ArrivingFacts
  <2>3. StopsInOrder'
    BY <1>1, <2>1, ArrivingFacts, TakenStops
  <2>4. stopped' => gone /\ ~running /\ 1 = Len(wire)
    BY <1>1, <2>1, <2>2 DEF StopsInOrder
  <2>5. stopped' => wire' = <<>>
    <3>1. 1 = Len(wire) => Len(wire') = 0
      BY <2>2
    <3> QED BY <2>2, <2>4, <3>1, EmptySeq
  <2> QED BY <2>1, <2>3, <2>4, <2>5
<1>9. CASE Unheard
  <2>1. wire # <<>> /\ UNCHANGED <<mower, stopped>>
    BY <1>9 DEF Unheard
  <2>2. StopsInOrder'
    BY <1>1, <1>9, <2>1, UnheardFacts, TakenStops
  <2> QED BY <2>1, <2>2 DEF StopIsLast
<1>10. CASE OnRows \/ DelayedSave \/ Teardown \/ TeardownDevice \/ LeftoverSave \/ Crash
  <2>1. UNCHANGED <<mower, wire, reading, told>> /\ (missed => missed')
    <3>1. UNCHANGED <<mower, wire, reading, told>>
      BY <1>10 DEF OnRows, DelayedSave, Teardown, TeardownDevice,
                   LeftoverSave, Crash
    <3>2. CASE OnRows
      BY <3>2 DEF OnRows
    <3>3. CASE DelayedSave \/ Teardown \/ LeftoverSave
      BY <3>3 DEF DelayedSave, Teardown, LeftoverSave
    <3>4. CASE TeardownDevice \/ Crash
      BY <3>4 DEF TeardownDevice, Crash
    <3> QED BY <1>10, <3>1, <3>2, <3>3, <3>4
  <2> QED BY <1>1, <2>1 DEF StopIsLast, StopsInOrder
<1>11. CASE Setup
  <2>1. UNCHANGED <<mower, wire, stopped, missed>> /\ stage = "down"
        /\ reading' \in {reading, "remaining"} /\ reported' = FromDict(reading')
    BY <1>11 DEF Setup
  <2>2. stopped => reading' = reading /\ reading = "remaining"
    BY <2>1 DEF StopIsLast
  <2>3. stopped /\ ~missed => reported' = Empty
    BY <2>1, <2>2 DEF StopIsLast, DownIsQuiet, SavedIsMap
  <2> QED BY <1>1, <2>1, <2>2, <2>3 DEF StopIsLast, StopsInOrder
<1>12. CASE SetupDiscarding
  <2>1. UNCHANGED <<mower, wire, reading, stopped>> /\ missed' = TRUE
    BY <1>12 DEF SetupDiscarding
  <2>2. StopsInOrder'
    BY <1>1, <2>1 DEF StopsInOrder
  <2>3. stopped' => ~running' /\ wire' = <<>> /\ reading' = "remaining"
    BY <2>1 DEF StopIsLast
  <2> QED BY <2>1, <2>2, <2>3 DEF StopIsLast, StopsInOrder
<1>13. CASE UNCHANGED vars
  BY <1>1, <1>13 DEF StopIsLast, StopsInOrder, vars
<1> QED BY <1>3, <1>4, <1>5, <1>6, <1>7, <1>8, <1>9, <1>10, <1>11, <1>12, <1>13
        DEF Next, Triggers

\* Messages and batches may go; what is left of them still agrees.
LEMMA FewerAgree ==
    ASSUME FragmentsAgree, UNCHANGED answers,
           \A i \in DOMAIN wire' :
               wire'[i].kind # "part" \/ \E j \in DOMAIN wire : wire'[i] = wire[j],
           \A k \in DOMAIN buffer' : \E l \in DOMAIN buffer : buffer'[k] = buffer[l]
    PROVE  FragmentsAgree'
BY DEF FragmentsAgree, CutFrom

\* What a fragment adds to its batch is cut from the same plan.
LEMMA PartCut ==
    ASSUME Typed, FragmentsAgree, PartArrives
    PROVE  LET part == Head(wire)
           IN  /\ CutFrom(Batch(part, Held(part)).parts, part.of)
               /\ part = wire[1] /\ 1 \in DOMAIN wire /\ part.kind = "part"
               /\ Batch(part, Held(part)).batch = part.batch
<1> DEFINE part == Head(wire)
           new == Batch(part, Held(part))
<1>1. part = wire[1] /\ 1 \in DOMAIN wire /\ part.kind = "part" /\ part \in Fragments
  BY ArrivingFacts, KindsOfMessages DEF PartArrives
<1>2. /\ Held(part) \in Partial
      /\ Known(part) => Slot(part) \in DOMAIN buffer /\ buffer[Slot(part)].batch = part.batch
  BY <1>1, ExtendedFacts
<1>3. part.length = part.of[part.row] /\ part.row \in Rows
  BY <1>1 DEF FragmentsAgree, Fragments
<1>4. CutFrom(Held(part), part.of)
  <2>1. CASE Known(part)
    BY <1>1, <1>2, <2>1 DEF FragmentsAgree, Held
  <2>2. CASE ~Known(part)
    BY <2>2 DEF Held, CutFrom, Empty
  <2> QED BY <2>1, <2>2
<1>5. new.parts = [Held(part) EXCEPT ![part.row] = part.length] /\ new.batch = part.batch
  BY DEF Batch
<1>6. \A r \in Rows : new.parts[r] = IF r = part.row THEN part.length ELSE Held(part)[r]
  BY <1>2, <1>3, <1>5 DEF Partial
<1>7. CutFrom(new.parts, part.of)
  BY <1>3, <1>4, <1>6 DEF CutFrom
<1> QED BY <1>1, <1>5, <1>7

\* Every step keeps the fragments of a batch of one plan.
LEMMA FragmentsAgreeStep ==
    ASSUME Typed, FragmentsAgree, [Next]_vars
    PROVE  FragmentsAgree'
<1> USE DEF events, saved, life, told, mower
<1>1. CASE BeginJob
  BY <1>1 DEF BeginJob, FragmentsAgree
<1>2. ASSUME NEW m \in Messages, m.kind # "part", Send(m), UNCHANGED <<answers, buffer>>
      PROVE  FragmentsAgree'
  <2>1. \A i \in DOMAIN wire' : wire'[i].kind # "part" \/ \E j \in DOMAIN wire : wire'[i] = wire[j]
    BY <1>2, SendFacts
  <2> QED BY <1>2, <2>1, FewerAgree
<1>3. ASSUME NEW r \in Rows, Mow(r) PROVE FragmentsAgree'
  <2> DEFINE m == [kind |-> "row", row |-> r, length |-> plan'[r]]
  <2>1. Send(m) /\ UNCHANGED <<answers, buffer>>
    BY <1>3 DEF Mow
  <2>2. plan' \in [Rows -> Lengths]
    BY <1>3, TypedStep DEF Next, Typed
  <2>3. m \in Messages /\ m.kind # "part"
    BY <2>2 DEF Messages, RowMessages
  <2> HIDE DEF m
  <2> QED BY <1>2, <2>1, <2>3
<1>4. ASSUME NEW trigger \in Triggers, EndJob(trigger) PROVE FragmentsAgree'
  <2> DEFINE m == [kind |-> "stop", job |-> jobs, trigger |-> trigger]
  <2>1. Send(m) /\ UNCHANGED <<answers, buffer>>
    BY <1>4 DEF EndJob
  <2>2. m \in Messages /\ m.kind # "part"
    BY DEF Messages, Stops, Typed
  <2> HIDE DEF m
  <2> QED BY <1>2, <2>1, <2>2
<1>5. CASE SendPlan
  <2>1. answers \in Nat /\ answers' = answers + 1 /\ buffer' = buffer
    BY <1>5 DEF SendPlan, Typed
  <2>2. \A i \in DOMAIN wire' :
            \/ i \in DOMAIN wire /\ wire'[i] = wire[i]
            \/ /\ wire'[i].batch = answers' /\ wire'[i].of = plan
               /\ wire'[i].length = plan[wire'[i].row]
    BY <1>5, SendPlanFacts
  <2>3. \A i \in DOMAIN wire : wire[i].kind = "part" => wire[i].batch <= answers' /\ wire[i].batch # answers'
    <3> SUFFICES ASSUME NEW i \in DOMAIN wire, wire[i].kind = "part"
                 PROVE  wire[i].batch <= answers' /\ wire[i].batch # answers'
      OBVIOUS
    <3>1. wire[i] \in Messages
      BY ElementOfSeq, LenProperties DEF Typed
    <3>2. wire[i].batch \in Nat
      BY <3>1, KindsOfMessages DEF Fragments
    <3>3. wire[i].batch <= answers
      BY DEF FragmentsAgree
    <3> QED BY <2>1, <3>2, <3>3
  <2>4. \A k \in DOMAIN buffer : buffer[k].batch <= answers' /\ buffer[k].batch # answers'
    <3> SUFFICES ASSUME NEW k \in DOMAIN buffer
                 PROVE  buffer[k].batch <= answers' /\ buffer[k].batch # answers'
      OBVIOUS
    <3>1. buffer[k] \in Batches
      BY ElementOfSeq, LenProperties DEF Typed
    <3>2. buffer[k].batch \in Nat
      BY <3>1 DEF Batches, Filled
    <3>3. buffer[k].batch <= answers
      BY DEF FragmentsAgree
    <3> QED BY <2>1, <3>2, <3>3
  <2>5. answers' <= answers'
    BY <2>1
  <2>6. ASSUME NEW i \in DOMAIN wire', wire'[i].kind = "part"
        PROVE  /\ wire'[i].batch <= answers'
               /\ wire'[i].length = wire'[i].of[wire'[i].row]
               /\ \A j \in DOMAIN wire' :
                      wire'[j].kind = "part" /\ wire'[j].batch = wire'[i].batch
                          => wire'[j].of = wire'[i].of
               /\ \A k \in DOMAIN buffer :
                      buffer[k].batch = wire'[i].batch => CutFrom(buffer[k].parts, wire'[i].of)
    <3>1. CASE i \in DOMAIN wire /\ wire'[i] = wire[i]
      BY <2>2, <2>3, <2>6, <3>1 DEF FragmentsAgree
    <3>2. CASE /\ wire'[i].batch = answers' /\ wire'[i].of = plan
               /\ wire'[i].length = plan[wire'[i].row]
      BY <2>2, <2>3, <2>4, <2>5, <2>6, <3>2
    <3> QED BY <2>2, <3>1, <3>2
  <2> QED BY <2>1, <2>4, <2>6 DEF FragmentsAgree, CutFrom
<1>6. CASE RowArrives
  BY <1>6, ArrivingFacts, PassedFacts, FewerAgree DEF RowArrives
<1>7. CASE PartArrives
  <2> DEFINE part == Head(wire)
             new == Batch(part, Held(part))
  <2>1. CutFrom(new.parts, part.of) /\ part = wire[1] /\ 1 \in DOMAIN wire /\ part.kind = "part"
        /\ new.batch = part.batch
    BY <1>7, PartCut
  <2>2. \A k \in DOMAIN buffer' : buffer'[k] = new \/ \E l \in DOMAIN buffer : buffer'[k] = buffer[l]
    BY <1>7, PartFacts
  <2>3. UNCHANGED answers /\ \A i \in DOMAIN wire' : \E j \in DOMAIN wire : wire'[i] = wire[j]
    BY <1>7, ArrivingFacts DEF PartArrives
  <2> HIDE DEF part, new
  <2>4. ASSUME NEW i \in DOMAIN wire', wire'[i].kind = "part"
        PROVE  /\ wire'[i].batch <= answers
               /\ wire'[i].length = wire'[i].of[wire'[i].row]
               /\ \A j \in DOMAIN wire' :
                      wire'[j].kind = "part" /\ wire'[j].batch = wire'[i].batch
                          => wire'[j].of = wire'[i].of
               /\ \A k \in DOMAIN buffer' :
                      buffer'[k].batch = wire'[i].batch => CutFrom(buffer'[k].parts, wire'[i].of)
    <3>1. PICK j \in DOMAIN wire : wire'[i] = wire[j]
      BY <2>3
    <3>2. part.batch = wire[j].batch => part.of = wire[j].of
      BY <2>1, <2>4, <3>1 DEF FragmentsAgree
    <3>3. \A k \in DOMAIN buffer' :
              buffer'[k].batch = wire'[i].batch => CutFrom(buffer'[k].parts, wire'[i].of)
      BY <2>1, <2>2, <2>4, <3>1, <3>2 DEF FragmentsAgree
    <3> QED BY <2>3, <2>4, <3>1, <3>3 DEF FragmentsAgree
  <2>5. \A k \in DOMAIN buffer' : buffer'[k].batch <= answers
    BY <2>1, <2>2 DEF FragmentsAgree
  <2> QED BY <2>3, <2>4, <2>5 DEF FragmentsAgree, CutFrom
<1>8. CASE StopArrives
  BY <1>8, ArrivingFacts, FewerAgree DEF StopArrives
<1>9. CASE Unheard
  BY <1>9, UnheardFacts, FewerAgree DEF Unheard
<1>10. CASE \/ OnRows \/ DelayedSave \/ Teardown \/ TeardownDevice
            \/ LeftoverSave \/ Setup \/ SetupDiscarding \/ UNCHANGED vars
  <2>1. UNCHANGED <<wire, buffer, answers>>
    BY <1>10 DEF OnRows, DelayedSave, Teardown, TeardownDevice,
                 LeftoverSave, Setup, SetupDiscarding, vars
  <2> QED BY <2>1 DEF FragmentsAgree, CutFrom
<1>11. CASE Crash
  <2>1. UNCHANGED <<wire, answers>> /\ buffer' = <<>>
    BY <1>11 DEF Crash
  <2>2. DOMAIN buffer' = {}
    BY <2>1
  <2> QED BY <2>1, <2>2, FewerAgree
<1> QED BY <1>1, <1>3, <1>4, <1>5, <1>6, <1>7, <1>8, <1>9, <1>10, <1>11 DEF Next, Triggers

-------------------------------------------------------------------------------
(* The invariant and the theorems.                                          *)

\* The invariant holds initially.
LEMMA InitInv == Init => IInv
<1> SUFFICES ASSUME Init PROVE IInv
  OBVIOUS
<1>1. wire = <<>> /\ buffer = <<>> /\ tasks = <<>> /\ DOMAIN wire = {} /\ DOMAIN buffer = {} /\ DOMAIN tasks = {}
  BY DEF Init
<1>2. Typed
  <2>1. plan \in [Rows -> Lengths] /\ jobs = 0 /\ answers = 0 /\ running = FALSE
    BY LengthsFacts DEF Init
  <2>2. wire \in Seq(Messages) /\ buffer \in Seq(Batches) /\ tasks \in Seq(Events)
    BY <1>1
  <2>3. Len(wire) <= MaxWire /\ Len(buffer) <= MaxBatches /\ Len(tasks) <= MaxTasks
    BY <1>1, Bounds, EmptySeq
  <2>4. planned \subseteq Rows
    BY DEF Init
  <2>5. 0 \in Nat
    OBVIOUS
  <2> QED BY <2>1, <2>2, <2>3, <2>4, <2>5, EmptyPartial DEF Init, Typed
<1>3. FromDict(reading) = map
  BY DEF Init, FromDict, Rowless
<1>4. MapFollows /\ LastIsReported /\ DownIsQuiet
  BY <1>1 DEF Init, MapFollows, Follows, LastIsReported, DownIsQuiet
<1>5. SavedIsMap
  BY <1>3 DEF Init, SavedIsMap
<1>6. DrawnIsPlanned
  BY <1>1, ReportedFacts DEF Init, DrawnIsPlanned
<1>7. CoverageMerges /\ StopIsLast /\ FragmentsAgree
  BY <1>1 DEF Init, CoverageMerges, StopIsLast, FragmentsAgree
<1> QED BY <1>2, <1>4, <1>5, <1>6, <1>7 DEF IInv

\* Every step keeps the invariant.
LEMMA NextInv == IInv /\ [Next]_vars => IInv'
BY TypedStep, FollowsStep, DownIsQuietStep, SavedIsMapStep, DrawnIsPlannedStep,
   CoverageMergesStep, StopIsLastStep, FragmentsAgreeStep DEF IInv

\* Every reachable state satisfies the invariant.
THEOREM Invariance == Spec => []IInv
BY InitInv, NextInv, PTL DEF Spec

\* Every variable keeps its type and the fragment buffer its capacity
\* (FragmentBuffer.add), whatever the mower sends.
THEOREM TypeCorrect == Spec => []TypeOK
<1>1. IInv => TypeOK
  BY TypedIsTypeOK DEF IInv
<1> QED BY <1>1, Invariance, PTL

\* Once every event has run the map holds the rows the messages told of; an
\* announced end leaves nothing to mow, restarts or not; and no coverage is
\* drawn as still to mow (map.py, update_remaining and from_dict).
THEOREM DrawnCorrect == Spec => []DrawnAsReported
<1>1. IInv => DrawnAsReported
  <2> SUFFICES ASSUME IInv, Settled
               PROVE  /\ map = reported
                      /\ stopped /\ ~missed => map = Empty
                      /\ reading = "remaining" => Reported(map) \subseteq planned
    BY DEF DrawnAsReported
  <2>1. map = reported
    BY Followed DEF IInv, Settled, MapFollows
  <2> QED BY <2>1 DEF IInv, StopIsLast, DrawnIsPlanned
<1> QED BY <1>1, Invariance, PTL

\* A plan that is published was cut in one piece: fragments that come late, or
\* of two plans, never meet (FragmentBuffer).
THEOREM PlansAreWhole == Spec => NoTornPlan
<1>1. IInv /\ [Next]_vars => (PartArrives /\ lastEvent' # lastEvent
                                  => lastEvent'.rows = Unfinished(Head(wire).of))
  <2> SUFFICES ASSUME IInv, PartArrives, lastEvent' # lastEvent
               PROVE  lastEvent'.rows = Unfinished(Head(wire).of)
    OBVIOUS
  <2> DEFINE new == Batch(Head(wire), Held(Head(wire)))
  <2>1. CutFrom(new.parts, Head(wire).of)
    BY PartCut DEF IInv
  <2>2. new \in Filled /\ Reported(new.parts) = Rows /\ PublishPlan(Unfinished(new.parts))
    BY PartFacts DEF IInv, events
  <2> HIDE DEF new
  <2>3. lastEvent'.rows = Unfinished(new.parts)
    BY <2>2 DEF PublishPlan, Publish, events
  <2>4. \A r \in Rows : new.parts[r] = Head(wire).of[r]
    BY <2>1, <2>2 DEF CutFrom, Reported
  <2> QED BY <2>3, <2>4 DEF Unfinished
<1> QED BY <1>1, Invariance, PTL DEF Spec, NoTornPlan

\* No job, plan or restart takes a covered row off the map, unless the restart
\* lost a change of it (map.py, update_coverage and as_dict).
THEOREM CoverageStays == Spec => CoverageSurvives
<1>1. IInv /\ [Next]_vars =>
          (reading = "coverage" /\ reading' = reading /\ ~missed'
              => Reported(map) \subseteq Reported(map'))
  <2> SUFFICES ASSUME IInv, [Next]_vars, reading = "coverage", reading' = reading, ~missed'
               PROVE  Reported(map) \subseteq Reported(map')
    OBVIOUS
  <2> USE DEF events, saved, life, told
  <2>1. CASE Aloof
    BY <2>1, AloofFacts DEF Reported
  <2>2. CASE RowArrives \/ PartArrives \/ StopArrives
    BY <2>2, ArrivalTells DEF IInv, Reported
  <2>3. CASE OnRows
    <3>1. ~Head(tasks).complete
      BY <2>3, TakenEvents DEF IInv, CoverageMerges
    <3>2. map' = Merged(map, Head(tasks).rows)
      BY <2>3, <3>1 DEF OnRows
    <3> QED BY <3>2, ReportedFacts
  <2>4. CASE \/ DelayedSave \/ Teardown \/ TeardownDevice
             \/ LeftoverSave \/ Crash
    BY <2>4 DEF DelayedSave, Teardown, TeardownDevice, LeftoverSave,
                Crash, Reported
  <2>5. CASE Setup
    <3>1. map' = FromDict(reading) /\ missed' = missed /\ stage = "down"
      BY <2>5 DEF Setup
    <3>2. FromDict(reading) = map
      BY <3>1 DEF IInv, DownIsQuiet, SavedIsMap
    <3> QED BY <3>1, <3>2 DEF Reported
  <2>6. CASE SetupDiscarding
    BY <2>6 DEF SetupDiscarding
  <2> QED BY <2>1, <2>2, <2>3, <2>4, <2>5, <2>6, StepCases
<1> QED BY <1>1, Invariance, PTL DEF Spec, CoverageSurvives

-------------------------------------------------------------------------------
(* MapImage: for any places, outlines and interval.                         *)

ImageEvents == {e \in [type : Types, value : Places \cup Outlines \cup Names,
                  map : BOOLEAN, image : BOOLEAN] : e.value \in Values[e.type]}

ImageInv ==
    /\ ImageTypeOK
    /\ awaited \in Seq(ImageEvents)

-------------------------------------------------------------------------------

LEMMA ImageInitInv == ImageInit => ImageInv
<1> SUFFICES ASSUME ImageInit PROVE ImageInv
  OBVIOUS
<1>1. last \in Maps /\ written \in Maps /\ mowerMap \in Maps
  BY DEF ImageInit, NoMap, Maps
<1>2. awaited \in Seq(ImageEvents) /\ Len(awaited) = 0 /\ DOMAIN awaited = {}
  BY EmptySeq DEF ImageInit
<1>3. added \in BOOLEAN /\ due = Nothing
  BY DEF ImageInit
<1>4. age \in 0..Interval
  <2>1. age = 0
    BY DEF ImageInit
  <2> QED BY <2>1, IntervalAssumption
<1>5. Len(awaited) <= MaxWaiting + 2
  BY <1>2, IntervalAssumption
<1>6. ImageTypeOK
  BY <1>1, <1>2, <1>3, <1>4, <1>5 DEF ImageTypeOK
<1> QED BY <1>2, <1>6 DEF ImageInv

\* An event's value is of its type, and takes its place on a map.
LEMMA OnMap ==
    ASSUME NEW m \in Maps, NEW type \in Types, NEW value \in Values[type]
    PROVE  /\ value \in Places \cup Outlines \cup Names
           /\ [m EXCEPT ![type] = value] \in Maps
BY DEF Maps, Types, Values

\* An event put behind those that wait.
LEMMA PutBehind ==
    ASSUME NEW s \in Seq(ImageEvents), NEW e \in ImageEvents
    PROVE  /\ Append(s, e) \in Seq(ImageEvents)
           /\ Len(Append(s, e)) = Len(s) + 1
           /\ \A i \in DOMAIN Append(s, e) : i \in DOMAIN s \/ i = Len(s) + 1
           /\ \A i \in DOMAIN s : Append(s, e)[i] = s[i]
           /\ Append(s, e)[Len(s) + 1] = e
BY AppendProperties, LenProperties

\* Events are typed wherever they stand.
LEMMA EventsTyped ==
    ASSUME NEW s \in Seq(ImageEvents)
    PROVE  \A i \in DOMAIN s : s[i] \in ImageEvents /\ s[i].value \in Values[s[i].type]
BY ElementOfSeq, LenProperties DEF ImageEvents

LEMMA ReportStep ==
    ASSUME ImageInv, NEW type \in Types, NEW value \in Values[type], Report(type, value)
    PROVE  ImageInv'
<1> DEFINE e == [type |-> type, value |-> value,
                 map |-> TRUE, image |-> added /\ type \in Subscribed]
<1> USE DEF Report
<1>1. ImageTypeOK /\ awaited \in Seq(ImageEvents)
  BY DEF ImageInv
<1>2. e \in ImageEvents
  BY <1>1, OnMap DEF ImageEvents, ImageTypeOK
<1>3. awaited' = Append(awaited, e)
  OBVIOUS
<1>4. awaited' \in Seq(ImageEvents) /\ Len(awaited') = Len(awaited) + 1
  BY <1>1, <1>2, <1>3, PutBehind
<1>5. last' \in Maps
  BY <1>1, OnMap DEF ImageTypeOK
<1>6. ImageTypeOK'
  <2>1. Len(awaited') <= MaxWaiting + 2
    BY <1>1, <1>4, LenProperties, IntervalAssumption
  <2>2. \A i \in DOMAIN awaited' : awaited'[i].value \in Values[awaited'[i].type]
    BY <1>4, EventsTyped
  <2> QED BY <1>1, <1>5, <2>1, <2>2 DEF ImageTypeOK, image
<1> QED BY <1>4, <1>6 DEF ImageInv

\* Either callback leaves the time and the refresh in step.
LEMMA HandlerKeeps ==
    ASSUME ImageInv, NEW now \in Maps,
           Bump(now) \/ OnPositions(now)
    PROVE  /\ age' \in 0..Interval
           /\ written' \in Maps
           /\ due' # Nothing => due' \in 0..Interval /\ due' + age' = Interval
<1>1. ImageTypeOK
  BY DEF ImageInv
<1>2. CASE Bump(now)
  BY <1>1, <1>2, IntervalAssumption DEF Bump, ImageTypeOK
<1>3. CASE OnPositions(now) /\ ~Bump(now)
  <2>1. /\ due' = IF due = Nothing THEN Interval - age ELSE due
        /\ age' = age /\ written' = written
    BY <1>3 DEF OnPositions
  <2> QED BY <1>1, <2>1, IntervalAssumption DEF ImageTypeOK
<1> QED BY <1>2, <1>3

LEMMA EventStep ==
    ASSUME ImageInv, RunEvent
    PROVE  ImageInv'
<1> DEFINE e == Head(awaited)
<1> USE DEF RunEvent
<1>1. ImageTypeOK /\ awaited \in Seq(ImageEvents)
  BY DEF ImageInv
<1>2. /\ awaited' \in Seq(ImageEvents) /\ Len(awaited') = Len(awaited) - 1
      /\ \A i \in DOMAIN awaited' : i + 1 \in DOMAIN awaited /\ awaited'[i] = awaited[i + 1]
      /\ 1 \in DOMAIN awaited /\ e = awaited[1] /\ e \in ImageEvents
  BY <1>1, HeadTailProperties, LenProperties, ElementOfSeq
<1>3. mowerMap' \in Maps
  BY <1>1, <1>2, OnMap DEF ImageTypeOK, ImageEvents
<1>4. /\ age' \in 0..Interval
      /\ written' \in Maps
      /\ due' # Nothing => due' \in 0..Interval /\ due' + age' = Interval
  <2>1. CASE e.image
    BY <2>1, <1>3, HandlerKeeps
  <2>2. CASE ~e.image
    BY <2>2, <1>1 DEF ImageTypeOK
  <2> QED BY <2>1, <2>2
<1>5. ImageTypeOK'
  <2>1. Len(awaited') <= MaxWaiting + 2
    BY <1>1, <1>2, LenProperties, IntervalAssumption DEF ImageTypeOK
  <2>2. \A i \in DOMAIN awaited' : awaited'[i].value \in Values[awaited'[i].type]
    BY <1>2, EventsTyped
  <2> QED BY <1>1, <1>3, <1>4, <2>1, <2>2 DEF ImageTypeOK
<1> QED BY <1>2, <1>5 DEF ImageInv

\* The clock and the trailing refresh: no event is concerned.
LEMMA TimerStep ==
    ASSUME ImageInv, Tick \/ Trailing
    PROVE  ImageInv'
<1>1. ImageTypeOK /\ awaited \in Seq(ImageEvents)
  BY DEF ImageInv
<1>2. UNCHANGED <<last, awaited, mowerMap, added>>
  BY DEF Tick, Trailing, bus
<1>3. CASE Tick
  <2>1. due' # Nothing => due \in 0..Interval /\ due # 0 /\ due' = due - 1
    BY <1>1, <1>3, NothingAssumption DEF Tick, ImageTypeOK
  <2>2. /\ age' = age + 1 /\ age' \in 0..Interval /\ written' = written
    BY <1>1, <1>3, IntervalAssumption DEF Tick, ImageTypeOK
  <2>3. due' # Nothing => due' \in 0..Interval /\ due' + age' = Interval
    <3> SUFFICES ASSUME due' # Nothing
                 PROVE  due' \in 0..Interval /\ due' + age' = Interval
      OBVIOUS
    <3>1. due \in 0..Interval /\ age \in 0..Interval /\ due + age = Interval
      BY <1>1, <1>3, NothingAssumption DEF Tick, ImageTypeOK
    <3> QED BY <2>1, <2>2, <3>1, IntervalAssumption
  <2>4. ImageTypeOK'
    BY <1>1, <1>2, <2>1, <2>2, <2>3 DEF ImageTypeOK
  <2> QED BY <1>1, <1>2, <2>4 DEF ImageInv
<1>4. CASE Trailing
  <2>1. due' = Nothing /\ age' = 0 /\ written' \in Maps
    BY <1>1, <1>4 DEF Trailing, Bump, ImageTypeOK
  <2>2. ImageTypeOK'
    BY <1>1, <1>2, <2>1, IntervalAssumption DEF ImageTypeOK
  <2> QED BY <1>1, <1>2, <2>2 DEF ImageInv
<1> QED BY <1>3, <1>4

LEMMA AddStep ==
    ASSUME ImageInv, AddImage
    PROVE  ImageInv'
<1> DEFINE replay(type) ==
               IF last[type] = Nothing THEN <<>>
               ELSE <<[type |-> type, value |-> last[type],
                       map |-> FALSE, image |-> TRUE]>>
<1>1. ImageTypeOK /\ awaited \in Seq(ImageEvents)
  BY DEF ImageInv
<1>2. ASSUME NEW type \in {"outline", "position"}
      PROVE  replay(type) \in Seq(ImageEvents) /\ Len(replay(type)) \in {0, 1}
  <2>1. CASE last[type] = Nothing
    BY <2>1, EmptySeq
  <2>2. CASE last[type] # Nothing
    <3>1. last[type] \in Values[type] /\ type \in Types
      BY <1>1, <2>2 DEF ImageTypeOK, Maps, Values, Types
    <3>2. [type |-> type, value |-> last[type], map |-> FALSE, image |-> TRUE] \in ImageEvents
      BY <3>1, <1>1, OnMap DEF ImageEvents, ImageTypeOK
    <3> QED BY <3>2, <2>2
  <2> QED BY <2>1, <2>2
<1> HIDE DEF replay
<1>3. awaited' = (awaited \o replay("outline")) \o replay("position")
  BY DEF AddImage, replay
<1>4. /\ awaited' \in Seq(ImageEvents)
      /\ Len(awaited') = Len(awaited) + Len(replay("outline")) + Len(replay("position"))
  BY <1>1, <1>2, <1>3, ConcatProperties
<1>5. ImageTypeOK'
  <2>1. Len(awaited') <= MaxWaiting + 2
    <3>1. Len(awaited) \in Nat /\ Len(awaited) <= MaxWaiting
      BY <1>1, LenProperties DEF AddImage
    <3> DEFINE m == Len(replay("outline"))
               n == Len(replay("position"))
    <3>2. m \in {0, 1} /\ n \in {0, 1} /\ Len(awaited') = Len(awaited) + m + n
      BY <1>2, <1>4
    <3>3. MaxWaiting \in Nat
      BY IntervalAssumption
    <3> HIDE DEF m, n
    <3> QED BY <3>1, <3>2, <3>3
  <2>2. \A i \in DOMAIN awaited' : awaited'[i].value \in Values[awaited'[i].type]
    BY <1>4, EventsTyped
  <2>3. /\ added' = TRUE /\ written' = mowerMap
        /\ UNCHANGED <<last, mowerMap, age, due>>
    BY DEF AddImage
  <2> QED BY <1>1, <2>1, <2>2, <2>3 DEF ImageTypeOK
<1> QED BY <1>4, <1>5 DEF ImageInv

LEMMA RemoveStep ==
    ASSUME ImageInv, RemoveImage
    PROVE  ImageInv'
<1>1. ImageTypeOK /\ awaited \in Seq(ImageEvents)
  BY DEF ImageInv
<1>2. /\ UNCHANGED <<last, awaited, mowerMap, age, written>>
      /\ added' = FALSE /\ due' = Nothing
  BY DEF RemoveImage, bus
<1>3. ImageTypeOK'
  BY <1>1, <1>2 DEF ImageTypeOK
<1> QED BY <1>1, <1>2, <1>3 DEF ImageInv

LEMMA ReloadStep ==
    ASSUME ImageInv, Reload
    PROVE  ImageInv'
<1>1. ImageTypeOK
  BY DEF ImageInv
<1>2. awaited' \in Seq(ImageEvents) /\ Len(awaited') = 0 /\ DOMAIN awaited' = {}
  BY EmptySeq DEF Reload
<1>3. last' \in Maps /\ mowerMap' \in Maps
  BY <1>1 DEF Reload, ImageTypeOK, NoMap, Maps
<1>4. ImageTypeOK'
  BY <1>1, <1>2, <1>3, IntervalAssumption DEF Reload, ImageTypeOK
<1> QED BY <1>2, <1>4 DEF ImageInv

LEMMA ImageNextInv == ImageInv /\ [ImageNext]_imageVars => ImageInv'
<1> SUFFICES ASSUME ImageInv, [ImageNext]_imageVars PROVE ImageInv'
  OBVIOUS
<1>1. CASE UNCHANGED imageVars
  BY <1>1 DEF ImageInv, ImageTypeOK, imageVars, bus, image
<1>2. CASE ImageNext
  BY <1>2, ReportStep, EventStep, TimerStep, AddStep, RemoveStep, ReloadStep DEF ImageNext
<1> QED BY <1>1, <1>2

-------------------------------------------------------------------------------

\* For any places, outlines and interval every variable keeps its type, and a
\* refresh that waits is due when the interval since the last image ends: that
\* of _on_positions is superseded by every _bump, over removals, late callbacks of
\* a removed entity, and its being added again.
THEOREM ImageTypeCorrect == ImageSpec => []ImageTypeOK
<1>1. ImageInv => ImageTypeOK
  BY DEF ImageInv
<1> QED BY <1>1, ImageInitInv, ImageNextInv, PTL DEF ImageSpec

\* A position makes the image new only a whole interval after it was last made
\* so, however long the interval and whatever else is drawn in between.
THEOREM Throttled == ImageSpec => PositionsAreThrottled
<1>1. ASSUME ImageInv, Trailing
      PROVE  age = Interval
  BY <1>1, NothingAssumption, IntervalAssumption DEF ImageInv, ImageTypeOK, Trailing
<1>2. ASSUME ImageInv, RunEvent, Head(awaited).type = "position", written' # written
      PROVE  age = Interval
  <2>1. OnPositions(mowerMap')
    BY <1>2 DEF RunEvent
  <2>2. age >= Interval
    BY <1>2, <2>1 DEF OnPositions
  <2> QED BY <1>2, <2>2, IntervalAssumption DEF ImageInv, ImageTypeOK
<1>3. ImageInv /\ [ImageNext]_imageVars =>
          [/\ Trailing \/ (RunEvent /\ Head(awaited).type = "position")
           /\ written' # written
           => age = Interval]_imageVars
  BY <1>1, <1>2
<1> QED BY <1>3, ImageInitInv, ImageNextInv, PTL DEF ImageSpec, PositionsAreThrottled

===============================================================================
