---------------------------- MODULE ControllerProofs ----------------------------
(***************************************************************************)
(* Theorems about Controller, for any codes and any bound on the queue:    *)
(* its type invariant, the agreement of latch and sensor with the events,  *)
(* and the polling of a mower that is shown out.                           *)
(*                                                                         *)
(* Each of these holds when no task waits.  What holds before that says    *)
(* which task still waiting will bring it about: the last of its kind.     *)
(***************************************************************************)
EXTENDS Controller, SequenceTheorems, TLAPS

\* No event of B is in the queue s.
Free(s, B) == \A i \in DOMAIN s : s[i] \notin B

\* One of A is, with none of B behind it.
Ends(s, A, B) == \E i \in DOMAIN s : /\ s[i] \in A
                                     /\ \A j \in DOMAIN s : j > i => s[j] \notin B

StateEvents == [type : {"state"}, value : States]
Recoveries == [type : {"state"}, value : RecoveryStates]
Troubles == [type : {"error"}, value : Codes]
FaultEvents == [type : {"fault"}, value : Codes \cup {None}]
LatestState(s) == {[type |-> "state", value |-> s]}
LatestFault(c) == {[type |-> "fault", value |-> c]}

-------------------------------------------------------------------------------
(* The inductive invariant.                                                 *)

\* A recovery has released the latch, or its task will.
RecoverySettles ==
    lastState \in RecoveryStates =>
        (code = None /\ Free(tasks, Troubles)) \/ Ends(tasks, Recoveries, Troubles)

\* A fault that nothing resolved is latched, or its task will latch it.
NewsIsHeld ==
    news # None =>
        (code # None /\ Free(tasks, Recoveries)) \/ Ends(tasks, Troubles, Recoveries)

\* The bus would drop a fault event only if it said what is latched.
LastFaultIsCode == IF lastFault = NoEvent THEN code = None ELSE lastFault = code

\* The sensor shows what is latched, or its task will; before it is added no
\* event waits for it.
Follows(q, c) ==
    IF subscribed
    THEN (shown = c /\ Free(q, FaultEvents)) \/ Ends(q, LatestFault(c), FaultEvents)
    ELSE shown = None /\ Free(q, FaultEvents)

SensorFollows == Up => Follows(tasks, code)

\* The tick of a mower shown out is there, or its task will start it.
StatusFollows ==
    (Up /\ ShownOut) =>
        (polling /\ Free(tasks, StateEvents)) \/ Ends(tasks, LatestState(lastState), StateEvents)

\* The sensor left before the teardown; the device took its bus with it.
DownIsEmpty ==
    /\ stage # "up" => ~subscribed
    /\ stage = "down" =>
           /\ lastState = None /\ lastFault = NoEvent /\ tasks = <<>>
           /\ code = None /\ shown = None /\ news = None

IInv == /\ TypeOK
        /\ RecoverySettles
        /\ NewsIsHeld
        /\ LastFaultIsCode
        /\ SensorFollows
        /\ StatusFollows
        /\ DownIsEmpty

-------------------------------------------------------------------------------
(* The queue.                                                               *)

\* An event that is notified goes behind those that wait: what none of it
\* concerns stays as it is.
LEMMA Behind ==
    ASSUME NEW s \in Seq(Event), NEW q \in Seq(Event), NEW A, NEW B, Free(q, B)
    PROVE  /\ Free(s, B) => Free(s \o q, B)
           /\ Ends(s, A, B) => Ends(s \o q, A, B)
<1>1. /\ s \o q \in Seq(Event)
      /\ Len(s \o q) = Len(s) + Len(q)
      /\ \A i \in 1..Len(s) + Len(q) :
             (s \o q)[i] = IF i <= Len(s) THEN s[i] ELSE q[i - Len(s)]
  BY ConcatProperties
<1>2. /\ DOMAIN (s \o q) = 1..Len(s) + Len(q)
      /\ DOMAIN s = 1..Len(s) /\ DOMAIN q = 1..Len(q)
      /\ Len(s) \in Nat /\ Len(q) \in Nat
  BY <1>1, LenProperties
<1>3. \A j \in 1..Len(s) + Len(q) : j > Len(s) => j - Len(s) \in 1..Len(q)
  BY <1>2
<1>4. \A j \in DOMAIN (s \o q) : j > Len(s) => (s \o q)[j] \notin B
  BY <1>1, <1>2, <1>3 DEF Free
<1>5. Free(s, B) => Free(s \o q, B)
  BY <1>1, <1>2, <1>4 DEF Free
<1>6. ASSUME Ends(s, A, B) PROVE Ends(s \o q, A, B)
  <2>1. PICK i \in DOMAIN s : s[i] \in A /\ \A j \in DOMAIN s : j > i => s[j] \notin B
    BY <1>6 DEF Ends
  <2>2. i \in DOMAIN (s \o q) /\ (s \o q)[i] \in A
    BY <2>1, <1>1, <1>2
  <2>3. \A j \in DOMAIN (s \o q) : j > i => (s \o q)[j] \notin B
    BY <2>1, <1>1, <1>2, <1>4
  <2> QED BY <2>2, <2>3 DEF Ends
<1> QED BY <1>5, <1>6

\* The last of its kind, once notified, is the one that waits.
LEMMA Arrives ==
    ASSUME NEW s \in Seq(Event), NEW q \in Seq(Event), NEW A, NEW B, Ends(q, A, B)
    PROVE  Ends(s \o q, A, B)
<1>1. /\ s \o q \in Seq(Event)
      /\ Len(s \o q) = Len(s) + Len(q)
      /\ \A i \in 1..Len(s) + Len(q) :
             (s \o q)[i] = IF i <= Len(s) THEN s[i] ELSE q[i - Len(s)]
  BY ConcatProperties
<1>2. /\ DOMAIN (s \o q) = 1..Len(s) + Len(q)
      /\ DOMAIN s = 1..Len(s) /\ DOMAIN q = 1..Len(q)
      /\ Len(s) \in Nat /\ Len(q) \in Nat
  BY <1>1, LenProperties
<1>3. PICK i \in DOMAIN q : q[i] \in A /\ \A j \in DOMAIN q : j > i => q[j] \notin B
  BY DEF Ends
<1>4. /\ Len(s) + i \in DOMAIN (s \o q)
      /\ (s \o q)[Len(s) + i] \in A
  BY <1>1, <1>2, <1>3
<1>5. \A j \in DOMAIN (s \o q) : j > Len(s) + i => (s \o q)[j] \notin B
  <2> SUFFICES ASSUME NEW j \in DOMAIN (s \o q), j > Len(s) + i
               PROVE  (s \o q)[j] \notin B
    OBVIOUS
  <2>1. j - Len(s) \in DOMAIN q /\ j - Len(s) > i
    BY <1>2
  <2>2. (s \o q)[j] = q[j - Len(s)]
    BY <1>1, <1>2
  <2> QED BY <1>3, <2>1, <2>2
<1> QED BY <1>4, <1>5 DEF Ends

\* The first task has run: what is left of the queue.
LEMMA Ran ==
    ASSUME NEW s \in Seq(Event), s # <<>>, NEW A, NEW B
    PROVE  /\ Tail(s) \in Seq(Event) /\ Head(s) \in Event
           /\ Len(Tail(s)) = Len(s) - 1
           /\ Free(s, B) => Free(Tail(s), B) /\ Head(s) \notin B
           /\ Ends(s, A, B) => \/ Ends(Tail(s), A, B)
                               \/ Head(s) \in A /\ Free(Tail(s), B)
<1>1. /\ Head(s) \in Event
      /\ Tail(s) \in Seq(Event)
      /\ Len(Tail(s)) = Len(s) - 1
      /\ \A i \in 1..Len(Tail(s)) : Tail(s)[i] = s[i + 1]
  BY HeadTailProperties
<1>2. /\ DOMAIN s = 1..Len(s) /\ Len(s) \in Nat \ {0}
      /\ DOMAIN Tail(s) = 1..Len(Tail(s)) /\ Head(s) = s[1]
  BY <1>1, LenProperties, EmptySeq
<1>3. \A i \in DOMAIN Tail(s) : i + 1 \in DOMAIN s /\ Tail(s)[i] = s[i + 1]
  BY <1>1, <1>2
<1>4. Free(s, B) => Free(Tail(s), B) /\ Head(s) \notin B
  BY <1>2, <1>3 DEF Free
<1>5. ASSUME Ends(s, A, B)
      PROVE  Ends(Tail(s), A, B) \/ (Head(s) \in A /\ Free(Tail(s), B))
  <2>1. PICK i \in DOMAIN s : s[i] \in A /\ \A j \in DOMAIN s : j > i => s[j] \notin B
    BY <1>5 DEF Ends
  <2>2. CASE i = 1
    <3>1. \A j \in DOMAIN Tail(s) : j + 1 > i
      BY <2>2, <1>2, <1>1
    <3> QED BY <2>1, <2>2, <3>1, <1>2, <1>3 DEF Free
  <2>3. CASE i # 1
    <3>1. i - 1 \in DOMAIN Tail(s) /\ (i - 1) + 1 = i
      BY <2>3, <1>1, <1>2
    <3>2. Tail(s)[i - 1] \in A
      BY <3>1, <2>1, <1>3
    <3>3. \A j \in DOMAIN Tail(s) : j > i - 1 => Tail(s)[j] \notin B
      BY <2>1, <1>1, <1>2, <1>3
    <3> QED BY <3>1, <3>2, <3>3 DEF Ends
  <2> QED BY <2>2, <2>3
<1> QED BY <1>1, <1>4, <1>5

\* One event, or none if it repeats the last.
LEMMA OneOrNone ==
    ASSUME NEW last, NEW type, NEW value, [type |-> type, value |-> value] \in Event
    PROVE  LET e == [type |-> type, value |-> value]
               q == Passed(last, type, value)
           IN  /\ q \in Seq(Event) /\ Len(q) <= 1
               /\ last = value => q = <<>>
               /\ \A i \in DOMAIN q : q[i] = e
               /\ \A A, B : last # value /\ e \in A => Ends(q, A, B)
               /\ \A B : last = value \/ e \notin B => Free(q, B)
<1> DEFINE e == [type |-> type, value |-> value]
           q == Passed(last, type, value)
<1>1. CASE last = value
  <2>1. q = <<>>
    BY <1>1 DEF Passed
  <2>2. DOMAIN q = {}
    BY <2>1
  <2> QED BY <1>1, <2>1, <2>2, EmptySeq DEF Free
<1>2. CASE last # value
  <2>1. q = <<e>>
    BY <1>2 DEF Passed
  <2>2. q \in Seq(Event) /\ Len(q) = 1 /\ DOMAIN q = {1} /\ q[1] = e
    BY <2>1
  <2> HIDE DEF q, e
  <2>3. \A A, B : e \in A => Ends(q, A, B)
    BY <2>2 DEF Ends
  <2>4. \A B : e \notin B => Free(q, B)
    BY <2>2 DEF Free
  <2> QED BY <1>2, <2>2, <2>3, <2>4 DEF q, e
<1> QED BY <1>1, <1>2

-------------------------------------------------------------------------------
(* What the handlers do to the latch, the sensor and the queue.             *)

\* Latching a code, or releasing the latch, which is latching None.
LEMMA HoldAdds ==
    ASSUME TypeOK, LastFaultIsCode, NEW queue \in Seq(Event),
           NEW c \in Codes \cup {None}, Hold(c, queue)
    PROVE  /\ code' = c
           /\ lastFault' \in Codes \cup {None, NoEvent}
           /\ LastFaultIsCode'
           /\ \E f \in Seq(Event) : /\ tasks' = queue \o f /\ Len(f) <= 1
                                    /\ \A i \in DOMAIN f : f[i] \in FaultEvents
           /\ Follows(queue, code) => Follows(tasks', code')
<1>1. CASE c = code
  <2>1. tasks' = queue /\ code' = code /\ lastFault' = lastFault
    BY <1>1 DEF Hold
  <2>2. queue \o <<>> = queue /\ <<>> \in Seq(Event) /\ Len(<<>>) = 0 /\ DOMAIN <<>> = {}
    BY ConcatEmptySeq
  <2>3. \E f \in Seq(Event) : /\ tasks' = queue \o f /\ Len(f) <= 1
                              /\ \A i \in DOMAIN f : f[i] \in FaultEvents
    <3> WITNESS <<>> \in Seq(Event)
    <3> QED BY <2>1, <2>2
  <2>4. LastFaultIsCode'
    BY <2>1 DEF LastFaultIsCode
  <2>5. Follows(queue, code) => Follows(tasks', code')
    BY <2>1
  <2> QED BY <1>1, <2>1, <2>3, <2>4, <2>5 DEF TypeOK, BusTypeOK
<1>2. CASE c # code
  <2> DEFINE e == [type |-> "fault", value |-> c]
             f == IF subscribed THEN Passed(lastFault, "fault", c) ELSE <<>>
  <2>1. code' = c /\ lastFault' = c /\ tasks' = queue \o f
    BY <1>2 DEF Hold, NotifyFault
  <2>2. lastFault # c /\ c # NoEvent
    BY <1>2, CodesAssumption DEF LastFaultIsCode
  <2>3. e \in Event /\ e \in FaultEvents /\ e \in LatestFault(c)
    BY DEF Event, FaultEvents, LatestFault
  <2>4. f \in Seq(Event) /\ Len(f) <= 1 /\ \A i \in DOMAIN f : f[i] = e
    <3>1. CASE subscribed
      BY <3>1, <2>3, OneOrNone
    <3>2. CASE ~subscribed
      BY <3>2
    <3> QED BY <3>1, <3>2
  <2>5. subscribed => Ends(f, LatestFault(c), FaultEvents)
    BY <2>2, <2>3, OneOrNone
  <2>6. ~subscribed => f = <<>>
    OBVIOUS
  <2> HIDE DEF e, f
  <2>7. subscribed => Ends(queue \o f, LatestFault(c), FaultEvents)
    BY <2>4, <2>5, Arrives
  <2>8. ~subscribed => queue \o f = queue
    BY <2>6, ConcatEmptySeq
  <2>9. Follows(queue, code) => Follows(tasks', code')
    BY <2>1, <2>7, <2>8 DEF Follows
  <2>10. \E q \in Seq(Event) : /\ tasks' = queue \o q /\ Len(q) <= 1
                               /\ \A i \in DOMAIN q : q[i] \in FaultEvents
    BY <2>1, <2>3, <2>4
  <2> QED BY <2>1, <2>2, <2>9, <2>10 DEF LastFaultIsCode
<1> QED BY <1>1, <1>2

\* The other parts of the invariant do not look at fault events.
LEMMA FaultEventsApart ==
    ASSUME NEW f \in Seq(Event), \A i \in DOMAIN f : f[i] \in FaultEvents
    PROVE  Free(f, StateEvents) /\ Free(f, Recoveries) /\ Free(f, Troubles)
BY DEF Free, FaultEvents, StateEvents, Recoveries, Troubles

\* What every step keeps, the polling's own variables apart.
Kept == /\ BusTypeOK /\ LatchTypeOK
        /\ RecoverySettles /\ NewsIsHeld /\ LastFaultIsCode
        /\ SensorFollows /\ StatusFollows /\ DownIsEmpty

\* A StateEvent is handed to the bus.
LEMMA StateNotified ==
    ASSUME IInv, NEW s \in States, NotifyState(s), stage # "down",
           news' = IF s \in RecoveryStates THEN None ELSE news,
           UNCHANGED <<code, subscribed, shown, polling, stage>>
    PROVE  Kept'
<1> DEFINE e == [type |-> "state", value |-> s]
           q == Passed(lastState, "state", s)
<1>1. /\ e \in Event /\ e \in StateEvents /\ e \notin Troubles /\ e \notin FaultEvents
      /\ e \in LatestState(s)
      /\ s \in RecoveryStates <=> e \in Recoveries
  BY DEF Event, StateEvents, Recoveries, Troubles, FaultEvents, LatestState
<1>2. /\ q \in Seq(Event) /\ Len(q) <= 1
      /\ lastState = s => q = <<>>
      /\ \A A, B : lastState # s /\ e \in A => Ends(q, A, B)
      /\ \A B : lastState = s \/ e \notin B => Free(q, B)
  BY <1>1, OneOrNone
<1>3. /\ tasks \in Seq(Event) /\ Len(tasks) < MaxTasks
      /\ tasks' = tasks \o q
      /\ lastState' = s /\ lastError' = lastError /\ lastFault' = lastFault
  BY DEF NotifyState, IInv, TypeOK, BusTypeOK
<1> HIDE DEF e, q
<1>4. lastState = s => tasks' = tasks
  BY <1>2, <1>3, ConcatEmptySeq
<1>5. BusTypeOK' /\ LatchTypeOK'
  <2>1. tasks' \in Seq(Event) /\ Len(tasks') = Len(tasks) + Len(q)
    BY <1>2, <1>3, ConcatProperties
  <2>2. Len(tasks') <= MaxTasks + 1
    BY <2>1, <1>2, <1>3, MaxTasksAssumption, LenProperties
  <2>3. news' \in Codes \cup {None}
    BY DEF IInv, TypeOK, LatchTypeOK
  <2> QED BY <1>3, <2>1, <2>2, <2>3 DEF IInv, TypeOK, BusTypeOK, LatchTypeOK
<1>6. RecoverySettles'
  <2>1. CASE lastState = s
    BY <2>1, <1>3, <1>4 DEF IInv, RecoverySettles
  <2>2. CASE lastState # s
    <3>1. s \in RecoveryStates => Ends(tasks', Recoveries, Troubles)
      BY <2>2, <1>1, <1>2, <1>3, Arrives
    <3> QED BY <3>1, <1>3 DEF RecoverySettles
  <2> QED BY <2>1, <2>2
<1>7. NewsIsHeld'
  <2>1. CASE s \in RecoveryStates
    BY <2>1 DEF NewsIsHeld
  <2>2. CASE s \notin RecoveryStates
    <3>1. Free(q, Recoveries)
      BY <2>2, <1>1, <1>2
    <3>2. /\ Free(tasks, Recoveries) => Free(tasks', Recoveries)
          /\ Ends(tasks, Troubles, Recoveries) => Ends(tasks', Troubles, Recoveries)
      BY <3>1, <1>2, <1>3, Behind
    <3> QED BY <2>2, <3>2 DEF IInv, NewsIsHeld
  <2> QED BY <2>1, <2>2
<1>8. LastFaultIsCode'
  BY <1>3 DEF IInv, LastFaultIsCode
<1>9. SensorFollows'
  <2>1. Free(q, FaultEvents)
    BY <1>1, <1>2
  <2>2. /\ Free(tasks, FaultEvents) => Free(tasks', FaultEvents)
        /\ Ends(tasks, LatestFault(code), FaultEvents)
               => Ends(tasks', LatestFault(code), FaultEvents)
    BY <2>1, <1>2, <1>3, Behind
  <2> QED BY <2>2 DEF IInv, SensorFollows, Follows, Up
<1>10. StatusFollows'
  <2>1. CASE lastState = s
    BY <2>1, <1>3, <1>4 DEF IInv, StatusFollows, ShownOut, Up
  <2>2. CASE lastState # s
    <3>1. Ends(tasks', LatestState(s), StateEvents)
      BY <2>2, <1>1, <1>2, <1>3, Arrives
    <3> QED BY <3>1, <1>3 DEF StatusFollows
  <2> QED BY <2>1, <2>2
<1>11. DownIsEmpty'
  BY DEF IInv, DownIsEmpty
<1> QED BY <1>5, <1>6, <1>7, <1>8, <1>9, <1>10, <1>11 DEF Kept

\* An error is reported: perhaps a StateEvent, then perhaps an ErrorEvent.
LEMMA ErrorNotified ==
    ASSUME IInv, NEW c \in Codes \cup {0}, ErrorPush(c)
    PROVE  Kept'
<1> DEFINE e == [type |-> "error", value |-> c]
           r == [type |-> "state", value |-> "ERROR"]
           q == IF c = 0 THEN <<>> ELSE Passed(lastState, "state", "ERROR")
           p == Passed(lastError, "error", c)
<1>1. /\ e \in Event /\ e \notin StateEvents /\ e \notin Recoveries /\ e \notin FaultEvents
      /\ e \in Troubles <=> c # 0
      /\ r \in Event /\ r \in LatestState("ERROR")
      /\ r \notin Recoveries /\ r \notin Troubles /\ r \notin FaultEvents
  BY CodesAssumption
  DEF Event, StateEvents, Recoveries, RecoveryStates, Troubles, FaultEvents, LatestState, States
<1>2. /\ p \in Seq(Event) /\ Len(p) <= 1
      /\ c # lastError /\ c # 0 => Ends(p, Troubles, Recoveries)
      /\ Free(p, StateEvents) /\ Free(p, Recoveries) /\ Free(p, FaultEvents)
      /\ c = 0 => Free(p, Troubles)
  BY <1>1, OneOrNone
<1>3. /\ q \in Seq(Event) /\ Len(q) <= 1
      /\ Free(q, Recoveries) /\ Free(q, FaultEvents)
      /\ c = 0 \/ lastState = "ERROR" => q = <<>>
      /\ c # 0 /\ lastState # "ERROR" => Ends(q, LatestState("ERROR"), StateEvents)
  <2>1. CASE c = 0
    BY <2>1, EmptySeq DEF Free
  <2>2. CASE c # 0
    BY <2>2, <1>1, OneOrNone
  <2> QED BY <2>1, <2>2
<1>4. /\ tasks \in Seq(Event) /\ Len(tasks) < MaxTasks
      /\ tasks' = (tasks \o q) \o p
      /\ lastState' = IF c = 0 THEN lastState ELSE "ERROR"
      /\ lastError' = c /\ lastFault' = lastFault
      /\ news' = IF c = 0 \/ c = lastError THEN news ELSE c
      /\ stage # "down"
      /\ UNCHANGED <<code, subscribed, shown, polling, stage>>
  BY DEF ErrorPush, NotifyError, IInv, TypeOK, BusTypeOK, refresh
<1> HIDE DEF e, r, q, p
<1>5. tasks \o q \in Seq(Event) /\ (c = 0 \/ lastState = "ERROR" => tasks \o q = tasks)
  BY <1>3, <1>4, ConcatProperties, ConcatEmptySeq
<1>6. BusTypeOK' /\ LatchTypeOK'
  <2>1. tasks' \in Seq(Event) /\ Len(tasks') = Len(tasks) + Len(q) + Len(p)
    BY <1>2, <1>3, <1>4, <1>5, ConcatProperties
  <2>2. Len(tasks') <= MaxTasks + 1
    BY <2>1, <1>2, <1>3, <1>4, MaxTasksAssumption, LenProperties
  <2>3. news' \in Codes \cup {None}
    BY <1>4 DEF IInv, TypeOK, LatchTypeOK
  <2>4. lastState' \in States \cup {None}
    BY <1>4 DEF IInv, TypeOK, BusTypeOK, States
  <2> QED BY <1>4, <2>1, <2>2, <2>3, <2>4 DEF IInv, TypeOK, BusTypeOK, LatchTypeOK
<1>7. RecoverySettles'
  <2>1. CASE c = 0
    <3>1. /\ Free(tasks, Troubles) => Free(tasks', Troubles)
          /\ Ends(tasks, Recoveries, Troubles) => Ends(tasks', Recoveries, Troubles)
      BY <2>1, <1>2, <1>4, <1>5, Behind
    <3> QED BY <2>1, <3>1, <1>4 DEF IInv, RecoverySettles
  <2>2. CASE c # 0
    BY <2>2, <1>4 DEF RecoverySettles, RecoveryStates
  <2> QED BY <2>1, <2>2
<1>8. NewsIsHeld'
  <2>1. CASE c = 0 \/ c = lastError
    <3>1. /\ Free(tasks, Recoveries) => Free(tasks', Recoveries)
          /\ Ends(tasks, Troubles, Recoveries) => Ends(tasks', Troubles, Recoveries)
      BY <1>2, <1>3, <1>4, <1>5, Behind
    <3> QED BY <2>1, <3>1, <1>4 DEF IInv, NewsIsHeld
  <2>2. CASE c # 0 /\ c # lastError
    <3>1. Ends(tasks', Troubles, Recoveries)
      BY <2>2, <1>2, <1>4, <1>5, Arrives
    <3> QED BY <3>1 DEF NewsIsHeld
  <2> QED BY <2>1, <2>2
<1>9. LastFaultIsCode'
  BY <1>4 DEF IInv, LastFaultIsCode
<1>10. SensorFollows'
  <2>1. /\ Free(tasks, FaultEvents) => Free(tasks', FaultEvents)
        /\ Ends(tasks, LatestFault(code), FaultEvents)
               => Ends(tasks', LatestFault(code), FaultEvents)
    BY <1>2, <1>3, <1>4, <1>5, Behind
  <2> QED BY <2>1, <1>4 DEF IInv, SensorFollows, Follows, Up
<1>11. StatusFollows'
  <2>1. CASE c = 0 \/ lastState = "ERROR"
    <3>1. /\ Free(tasks, StateEvents) => Free(tasks', StateEvents)
          /\ Ends(tasks, LatestState(lastState), StateEvents)
                 => Ends(tasks', LatestState(lastState), StateEvents)
      BY <2>1, <1>2, <1>4, <1>5, Behind
    <3>2. lastState' = lastState
      BY <2>1, <1>4
    <3> QED BY <3>1, <3>2, <1>4 DEF IInv, StatusFollows, ShownOut, Up
  <2>2. CASE c # 0 /\ lastState # "ERROR"
    <3>1. Ends(tasks \o q, LatestState("ERROR"), StateEvents)
      BY <2>2, <1>3, <1>4, Arrives
    <3>2. Ends(tasks', LatestState("ERROR"), StateEvents)
      BY <3>1, <1>2, <1>4, <1>5, Behind
    <3> QED BY <2>2, <3>2, <1>4 DEF StatusFollows
  <2> QED BY <2>1, <2>2
<1>12. DownIsEmpty'
  BY <1>4 DEF IInv, DownIsEmpty
<1> QED BY <1>6, <1>7, <1>8, <1>9, <1>10, <1>11, <1>12 DEF Kept

\* The latch is set to c, behind a queue with room left: the fault event at its
\* end disturbs nothing else.
LEMMA HeldAfter ==
    ASSUME IInv, NEW queue \in Seq(Event), Len(queue) <= MaxTasks,
           NEW c \in Codes \cup {None}, Hold(c, queue)
    PROVE  /\ code' = c
           /\ lastFault' \in Codes \cup {None, NoEvent}
           /\ LastFaultIsCode'
           /\ tasks' \in Seq(Event) /\ Len(tasks') <= MaxTasks + 1
           /\ Follows(queue, code) => Follows(tasks', code')
           /\ \A A : \A B \in {StateEvents, Recoveries, Troubles} :
                  /\ Free(queue, B) => Free(tasks', B)
                  /\ Ends(queue, A, B) => Ends(tasks', A, B)
<1>1. /\ code' = c
      /\ lastFault' \in Codes \cup {None, NoEvent}
      /\ LastFaultIsCode'
      /\ \E f \in Seq(Event) : /\ tasks' = queue \o f /\ Len(f) <= 1
                               /\ \A i \in DOMAIN f : f[i] \in FaultEvents
      /\ Follows(queue, code) => Follows(tasks', code')
  BY HoldAdds DEF IInv
<1>2. PICK f \in Seq(Event) : /\ tasks' = queue \o f /\ Len(f) <= 1
                             /\ \A i \in DOMAIN f : f[i] \in FaultEvents
  BY <1>1
<1>3. Free(f, StateEvents) /\ Free(f, Recoveries) /\ Free(f, Troubles)
  BY <1>2, FaultEventsApart
<1>4. tasks' \in Seq(Event) /\ Len(tasks') = Len(queue) + Len(f)
  BY <1>2, ConcatProperties
<1>5. Len(tasks') <= MaxTasks + 1
  BY <1>2, <1>4, MaxTasksAssumption, LenProperties
<1>6. ASSUME NEW A, NEW B \in {StateEvents, Recoveries, Troubles}
      PROVE  /\ Free(queue, B) => Free(tasks', B)
             /\ Ends(queue, A, B) => Ends(tasks', A, B)
  <2>1. Free(f, B)
    BY <1>3
  <2> QED BY <2>1, <1>2, Behind
<1> QED BY <1>1, <1>4, <1>5, <1>6

-------------------------------------------------------------------------------
(* The tasks, the user and the unloading.                                   *)

\* The queue behind the first task.
LEMMA FirstTask ==
    ASSUME IInv, tasks # <<>>
    PROVE  /\ Tail(tasks) \in Seq(Event) /\ Len(Tail(tasks)) <= MaxTasks
           /\ Head(tasks) \in Event
           /\ stage # "down"
           /\ \A A, B :
                  /\ Free(tasks, B) => Free(Tail(tasks), B) /\ Head(tasks) \notin B
                  /\ Ends(tasks, A, B) => \/ Ends(Tail(tasks), A, B)
                                          \/ Head(tasks) \in A /\ Free(Tail(tasks), B)
<1>1. tasks \in Seq(Event) /\ Len(tasks) <= MaxTasks + 1
  BY DEF IInv, TypeOK, BusTypeOK
<1>2. Tail(tasks) \in Seq(Event) /\ Head(tasks) \in Event /\ Len(Tail(tasks)) = Len(tasks) - 1
  BY <1>1, Ran
<1>3. Len(Tail(tasks)) <= MaxTasks
  BY <1>1, <1>2, MaxTasksAssumption, LenProperties
<1>4. stage # "down"
  BY DEF IInv, DownIsEmpty
<1>5. \A A, B :
          /\ Free(tasks, B) => Free(Tail(tasks), B) /\ Head(tasks) \notin B
          /\ Ends(tasks, A, B) => \/ Ends(Tail(tasks), A, B)
                                  \/ Head(tasks) \in A /\ Free(Tail(tasks), B)
  BY <1>1, Ran
<1> QED BY <1>2, <1>3, <1>4, <1>5

\* on_status, then the latch.
LEMMA StateRun ==
    ASSUME IInv, RunState
    PROVE  Kept'
<1> DEFINE s == Head(tasks).value
           c == IF s \in RecoveryStates THEN None ELSE code
<1>1. /\ tasks # <<>> /\ Head(tasks).type = "state"
      /\ OnStatus(s) /\ OnState(s, Tail(tasks))
      /\ UNCHANGED <<lastError, lastState, subscribed, shown, news, stage>>
  BY DEF RunState, Quiet
<1>2. /\ Tail(tasks) \in Seq(Event) /\ Len(Tail(tasks)) <= MaxTasks
      /\ stage # "down"
      /\ \A A, B :
             /\ Free(tasks, B) => Free(Tail(tasks), B) /\ Head(tasks) \notin B
             /\ Ends(tasks, A, B) => \/ Ends(Tail(tasks), A, B)
                                     \/ Head(tasks) \in A /\ Free(Tail(tasks), B)
  BY <1>1, FirstTask
<1>3. /\ Head(tasks) \in StateEvents
      /\ s \in States
      /\ Head(tasks) \notin FaultEvents /\ Head(tasks) \notin Troubles
      /\ Head(tasks) \notin LatestFault(code)
      /\ Head(tasks) \in Recoveries <=> s \in RecoveryStates
      /\ \A v : Head(tasks) \in LatestState(v) => s = v
  BY <1>1, FirstTask
  DEF Event, StateEvents, FaultEvents, Troubles, Recoveries, LatestFault, LatestState
<1>4. c \in Codes \cup {None} /\ Hold(c, Tail(tasks))
  BY <1>1 DEF OnState, Clear, Hold, IInv, TypeOK, LatchTypeOK
<1> HIDE DEF c
<1>5. /\ code' = c
      /\ lastFault' \in Codes \cup {None, NoEvent}
      /\ LastFaultIsCode'
      /\ tasks' \in Seq(Event) /\ Len(tasks') <= MaxTasks + 1
      /\ Follows(Tail(tasks), code) => Follows(tasks', code')
      /\ \A A : \A B \in {StateEvents, Recoveries, Troubles} :
             /\ Free(Tail(tasks), B) => Free(tasks', B)
             /\ Ends(Tail(tasks), A, B) => Ends(tasks', A, B)
  BY <1>2, <1>4, HeldAfter
<1>6. BusTypeOK' /\ LatchTypeOK'
  BY <1>1, <1>4, <1>5 DEF IInv, TypeOK, BusTypeOK, LatchTypeOK
<1>7. RecoverySettles'
  <2> SUFFICES ASSUME lastState \in RecoveryStates
               PROVE  \/ code' = None /\ Free(tasks', Troubles)
                      \/ Ends(tasks', Recoveries, Troubles)
    BY <1>1 DEF RecoverySettles
  <2>1. CASE code = None /\ Free(tasks, Troubles)
    BY <2>1, <1>2, <1>5 DEF c
  <2>2. CASE Ends(tasks, Recoveries, Troubles)
    BY <2>2, <1>2, <1>3, <1>5 DEF c
  <2> QED BY <2>1, <2>2 DEF IInv, RecoverySettles
<1>8. NewsIsHeld'
  <2> SUFFICES ASSUME news # None
               PROVE  \/ code' # None /\ Free(tasks', Recoveries)
                      \/ Ends(tasks', Troubles, Recoveries)
    BY <1>1 DEF NewsIsHeld
  <2>1. CASE code # None /\ Free(tasks, Recoveries)
    BY <2>1, <1>2, <1>3, <1>5 DEF c
  <2>2. CASE Ends(tasks, Troubles, Recoveries)
    BY <2>2, <1>2, <1>3, <1>5
  <2> QED BY <2>1, <2>2 DEF IInv, NewsIsHeld
<1>9. SensorFollows'
  <2>1. Follows(tasks, code) => Follows(Tail(tasks), code)
    BY <1>2, <1>3 DEF Follows
  <2>2. Follows(tasks', code') => Follows(tasks, code)'
    BY <1>1 DEF Follows
  <2> QED BY <2>1, <2>2, <1>1, <1>5 DEF IInv, SensorFollows, Up
<1>10. StatusFollows'
  <2> SUFFICES ASSUME Up, ShownOut
               PROVE  \/ polling' /\ Free(tasks', StateEvents)
                      \/ Ends(tasks', LatestState(lastState), StateEvents)
    BY <1>1 DEF StatusFollows, Up, ShownOut
  <2>1. Ends(tasks, LatestState(lastState), StateEvents)
    BY <1>2, <1>3 DEF IInv, StatusFollows
  <2>2. CASE Ends(Tail(tasks), LatestState(lastState), StateEvents)
    BY <2>2, <1>5
  <2>3. CASE Head(tasks) \in LatestState(lastState) /\ Free(Tail(tasks), StateEvents)
    <3>1. s # "DOCKED"
      BY <2>3, <1>3 DEF ShownOut
    <3> QED BY <3>1, <2>3, <1>1, <1>5 DEF OnStatus
  <2> QED BY <2>1, <2>2, <2>3, <1>2
<1>11. DownIsEmpty'
  BY <1>1, <1>2 DEF IInv, DownIsEmpty
<1> QED BY <1>5, <1>6, <1>7, <1>8, <1>9, <1>10, <1>11 DEF Kept

\* The latch's task for an error.
LEMMA ErrorRun ==
    ASSUME IInv, RunError
    PROVE  Kept'
<1> DEFINE v == Head(tasks).value
           c == IF v = 0 THEN code ELSE v
<1>1. /\ tasks # <<>> /\ Head(tasks).type = "error"
      /\ OnError(v, Tail(tasks))
      /\ UNCHANGED <<lastError, lastState, subscribed, shown, news, stage, polling>>
  BY DEF RunError, Quiet, poll, refresh
<1>2. /\ Tail(tasks) \in Seq(Event) /\ Len(Tail(tasks)) <= MaxTasks
      /\ stage # "down"
      /\ \A A, B :
             /\ Free(tasks, B) => Free(Tail(tasks), B) /\ Head(tasks) \notin B
             /\ Ends(tasks, A, B) => \/ Ends(Tail(tasks), A, B)
                                     \/ Head(tasks) \in A /\ Free(Tail(tasks), B)
  BY <1>1, FirstTask
<1>3. /\ v \in Codes \cup {0}
      /\ Head(tasks) \notin StateEvents /\ Head(tasks) \notin Recoveries
      /\ Head(tasks) \notin FaultEvents /\ Head(tasks) \notin LatestFault(code)
      /\ Head(tasks) \notin LatestState(lastState)
      /\ Head(tasks) \in Troubles <=> v # 0
  BY <1>1, FirstTask, CodesAssumption
  DEF Event, StateEvents, FaultEvents, Troubles, Recoveries, LatestFault, LatestState
<1>4. c \in Codes \cup {None} /\ Hold(c, Tail(tasks))
  BY <1>1, <1>3 DEF OnError, Hold, IInv, TypeOK, LatchTypeOK
<1>5. v # 0 => c # None
  BY <1>3, CodesAssumption
<1>6. v = 0 => c = code
  OBVIOUS
<1> HIDE DEF c
<1>7. /\ code' = c
      /\ lastFault' \in Codes \cup {None, NoEvent}
      /\ LastFaultIsCode'
      /\ tasks' \in Seq(Event) /\ Len(tasks') <= MaxTasks + 1
      /\ Follows(Tail(tasks), code) => Follows(tasks', code')
      /\ \A A : \A B \in {StateEvents, Recoveries, Troubles} :
             /\ Free(Tail(tasks), B) => Free(tasks', B)
             /\ Ends(Tail(tasks), A, B) => Ends(tasks', A, B)
  BY <1>2, <1>4, HeldAfter
<1>8. BusTypeOK' /\ LatchTypeOK'
  BY <1>1, <1>4, <1>7 DEF IInv, TypeOK, BusTypeOK, LatchTypeOK
<1>9. RecoverySettles'
  <2> SUFFICES ASSUME lastState \in RecoveryStates
               PROVE  \/ code' = None /\ Free(tasks', Troubles)
                      \/ Ends(tasks', Recoveries, Troubles)
    BY <1>1 DEF RecoverySettles
  <2>1. CASE code = None /\ Free(tasks, Troubles)
    BY <2>1, <1>2, <1>3, <1>6, <1>7
  <2>2. CASE Ends(tasks, Recoveries, Troubles)
    BY <2>2, <1>2, <1>3, <1>7
  <2> QED BY <2>1, <2>2 DEF IInv, RecoverySettles
<1>10. NewsIsHeld'
  <2> SUFFICES ASSUME news # None
               PROVE  \/ code' # None /\ Free(tasks', Recoveries)
                      \/ Ends(tasks', Troubles, Recoveries)
    BY <1>1 DEF NewsIsHeld
  <2>1. CASE code # None /\ Free(tasks, Recoveries)
    BY <2>1, <1>2, <1>5, <1>6, <1>7
  <2>2. CASE Ends(tasks, Troubles, Recoveries)
    BY <2>2, <1>2, <1>3, <1>5, <1>7
  <2> QED BY <2>1, <2>2 DEF IInv, NewsIsHeld
<1>11. SensorFollows'
  <2>1. Follows(tasks, code) => Follows(Tail(tasks), code)
    BY <1>2, <1>3 DEF Follows
  <2>2. Follows(tasks', code') => Follows(tasks, code)'
    BY <1>1 DEF Follows
  <2> QED BY <2>1, <2>2, <1>1, <1>7 DEF IInv, SensorFollows, Up
<1>12. StatusFollows'
  <2>1. /\ Free(tasks, StateEvents) => Free(tasks', StateEvents)
        /\ Ends(tasks, LatestState(lastState), StateEvents)
               => Ends(tasks', LatestState(lastState), StateEvents)
    BY <1>2, <1>3, <1>7
  <2> QED BY <2>1, <1>1 DEF IInv, StatusFollows, Up, ShownOut
<1>13. DownIsEmpty'
  BY <1>1, <1>2 DEF IInv, DownIsEmpty
<1> QED BY <1>7, <1>8, <1>9, <1>10, <1>11, <1>12, <1>13 DEF Kept

\* The sensor's task.
LEMMA FaultRun ==
    ASSUME IInv, RunFault
    PROVE  Kept'
<1>1. /\ tasks # <<>> /\ Head(tasks).type = "fault"
      /\ tasks' = Tail(tasks) /\ shown' = Head(tasks).value
      /\ UNCHANGED <<lastError, lastState, lastFault, code, subscribed, news, stage, polling>>
  BY DEF RunFault, Quiet, poll, refresh
<1>2. /\ Tail(tasks) \in Seq(Event) /\ Len(Tail(tasks)) <= MaxTasks
      /\ stage # "down"
      /\ \A A, B :
             /\ Free(tasks, B) => Free(Tail(tasks), B) /\ Head(tasks) \notin B
             /\ Ends(tasks, A, B) => \/ Ends(Tail(tasks), A, B)
                                     \/ Head(tasks) \in A /\ Free(Tail(tasks), B)
  BY <1>1, FirstTask
<1>3. /\ Head(tasks) \in FaultEvents
      /\ Head(tasks).value \in Codes \cup {None}
      /\ Head(tasks) \in LatestFault(code) => Head(tasks).value = code
      /\ Head(tasks) \notin Recoveries /\ Head(tasks) \notin Troubles
      /\ Head(tasks) \notin LatestState(lastState)
  BY <1>1, FirstTask
  DEF Event, FaultEvents, Troubles, Recoveries, LatestFault, LatestState
<1>4. BusTypeOK' /\ LatchTypeOK'
  <2>1. Len(Tail(tasks)) <= MaxTasks + 1
    BY <1>2, MaxTasksAssumption, LenProperties
  <2> QED BY <1>1, <1>2, <1>3, <2>1 DEF IInv, TypeOK, BusTypeOK, LatchTypeOK
<1>5. RecoverySettles' /\ NewsIsHeld'
  BY <1>1, <1>2, <1>3 DEF IInv, RecoverySettles, NewsIsHeld
<1>6. LastFaultIsCode'
  BY <1>1 DEF IInv, LastFaultIsCode
<1>7. SensorFollows'
  <2> SUFFICES ASSUME Up
               PROVE  Follows(tasks, code)'
    BY <1>1 DEF SensorFollows, Up
  <2>1. Follows(tasks, code)
    BY DEF IInv, SensorFollows
  <2>2. subscribed /\ Ends(tasks, LatestFault(code), FaultEvents)
    BY <2>1, <1>2, <1>3 DEF Follows
  <2>3. \/ Ends(Tail(tasks), LatestFault(code), FaultEvents)
        \/ shown' = code /\ Free(Tail(tasks), FaultEvents)
    BY <2>2, <1>1, <1>2, <1>3
  <2> QED BY <2>2, <2>3, <1>1 DEF Follows, LatestFault
<1>8. StatusFollows'
  BY <1>1, <1>2, <1>3 DEF IInv, StatusFollows, Up, ShownOut
<1>9. DownIsEmpty'
  BY <1>1, <1>2 DEF IInv, DownIsEmpty
<1> QED BY <1>4, <1>5, <1>6, <1>7, <1>8, <1>9 DEF Kept

\* The clear button.
LEMMA Pressed ==
    ASSUME IInv, Press
    PROVE  Kept'
<1>1. /\ stage = "up" /\ Len(tasks) < MaxTasks /\ news' = None
      /\ Clear(tasks)
      /\ UNCHANGED <<lastError, lastState, subscribed, shown, stage, polling>>
  BY DEF Press, ClearByRequest, poll, refresh
<1>2. Hold(None, tasks)
  BY <1>1 DEF Clear, Hold
<1>3. tasks \in Seq(Event) /\ Len(tasks) <= MaxTasks
  BY <1>1, MaxTasksAssumption, LenProperties DEF IInv, TypeOK, BusTypeOK
<1>4. /\ code' = None
      /\ lastFault' \in Codes \cup {None, NoEvent}
      /\ LastFaultIsCode'
      /\ tasks' \in Seq(Event) /\ Len(tasks') <= MaxTasks + 1
      /\ Follows(tasks, code) => Follows(tasks', code')
      /\ \A A : \A B \in {StateEvents, Recoveries, Troubles} :
             /\ Free(tasks, B) => Free(tasks', B)
             /\ Ends(tasks, A, B) => Ends(tasks', A, B)
  BY <1>2, <1>3, HeldAfter
<1>5. BusTypeOK' /\ LatchTypeOK'
  BY <1>1, <1>4 DEF IInv, TypeOK, BusTypeOK, LatchTypeOK
<1>6. RecoverySettles'
  BY <1>1, <1>4 DEF IInv, RecoverySettles
<1>7. NewsIsHeld' /\ DownIsEmpty'
  BY <1>1 DEF NewsIsHeld, DownIsEmpty
<1>8. SensorFollows'
  <2>1. Follows(tasks', code') => Follows(tasks, code)'
    BY <1>1 DEF Follows
  <2> QED BY <2>1, <1>1, <1>4 DEF IInv, SensorFollows, Up
<1>9. StatusFollows'
  BY <1>1, <1>4 DEF IInv, StatusFollows, Up, ShownOut
<1> QED BY <1>4, <1>5, <1>6, <1>7, <1>8, <1>9 DEF Kept

\* The sensor is added: the bus replays what is latched, if it was ever told.
LEMMA SensorAdded ==
    ASSUME IInv, AddSensor
    PROVE  Kept'
<1> DEFINE e == [type |-> "fault", value |-> lastFault]
           f == IF lastFault = NoEvent THEN <<>> ELSE <<e>>
<1>1. /\ stage = "up" /\ ~subscribed /\ subscribed' = TRUE
      /\ Len(tasks) < MaxTasks
      /\ tasks' = tasks \o f
      /\ UNCHANGED <<lastError, lastState, lastFault, code, shown, news, stage, polling>>
  BY DEF AddSensor, Subscribe, poll, refresh
<1>2. tasks \in Seq(Event)
  BY DEF IInv, TypeOK, BusTypeOK
<1>3. shown = None /\ Free(tasks, FaultEvents)
  BY <1>1 DEF IInv, SensorFollows, Follows, Up
<1>4. lastFault = NoEvent => f = <<>> /\ code = None
  BY DEF IInv, LastFaultIsCode
<1>5. lastFault # NoEvent => /\ f = <<e>> /\ e \in Event
                             /\ e \in FaultEvents /\ e \in LatestFault(code)
  BY DEF IInv, LastFaultIsCode, TypeOK, BusTypeOK, Event, FaultEvents, LatestFault
<1> HIDE DEF e, f
<1>6. /\ f \in Seq(Event) /\ Len(f) <= 1 /\ \A i \in DOMAIN f : f[i] \in FaultEvents
      /\ lastFault # NoEvent => Ends(f, LatestFault(code), FaultEvents)
  <2>1. CASE lastFault = NoEvent
    BY <2>1, <1>4
  <2>2. CASE lastFault # NoEvent
    <3>1. <<e>> \in Seq(Event) /\ Len(<<e>>) = 1 /\ DOMAIN <<e>> = {1} /\ <<e>>[1] = e
      BY <2>2, <1>5
    <3>2. f \in Seq(Event) /\ Len(f) = 1 /\ DOMAIN f = {1} /\ f[1] = e
      BY <2>2, <3>1, <1>5
    <3> QED BY <2>2, <3>2, <1>5 DEF Ends
  <2> QED BY <2>1, <2>2
<1>7. Free(f, StateEvents) /\ Free(f, Recoveries) /\ Free(f, Troubles)
  BY <1>6, FaultEventsApart
<1>8. BusTypeOK' /\ LatchTypeOK'
  <2>1. tasks' \in Seq(Event) /\ Len(tasks') = Len(tasks) + Len(f)
    BY <1>1, <1>2, <1>6, ConcatProperties
  <2>2. Len(tasks') <= MaxTasks + 1
    BY <2>1, <1>1, <1>2, <1>6, MaxTasksAssumption, LenProperties
  <2> QED BY <2>1, <2>2, <1>1 DEF IInv, TypeOK, BusTypeOK, LatchTypeOK
<1>9. RecoverySettles'
  <2>1. /\ Free(tasks, Troubles) => Free(tasks', Troubles)
        /\ Ends(tasks, Recoveries, Troubles) => Ends(tasks', Recoveries, Troubles)
    BY <1>1, <1>2, <1>6, <1>7, Behind
  <2> QED BY <2>1, <1>1 DEF IInv, RecoverySettles
<1>10. NewsIsHeld'
  <2>1. /\ Free(tasks, Recoveries) => Free(tasks', Recoveries)
        /\ Ends(tasks, Troubles, Recoveries) => Ends(tasks', Troubles, Recoveries)
    BY <1>1, <1>2, <1>6, <1>7, Behind
  <2> QED BY <2>1, <1>1 DEF IInv, NewsIsHeld
<1>11. LastFaultIsCode'
  BY <1>1 DEF IInv, LastFaultIsCode
<1>12. SensorFollows'
  <2>1. CASE lastFault = NoEvent
    <3>1. tasks' = tasks /\ shown = code
      BY <2>1, <1>1, <1>2, <1>3, <1>4, ConcatEmptySeq
    <3> QED BY <3>1, <1>1, <1>3 DEF SensorFollows, Follows
  <2>2. CASE lastFault # NoEvent
    <3>1. Ends(tasks', LatestFault(code), FaultEvents)
      BY <2>2, <1>1, <1>2, <1>6, Arrives
    <3> QED BY <3>1, <1>1 DEF SensorFollows, Follows, LatestFault
  <2> QED BY <2>1, <2>2
<1>13. StatusFollows'
  <2>1. /\ Free(tasks, StateEvents) => Free(tasks', StateEvents)
        /\ Ends(tasks, LatestState(lastState), StateEvents)
               => Ends(tasks', LatestState(lastState), StateEvents)
    BY <1>1, <1>2, <1>6, <1>7, Behind
  <2> QED BY <2>1, <1>1 DEF IInv, StatusFollows, Up, ShownOut
<1>14. DownIsEmpty'
  BY <1>1 DEF IInv, DownIsEmpty
<1> QED BY <1>8, <1>9, <1>10, <1>11, <1>12, <1>13, <1>14 DEF Kept

\* Steps of the mower, the tick and the services: they may start the tick, and
\* leave bus and latch alone.
LEMMA Apart ==
    ASSUME IInv, UNCHANGED <<bus, latch, stage>>, polling => polling'
    PROVE  Kept'
<1>1. UNCHANGED <<lastError, lastState, lastFault, tasks, code, subscribed, shown, news, stage>>
  BY DEF bus, latch
<1>2. BusTypeOK' /\ LatchTypeOK'
  BY <1>1 DEF IInv, TypeOK, BusTypeOK, LatchTypeOK
<1>3. RecoverySettles' /\ NewsIsHeld' /\ LastFaultIsCode'
  BY <1>1 DEF IInv, RecoverySettles, NewsIsHeld, LastFaultIsCode
<1>4. SensorFollows' /\ StatusFollows'
  BY <1>1 DEF IInv, SensorFollows, Follows, LatestFault, StatusFollows, Up, ShownOut
<1>5. DownIsEmpty'
  BY <1>1 DEF IInv, DownIsEmpty
<1> QED BY <1>2, <1>3, <1>4, <1>5 DEF Kept

\* Unloading and setting up.
LEMMA Reloaded ==
    ASSUME IInv, Teardown \/ TeardownDevice \/ Setup
    PROVE  Kept'
<1>1. CASE Teardown
  <2>1. UNCHANGED <<lastError, lastState, lastFault, tasks, code, shown, news>>
    BY <1>1 DEF Teardown, bus
  <2>2. BusTypeOK' /\ LatchTypeOK'
    BY <2>1, <1>1 DEF Teardown, IInv, TypeOK, BusTypeOK, LatchTypeOK
  <2>3. RecoverySettles' /\ NewsIsHeld' /\ LastFaultIsCode'
    BY <2>1 DEF IInv, RecoverySettles, NewsIsHeld, LastFaultIsCode
  <2>4. SensorFollows' /\ StatusFollows' /\ DownIsEmpty'
    BY <1>1 DEF Teardown, SensorFollows, StatusFollows, DownIsEmpty, Up
  <2> QED BY <2>2, <2>3, <2>4 DEF Kept
<1>2. CASE TeardownDevice
  <2>1. /\ lastError' = None /\ lastState' = None /\ lastFault' = NoEvent /\ tasks' = <<>>
        /\ code' = None /\ shown' = None /\ news' = None
        /\ stage = "saving" /\ stage' = "down" /\ subscribed' = subscribed
    BY <1>2 DEF TeardownDevice
  <2>2. BusTypeOK'
    BY <2>1, EmptySeq, MaxTasksAssumption DEF BusTypeOK
  <2>3. LatchTypeOK'
    BY <2>1 DEF IInv, TypeOK, LatchTypeOK
  <2>4. RecoverySettles'
    BY <2>1, CodesAssumption DEF RecoverySettles, RecoveryStates, States
  <2>5. NewsIsHeld' /\ LastFaultIsCode' /\ SensorFollows' /\ StatusFollows'
    BY <2>1 DEF NewsIsHeld, LastFaultIsCode, SensorFollows, StatusFollows, Up
  <2>6. DownIsEmpty'
    BY <2>1 DEF DownIsEmpty, IInv
  <2> QED BY <2>2, <2>3, <2>4, <2>5, <2>6 DEF Kept
<1>3. CASE Setup
  <2>1. UNCHANGED <<lastError, lastState, lastFault, tasks, code, subscribed, shown, news>>
    BY <1>3 DEF Setup, bus, latch
  <2>2. /\ stage = "down" /\ stage' = "up"
        /\ lastState = None /\ lastFault = NoEvent /\ tasks = <<>>
        /\ code = None /\ shown = None /\ news = None /\ ~subscribed
    BY <1>3 DEF Setup, IInv, DownIsEmpty
  <2>3. BusTypeOK' /\ LatchTypeOK'
    BY <2>1 DEF IInv, TypeOK, BusTypeOK, LatchTypeOK
  <2>4. RecoverySettles' /\ NewsIsHeld' /\ LastFaultIsCode'
    BY <2>1 DEF IInv, RecoverySettles, NewsIsHeld, LastFaultIsCode
  <2>5. SensorFollows'
    BY <2>1, <2>2 DEF SensorFollows, Follows, Free
  <2>6. StatusFollows' /\ DownIsEmpty'
    BY <2>1, <2>2, CodesAssumption DEF StatusFollows, ShownOut, DownIsEmpty
  <2> QED BY <2>3, <2>4, <2>5, <2>6 DEF Kept
<1> QED BY <1>1, <1>2, <1>3

-------------------------------------------------------------------------------
(* The theorems.                                                            *)

LEMMA InitInv == Init => IInv
<1> SUFFICES ASSUME Init PROVE IInv
  OBVIOUS
<1> USE DEF Init, BusInit, LatchInit, PollInit
<1>1. TypeOK
  <2>1. BusTypeOK
    <3>1. tasks \in Seq(Event) /\ Len(tasks) <= MaxTasks + 1
      BY MaxTasksAssumption
    <3> QED BY <3>1 DEF BusTypeOK
  <2>2. LatchTypeOK /\ PollTypeOK
    BY DEF LatchTypeOK, PollTypeOK, States
  <2> QED BY <2>1, <2>2 DEF TypeOK
<1>2. RecoverySettles /\ StatusFollows
  BY CodesAssumption DEF RecoverySettles, RecoveryStates, StatusFollows, ShownOut, States
<1>3. NewsIsHeld /\ LastFaultIsCode /\ DownIsEmpty
  BY DEF NewsIsHeld, LastFaultIsCode, DownIsEmpty
<1>4. SensorFollows
  BY DEF SensorFollows, Follows, Free
<1> QED BY <1>1, <1>2, <1>3, <1>4 DEF IInv

\* The polling's own variables keep their types.
LEMMA PollStep ==
    ASSUME PollTypeOK, BusTypeOK, [Next]_vars
    PROVE  PollTypeOK'
<1> USE DEF PollTypeOK, refresh
<1>1. CASE \E s \in States : MowerChanges(s) /\ UNCHANGED latch
  BY <1>1 DEF MowerChanges
<1>2. CASE \/ \E s \in States \ {"ERROR"} : StatePush(s)
           \/ \E c \in Codes \cup {0} : ErrorPush(c)
           \/ AnswerArrives
  BY <1>2 DEF StatePush, ErrorPush, AnswerArrives, AnswerRead, Noted
<1>3. CASE MowerAnswers \/ AnswerLost \/ NetworkAnswer
  BY <1>3 DEF MowerAnswers, AnswerLost, NetworkAnswer
<1>4. CASE RunState
  BY <1>4 DEF RunState, OnStatus
<1>5. CASE RunError \/ RunFault \/ Press \/ AddSensor
  BY <1>5 DEF RunError, RunFault, Press, AddSensor, poll
<1>6. CASE MowCommand \/ Tick \/ UpdateEntity
  BY <1>6 DEF MowCommand, Tick, UpdateEntity
<1>7. CASE Teardown \/ TeardownDevice \/ Setup
  BY <1>7 DEF Teardown, TeardownDevice, Setup
<1>8. CASE UNCHANGED vars
  BY <1>8 DEF vars, poll
<1> QED BY <1>1, <1>2, <1>3, <1>4, <1>5, <1>6, <1>7, <1>8 DEF Next, RunEvent

LEMMA NextInv == IInv /\ [Next]_vars => IInv'
<1> SUFFICES ASSUME IInv, [Next]_vars PROVE IInv'
  OBVIOUS
<1>1. PollTypeOK'
  BY PollStep DEF IInv, TypeOK
<1>2. Kept'
  <2>1. CASE \/ \E s \in States : MowerChanges(s) /\ UNCHANGED latch
             \/ (MowerAnswers \/ AnswerLost \/ NetworkAnswer) /\ UNCHANGED latch
             \/ (MowCommand \/ Tick \/ UpdateEntity) /\ UNCHANGED latch
    <3>1. UNCHANGED <<bus, latch, stage>> /\ (polling => polling')
      BY <2>1 DEF MowerChanges, MowerAnswers, AnswerLost, NetworkAnswer, MowCommand, Tick,
                  UpdateEntity, refresh
    <3> QED BY <3>1, Apart
  <2>2. CASE \E s \in States \ {"ERROR"} : StatePush(s)
    <3>1. PICK s \in States \ {"ERROR"} : StatePush(s)
      BY <2>2
    <3> QED BY <3>1, StateNotified DEF StatePush, Noted, refresh
  <2>3. CASE \E c \in Codes \cup {0} : ErrorPush(c)
    BY <2>3, ErrorNotified
  <2>4. CASE AnswerArrives
    BY <2>4, StateNotified DEF AnswerArrives, AnswerRead, Noted
  <2>5. CASE RunState
    BY <2>5, StateRun
  <2>6. CASE RunError
    BY <2>6, ErrorRun
  <2>7. CASE RunFault
    BY <2>7, FaultRun
  <2>8. CASE Press
    BY <2>8, Pressed
  <2>9. CASE AddSensor
    BY <2>9, SensorAdded
  <2>10. CASE Teardown \/ TeardownDevice \/ Setup
    BY <2>10, Reloaded
  <2>11. CASE UNCHANGED vars
    BY <2>11, Apart DEF vars, poll, refresh
  <2> QED BY <2>1, <2>2, <2>3, <2>4, <2>5, <2>6, <2>7, <2>8, <2>9, <2>10, <2>11
          DEF Next, RunEvent
<1> QED BY <1>1, <1>2 DEF IInv, TypeOK, Kept

\* The invariant holds whatever pushes, answers, errors, presses and reloads come.
THEOREM Invariant == Spec => []IInv
BY InitInv, NextInv, PTL DEF Spec

\* Every variable of latch, sensor, polling and bus keeps its type, and the queue
\* its bound (fault.py, controller.py).
THEOREM TypeCorrect == Spec => []TypeOK
<1>1. IInv => TypeOK
  BY DEF IInv
<1> QED BY <1>1, Invariant, PTL

\* Once the tasks have run, the latch is empty after a recovery, holds a fault that
\* nothing resolved, and the sensor shows what it holds (fault.py _on_error,
\* _on_state), for any codes and any number of events waiting.
THEOREM FaultFollows == Spec => []FaultFollowsEvents
<1>1. IInv => FaultFollowsEvents
  <2> SUFFICES ASSUME IInv, Up, Quiet
               PROVE  /\ lastState \in RecoveryStates => code = None
                      /\ news # None => code # None
                      /\ subscribed => shown = code
    BY DEF FaultFollowsEvents
  <2>1. \A A, B : ~Ends(tasks, A, B)
    BY DEF Quiet, Ends
  <2> QED BY <2>1 DEF IInv, RecoverySettles, NewsIsHeld, SensorFollows, Follows
<1> QED BY <1>1, Invariant, PTL

\* Once the tasks have run, a mower shown anything but docked is polled
\* (controller.py on_status, start_polling).
THEOREM ShownOutPolled == Spec => []ShownOutIsPolled
<1>1. IInv => ShownOutIsPolled
  <2> SUFFICES ASSUME IInv, Up, Quiet, ShownOut
               PROVE  polling
    BY DEF ShownOutIsPolled
  <2>1. \A A, B : ~Ends(tasks, A, B)
    BY DEF Quiet, Ends
  <2> QED BY <2>1 DEF IInv, StatusFollows
<1> QED BY <1>1, Invariant, PTL

===============================================================================
