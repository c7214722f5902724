------------------------------ MODULE ProgressProofs -----------------------------
(***************************************************************************)
(* Theorems about Progress with Activity, for any mowers and figures and   *)
(* any number of jobs: its type invariant, that a rain stop is told for as *)
(* long as it lasts, save in an error, and that the figure of a job never  *)
(* falls and never becomes unknown.                                        *)
(*                                                                         *)
(* Both are about the events that still wait.  The last word on the rain   *)
(* and on the state is among them; and where nothing overtakes, the jobs   *)
(* come one after another, each with figures that grow and its stop behind *)
(* all that may reset it.                                                  *)
(***************************************************************************)
EXTENDS Progress, SequenceTheorems, TLAPS

Amounts == 0..Full + 1
EdgeTriggers == NewTriggers \cup OtherTriggers \cup {"workComplete"}

\* A callback waits with an event of its own type; of the announcements only a
\* stop has a figure.
Tasks == [on : {"state"}, state : States, job : Nat]
         \cup [on : {"stats"}, figure : Amounts \cup {None}, job : Nat]
         \cup [on : {"edge"}, phase : {"start", "resume"}, trigger : EdgeTriggers,
               figure : {None}, job : Nat]
         \cup [on : {"edge"}, phase : {"stop"}, trigger : EdgeTriggers,
               figure : Amounts \cup {None}, job : Nat]
         \cup [on : {"trigger"}, trigger : {"rain", "workComplete"}]

\* What a mower says that does not mow.
Standing == States \ {"CLEANING"}

OfJob(t) == t.on # "trigger"
HasFigure(t) == t.on \in {"stats", "edge"} /\ t.figure # None
IsState(t) == t.on = "state"
IsCutting(t) == t.on = "state" /\ t.state = "CLEANING"
IsRain(t) == t.on = "trigger" /\ t.trigger = "rain"
IsStop(t) == t.on = "edge" /\ t.phase = "stop"

\* What resets the figure behind a latch.
MayReset(t) ==
    \/ IsCutting(t)
    \/ t.on = "edge" /\ t.phase = "start" /\ t.trigger \in NewTriggers

\* The events of q are of the first j jobs.
UpTo(q, j) == \A i \in DOMAIN q : OfJob(q[i]) => q[i].job <= j

Typed ==
    /\ TypeOK
    /\ tasks \in Seq(Tasks)
    /\ UpTo(tasks, job)
    /\ shownJob <= job
    /\ late # NoAnswer => late.job <= job /\ kind.late = TRUE

\* What is due to be announced fits the phase, and a wet mower is not mowing.
Phases ==
    /\ due.phase = "stop" => phase = "idle"
    /\ due.phase \in {"start", "resume"} => phase # "idle"
    /\ wet => phase # "mowing"

-------------------------------------------------------------------------------
(* The rain.                                                                *)

\* After the events of q the sensor, which knows s, has heard what the bus said last.
Hears(q, s, said) ==
    /\ (\A i \in DOMAIN q : ~IsState(q[i])) => s = said
    /\ \A i \in DOMAIN q :
           IsState(q[i]) /\ (\A k \in DOMAIN q : k > i => ~IsState(q[k])) => q[i].state = said

\* In q every rain is followed by a CLEANING, also one known already.
RainEnds(q, known) ==
    /\ known => \E i \in DOMAIN q : IsCutting(q[i])
    /\ \A i \in DOMAIN q : IsRain(q[i]) => \E k \in DOMAIN q : k > i /\ IsCutting(q[k])

\* In q no CLEANING follows the last rain.
RainStays(q, known) ==
    \/ known /\ \A i \in DOMAIN q : ~IsCutting(q[i])
    \/ \E i \in DOMAIN q :
           IsRain(q[i]) /\ \A k \in DOMAIN q : k > i => ~IsCutting(q[k])

\* A bus that says CLEANING says no more of rain, and a mower that told of rain
\* has not said CLEANING since.
Weather ==
    /\ Hears(tasks, lastState, busState)
    /\ busState = "CLEANING" => RainEnds(tasks, rain)
    /\ wet /\ kind.late = FALSE => busState \in Standing /\ RainStays(tasks, rain)

-------------------------------------------------------------------------------
(* The figure, where nothing overtakes: of the job j in phase p, grown to m, *)
(* with the events of q to come.                                            *)

\* The jobs come one after another.
Ordered(q) ==
    /\ \A i \in DOMAIN q : OfJob(q[i]) => shownJob <= q[i].job
    /\ \A i, k \in DOMAIN q :
           i < k /\ OfJob(q[i]) /\ OfJob(q[k]) => q[i].job <= q[k].job

\* Within a job the figures grow.
Growing(q, j, m) ==
    /\ shownJob = j => Rank(shown) <= m
    /\ \A i \in DOMAIN q : HasFigure(q[i]) =>
           /\ q[i].job = j => q[i].figure <= m
           /\ q[i].job = shownJob => Rank(shown) <= q[i].figure
    /\ \A i, k \in DOMAIN q :
           i < k /\ HasFigure(q[i]) /\ HasFigure(q[k]) /\ q[i].job = q[k].job
               => q[i].figure <= q[k].figure

\* The stop of a job is behind all that may reset its figure.
StopIsLast(q, j, p) ==
    /\ p # "idle" => \A i \in DOMAIN q : IsStop(q[i]) => q[i].job # j
    /\ \A i, k \in DOMAIN q :
           i < k /\ IsStop(q[i]) /\ MayReset(q[k]) => q[i].job # q[k].job

\* So what is shown of a job no latch lets its own events reset.
Showing == Rank(shown) > 0
NothingResets(q, j, p) ==
    Showing =>
        /\ shownJob = j /\ p # "idle" => jobOver = FALSE
        /\ \A i \in DOMAIN q : MayReset(q[i]) /\ q[i].job = shownJob =>
               jobOver = FALSE /\ \A k \in DOMAIN q : k < i => ~IsStop(q[k])

InTurn(q, j, p, m) ==
    /\ Ordered(q)
    /\ Growing(q, j, m)
    /\ StopIsLast(q, j, p)
    /\ NothingResets(q, j, p)

InTime == kind.late = FALSE => InTurn(tasks, job, phase, mowed)

IInv == Typed /\ Phases /\ Weather /\ InTime

-------------------------------------------------------------------------------
(* Sequences and figures.                                                   *)

\* An event put behind those that wait.
LEMMA Behind ==
    ASSUME NEW q \in Seq(Tasks), NEW e \in Tasks
    PROVE  /\ Append(q, e) \in Seq(Tasks)
           /\ Len(Append(q, e)) = Len(q) + 1 /\ Len(q) \in Nat
           /\ DOMAIN q = 1..Len(q) /\ DOMAIN Append(q, e) = 1..(Len(q) + 1)
           /\ \A i \in DOMAIN q : Append(q, e)[i] = q[i]
           /\ Append(q, e)[Len(q) + 1] = e
BY AppendProperties, LenProperties

\* The same in terms of order alone.
LEMMA Added ==
    ASSUME NEW q \in Seq(Tasks), NEW e \in Tasks, NEW r, r = Append(q, e)
    PROVE  \E n \in DOMAIN r :
               /\ n \in Nat /\ r[n] = e /\ n \notin DOMAIN q
               /\ DOMAIN r = DOMAIN q \cup {n} /\ DOMAIN q \subseteq Nat
               /\ \A i \in DOMAIN q : i < n /\ r[i] = q[i]
<1>1. /\ Len(q) \in Nat /\ DOMAIN q = 1..Len(q) /\ DOMAIN r = 1..(Len(q) + 1)
      /\ \A i \in DOMAIN q : r[i] = q[i]
      /\ r[Len(q) + 1] = e
  BY Behind
<1> QED BY <1>1

\* The first event taken from those that wait.
LEMMA Taken ==
    ASSUME NEW q \in Seq(Tasks), q # <<>>, NEW r, r = Tail(q)
    PROVE  /\ r \in Seq(Tasks) /\ Len(r) = Len(q) - 1 /\ Len(q) \in Nat
           /\ 1 \in DOMAIN q /\ Head(q) = q[1] /\ Head(q) \in Tasks
           /\ DOMAIN q \subseteq Nat /\ DOMAIN r \subseteq Nat
           /\ \A i \in DOMAIN r : i + 1 \in DOMAIN q /\ r[i] = q[i + 1] /\ i + 1 > 1
           /\ \A i \in DOMAIN q : i = 1 \/ (i - 1 \in DOMAIN r /\ r[i - 1] = q[i])
BY HeadTailProperties, LenProperties, ElementOfSeq

LEMMA Elements ==
    ASSUME NEW q \in Seq(Tasks)
    PROVE  \A i \in DOMAIN q : q[i] \in Tasks
BY ElementOfSeq, LenProperties

LEMMA NoneApart == None \notin Int /\ None \notin States /\ None \notin {"start", "resume", "stop"}
BY NoneAssumption DEF States

LEMMA Ranks ==
    ASSUME NEW v \in Figures \cup {None}
    PROVE  /\ Rank(v) \in Int /\ Rank(v) <= Full
           /\ v = None => Rank(v) = -1
           /\ v # None => Rank(v) = v /\ v \in 0..Full
BY NoneApart, BoundsAssumption DEF Rank, Figures

\* A figure that is shown is as far as the job got, up to Full.
LEMMA Capped ==
    ASSUME NEW v \in Amounts
    PROVE  /\ Progress(v) \in Figures /\ Progress(v) # None
           /\ Rank(Progress(v)) = Progress(v) /\ Progress(v) <= v
           /\ \A f \in Figures \cup {None} : Rank(f) <= v => Rank(f) <= Progress(v)
<1>1. v \in Int /\ Progress(v) = IF v > Full THEN Full ELSE v
  BY BoundsAssumption DEF Amounts, Progress
<1>2. Progress(v) \in 0..Full /\ Progress(v) <= v /\ (Progress(v) = Full \/ Progress(v) = v)
  BY <1>1, BoundsAssumption DEF Amounts
<1>3. Progress(v) \in Figures /\ Progress(v) # None /\ Rank(Progress(v)) = Progress(v)
  BY <1>2, NoneApart, BoundsAssumption DEF Figures, Rank
<1> QED BY <1>2, <1>3, Ranks

\* The numbers of jobs.
LEMMA Numbers ==
    ASSUME Typed
    PROVE  /\ job \in Nat /\ shownJob \in Nat /\ mowed \in Amounts /\ mowed \in Nat
           /\ kind.late \in BOOLEAN /\ kind.jobs \in Nat /\ job <= kind.jobs
           /\ shown \in Figures \cup {None}
<1>1. kind \in Mower
  BY MowersAssumption DEF Typed, TypeOK
<1>2. kind.late \in BOOLEAN /\ kind.jobs \in Nat
  BY <1>1 DEF Mower
<1> QED BY <1>2, BoundsAssumption DEF Typed, TypeOK, Amounts

\* The kinds of events, each with its fields.
LEMMA TasksAre ==
    ASSUME NEW t \in Tasks
    PROVE  /\ OfJob(t) => t.job \in Nat
           /\ HasFigure(t) => OfJob(t) /\ t.figure \in Amounts
           /\ IsStop(t) => OfJob(t) /\ ~MayReset(t)
           /\ MayReset(t) => OfJob(t) /\ ~HasFigure(t)
           /\ t.on = "state" => OfJob(t) /\ t.state \in States
           /\ IsCutting(t) => IsState(t) /\ MayReset(t)
           /\ IsRain(t) => ~IsState(t) /\ ~IsCutting(t)
<1>1. None \notin Amounts
  BY NoneApart, BoundsAssumption DEF Amounts
<1> QED BY <1>1 DEF Tasks, OfJob, HasFigure, IsStop, MayReset, IsCutting, IsRain, IsState

-------------------------------------------------------------------------------
(* An event put behind those that wait: what it must be to keep each part.  *)

LEMMA PutUpTo ==
    ASSUME NEW q \in Seq(Tasks), NEW e \in Tasks, NEW j \in Nat,
           UpTo(q, j), OfJob(e) => e.job <= j
    PROVE  UpTo(Append(q, e), j)
<1>1. PICK r : r = Append(q, e)
  OBVIOUS
<1> QED BY <1>1, Added DEF UpTo

LEMMA PutHears ==
    ASSUME NEW q \in Seq(Tasks), NEW e \in Tasks, NEW s, NEW said, Hears(q, s, said)
    PROVE  /\ ~IsState(e) => Hears(Append(q, e), s, said)
           /\ IsState(e) => Hears(Append(q, e), s, e.state)
<1>1. PICK r : r = Append(q, e)
  OBVIOUS
<1>2. PICK n \in DOMAIN r :
          /\ n \in Nat /\ r[n] = e /\ n \notin DOMAIN q
          /\ DOMAIN r = DOMAIN q \cup {n} /\ DOMAIN q \subseteq Nat
          /\ \A i \in DOMAIN q : i < n /\ r[i] = q[i]
  BY <1>1, Added
<1>3. CASE ~IsState(e)
  <2>1. \A i \in DOMAIN q : (\A k \in DOMAIN r : k > i => ~IsState(r[k]))
                                => \A k \in DOMAIN q : k > i => ~IsState(q[k])
    BY <1>2
  <2>2. (\A i \in DOMAIN r : ~IsState(r[i])) => \A i \in DOMAIN q : ~IsState(q[i])
    BY <1>2
  <2> QED BY <1>1, <1>2, <1>3, <2>1, <2>2 DEF Hears
<1>4. CASE IsState(e)
  <2>1. \A i \in DOMAIN q : n > i
    BY <1>2
  <2> QED BY <1>1, <1>2, <1>4, <2>1 DEF Hears
<1> QED BY <1>3, <1>4

LEMMA PutRainEnds ==
    ASSUME NEW q \in Seq(Tasks), NEW e \in Tasks, NEW known
    PROVE  /\ RainEnds(q, known) /\ ~IsRain(e) => RainEnds(Append(q, e), known)
           /\ IsCutting(e) => RainEnds(Append(q, e), known)
<1>1. PICK r : r = Append(q, e)
  OBVIOUS
<1>2. PICK n \in DOMAIN r :
          /\ n \in Nat /\ r[n] = e /\ n \notin DOMAIN q
          /\ DOMAIN r = DOMAIN q \cup {n} /\ DOMAIN q \subseteq Nat
          /\ \A i \in DOMAIN q : i < n /\ r[i] = q[i]
  BY <1>1, Added
<1>3. ASSUME RainEnds(q, known), ~IsRain(e)
      PROVE  RainEnds(r, known)
  BY <1>2, <1>3 DEF RainEnds
<1>4. ASSUME IsCutting(e)
      PROVE  RainEnds(r, known)
  <2>1. ~IsRain(e)
    BY <1>4, TasksAre
  <2>2. \A i \in DOMAIN q : n > i
    BY <1>2
  <2> QED BY <1>2, <1>4, <2>1, <2>2 DEF RainEnds
<1> QED BY <1>1, <1>3, <1>4

LEMMA PutRainStays ==
    ASSUME NEW q \in Seq(Tasks), NEW e \in Tasks, NEW known
    PROVE  /\ RainStays(q, known) /\ ~IsCutting(e) => RainStays(Append(q, e), known)
           /\ IsRain(e) => RainStays(Append(q, e), known)
<1>1. PICK r : r = Append(q, e)
  OBVIOUS
<1>2. PICK n \in DOMAIN r :
          /\ n \in Nat /\ r[n] = e /\ n \notin DOMAIN q
          /\ DOMAIN r = DOMAIN q \cup {n} /\ DOMAIN q \subseteq Nat
          /\ \A i \in DOMAIN q : i < n /\ r[i] = q[i]
  BY <1>1, Added
<1>3. ASSUME RainStays(q, known), ~IsCutting(e)
      PROVE  RainStays(r, known)
  BY <1>2, <1>3 DEF RainStays
<1>4. ASSUME IsRain(e)
      PROVE  RainStays(r, known)
  <2>1. \A i \in DOMAIN q : ~(i > n)
    BY <1>2
  <2>2. \A k \in DOMAIN r : k > n => ~IsCutting(r[k])
    BY <1>2, <2>1
  <2> QED BY <1>2, <1>4, <2>2 DEF RainStays
<1> QED BY <1>1, <1>3, <1>4

\* A job's event, sent while the job is in phase p and grown to m.
Fits(e, j, p, m) ==
    /\ OfJob(e) => e.job = j
    /\ HasFigure(e) => e.figure = m
    /\ MayReset(e) => p # "idle"
    /\ IsStop(e) => p = "idle"

LEMMA PutInTurn ==
    ASSUME NEW q \in Seq(Tasks), NEW e \in Tasks, NEW j \in Nat, NEW p, NEW m \in Nat,
           Typed, shownJob <= j, UpTo(q, j), Fits(e, j, p, m), InTurn(q, j, p, m)
    PROVE  InTurn(Append(q, e), j, p, m)
<1>1. PICK r : r = Append(q, e)
  OBVIOUS
<1>2. PICK n \in DOMAIN r :
          /\ n \in Nat /\ r[n] = e /\ n \notin DOMAIN q
          /\ DOMAIN r = DOMAIN q \cup {n} /\ DOMAIN q \subseteq Nat
          /\ \A i \in DOMAIN q : i < n /\ r[i] = q[i]
  BY <1>1, Added
<1>3. \A i \in DOMAIN q : ~(n < i)
  BY <1>2
<1>4. ~(n < n)
  BY <1>2
<1>5. \A i \in DOMAIN q : q[i] \in Tasks /\ (OfJob(q[i]) => q[i].job \in Nat /\ q[i].job <= j)
  BY Elements, TasksAre DEF UpTo
<1>6. shownJob \in Nat /\ Rank(shown) \in Int
  BY Numbers, Ranks
<1>7. Ordered(r)
  BY <1>2, <1>3, <1>4, <1>5, <1>6 DEF Fits, InTurn, Ordered
<1>8. Growing(r, j, m)
  <2>1. Growing(q, j, m)
    BY DEF InTurn
  <2>2. \A i \in DOMAIN r : HasFigure(r[i]) =>
           /\ r[i].job = j => r[i].figure <= m
           /\ r[i].job = shownJob => Rank(shown) <= r[i].figure
    BY <1>2, <1>6, <2>1, TasksAre DEF Fits, Growing
  <2>3. ASSUME NEW i \in DOMAIN r, NEW k \in DOMAIN r,
               i < k, HasFigure(r[i]), HasFigure(r[k]), r[i].job = r[k].job
        PROVE  r[i].figure <= r[k].figure
    <3>1. i \in DOMAIN q
      BY <1>2, <1>3, <1>4, <2>3
    <3>2. CASE k \in DOMAIN q
      BY <1>2, <2>1, <2>3, <3>1, <3>2 DEF Growing
    <3>3. CASE k = n
      BY <1>2, <2>1, <2>3, <3>1, <3>3, TasksAre DEF Fits, Growing
    <3> QED BY <1>2, <3>2, <3>3
  <2> QED BY <2>1, <2>2, <2>3 DEF Growing
<1>9. StopIsLast(r, j, p)
  <2>1. StopIsLast(q, j, p)
    BY DEF InTurn
  <2>2. p # "idle" => \A i \in DOMAIN r : IsStop(r[i]) => r[i].job # j
    BY <1>2, <2>1 DEF Fits, StopIsLast
  <2>3. ASSUME NEW i \in DOMAIN r, NEW k \in DOMAIN r, i < k, IsStop(r[i]), MayReset(r[k])
        PROVE  r[i].job # r[k].job
    <3>1. i \in DOMAIN q
      BY <1>2, <1>3, <1>4, <2>3
    <3>2. CASE k \in DOMAIN q
      BY <1>2, <2>1, <2>3, <3>1, <3>2 DEF StopIsLast
    <3>3. CASE k = n
      BY <1>2, <2>1, <2>3, <3>1, <3>3, TasksAre DEF Fits, StopIsLast
    <3> QED BY <1>2, <3>2, <3>3
  <2> QED BY <2>2, <2>3 DEF StopIsLast
<1>10. NothingResets(r, j, p)
  <2> SUFFICES ASSUME Showing PROVE NothingResets(r, j, p)
    BY DEF NothingResets
  <2>1. shownJob = j /\ p # "idle" => jobOver = FALSE
    BY DEF InTurn, NothingResets
  <2>2. ASSUME NEW i \in DOMAIN r, MayReset(r[i]), r[i].job = shownJob
        PROVE  jobOver = FALSE /\ \A k \in DOMAIN r : k < i => ~IsStop(r[k])
    <3>1. CASE i \in DOMAIN q
      <4>1. jobOver = FALSE /\ \A k \in DOMAIN q : k < i => ~IsStop(q[k])
        BY <1>2, <2>2, <3>1 DEF InTurn, NothingResets
      <4> QED BY <1>2, <1>3, <3>1, <4>1
    <3>2. CASE i = n
      <4>1. shownJob = j /\ p # "idle"
        BY <1>2, <2>2, <3>2, TasksAre DEF Fits
      <4>2. ASSUME NEW k \in DOMAIN q
            PROVE  ~IsStop(q[k])
        <5>1. IsStop(q[k]) => OfJob(q[k]) /\ q[k].job # j
          BY <1>5, <4>1, <4>2, TasksAre DEF InTurn, StopIsLast
        <5>2. OfJob(q[k]) => shownJob <= q[k].job
          BY <4>2 DEF InTurn, Ordered
        <5> QED BY <1>5, <1>6, <4>1, <5>1, <5>2
      <4> QED BY <1>2, <1>4, <2>1, <3>2, <4>1, <4>2
    <3> QED BY <1>2, <3>1, <3>2
  <2> QED BY <2>1, <2>2 DEF NothingResets
<1> QED BY <1>1, <1>7, <1>8, <1>9, <1>10 DEF InTurn

\* The world goes on with no event: the job grows or ends, or another begins.
LEMMA WorldInTurn ==
    ASSUME Typed, NEW j \in Nat, NEW p, NEW m \in Nat, InTurn(tasks, job, phase, mowed),
           \/ j = job /\ m >= mowed /\ (p # "idle" => phase # "idle")
           \/ j > job
    PROVE  InTurn(tasks, j, p, m)
<1>1. /\ job \in Nat /\ shownJob \in Nat /\ mowed \in Nat /\ shownJob <= job
      /\ Rank(shown) \in Int
  BY Numbers, Ranks DEF Typed
<1>2. \A i \in DOMAIN tasks :
          /\ OfJob(tasks[i]) => tasks[i].job \in Nat /\ tasks[i].job <= job
          /\ HasFigure(tasks[i]) => OfJob(tasks[i]) /\ tasks[i].figure \in Nat
          /\ IsStop(tasks[i]) => OfJob(tasks[i])
  <2>1. Amounts \subseteq Nat
    BY BoundsAssumption DEF Amounts
  <2> QED BY <2>1, Elements, TasksAre DEF Typed, UpTo
<1>3. Ordered(tasks) /\ Growing(tasks, job, mowed) /\ StopIsLast(tasks, job, phase)
  BY DEF InTurn
<1>4. Growing(tasks, j, m)
  BY <1>1, <1>2, <1>3 DEF Growing
<1>5. StopIsLast(tasks, j, p)
  BY <1>1, <1>2, <1>3 DEF StopIsLast
<1>6. NothingResets(tasks, j, p)
  BY <1>1 DEF InTurn, NothingResets
<1> QED BY <1>3, <1>4, <1>5, <1>6 DEF InTurn

-------------------------------------------------------------------------------
(* The mower's steps and the answers: the sensor is left alone.             *)

\* The last job only grows, and once it is over only another begins.
Grows ==
    \/ job' = job /\ mowed' >= mowed /\ (phase' # "idle" => phase # "idle")
    \/ job' > job

Outside == IInv /\ UNCHANGED <<kind, sensor>> /\ Grows /\ job' \in Nat /\ mowed' \in Nat

\* An event put behind the others keeps them typed.
LEMMA QueueTyped ==
    ASSUME Outside, NEW q \in Seq(Tasks), UpTo(q, job), NEW e \in Tasks,
           OfJob(e) => e.job <= job'
    PROVE  /\ Append(q, e) \in Seq(Tasks)
           /\ UpTo(Append(q, e), job')
           /\ Len(Append(q, e)) = Len(q) + 1 /\ Len(q) \in Nat
<1>1. job \in Nat /\ job' \in Nat /\ job <= job'
  BY Numbers DEF Outside, IInv, Grows
<1>2. \A i \in DOMAIN q : OfJob(q[i]) => q[i].job \in Nat
  BY Elements, TasksAre
<1>3. UpTo(q, job')
  BY <1>1, <1>2 DEF UpTo
<1> QED BY <1>1, <1>3, Behind, PutUpTo

\* The figure's order survives what the world does.
LEMMA OutsideInTurn ==
    ASSUME Outside, kind.late = FALSE
    PROVE  InTurn(tasks, job', phase', mowed') /\ shownJob <= job' /\ UpTo(tasks, job')
<1>1. Typed /\ InTurn(tasks, job, phase, mowed) /\ job \in Nat /\ job' \in Nat /\ mowed' \in Nat
  BY Numbers DEF Outside, IInv, InTime
<1>2. InTurn(tasks, job', phase', mowed')
  BY <1>1, WorldInTurn DEF Outside, Grows
<1>3. job <= job' /\ shownJob \in Nat /\ shownJob <= job
  <2>1. job' = job \/ job' > job
    BY DEF Outside, Grows
  <2>2. shownJob \in Nat /\ shownJob <= job
    BY <1>1, Numbers DEF Typed
  <2> QED BY <1>1, <2>1, <2>2
<1>4. \A i \in DOMAIN tasks : OfJob(tasks[i]) => tasks[i].job \in Nat /\ tasks[i].job <= job
  BY <1>1, Elements, TasksAre DEF Typed, UpTo
<1> QED BY <1>1, <1>2, <1>3, <1>4 DEF UpTo

\* What holds of the new queue holds in the new state.
LEMMA Arrived ==
    ASSUME Outside,
           Hears(tasks', lastState, busState'),
           busState' = "CLEANING" => RainEnds(tasks', rain),
           wet' /\ kind.late = FALSE => busState' \in Standing /\ RainStays(tasks', rain),
           kind.late = FALSE => InTurn(tasks', job', phase', mowed')
    PROVE  Weather' /\ InTime'
<1>1. UNCHANGED <<kind, lastState, jobOver, shown, shownJob, rain>>
  BY DEF Outside, sensor, progress
<1>2. Weather'
  BY <1>1 DEF Weather, Hears, RainEnds, RainStays
<1>3. InTime'
  BY <1>1 DEF InTime, InTurn, Ordered, Growing, StopIsLast, NothingResets, Showing
<1> QED BY <1>2, <1>3

LEMMA QuietStep ==
    ASSUME Outside, tasks' = tasks, busState' = busState, wet' => wet
    PROVE  Weather' /\ InTime'
<1>1. /\ Hears(tasks, lastState, busState)
      /\ busState = "CLEANING" => RainEnds(tasks, rain)
      /\ wet /\ kind.late = FALSE => busState \in Standing /\ RainStays(tasks, rain)
  BY DEF Outside, IInv, Weather
<1> QED BY <1>1, OutsideInTurn, Arrived

LEMMA PutStep ==
    ASSUME Outside, wet' => wet, NEW e \in Tasks, tasks' = Append(tasks, e),
           busState' = IF IsState(e) THEN e.state ELSE busState,
           ~IsRain(e), IsCutting(e) /\ kind.late = FALSE => ~wet',
           kind.late = FALSE => Fits(e, job', phase', mowed')
    PROVE  Weather' /\ InTime'
<1>1. /\ Hears(tasks, lastState, busState)
      /\ busState = "CLEANING" => RainEnds(tasks, rain)
      /\ wet /\ kind.late = FALSE => busState \in Standing /\ RainStays(tasks, rain)
      /\ Typed /\ tasks \in Seq(Tasks)
  BY DEF Outside, IInv, Weather, Typed
<1>2. Hears(tasks', lastState, busState')
  BY <1>1, PutHears
<1>3. busState' = "CLEANING" => RainEnds(tasks', rain)
  BY <1>1, PutRainEnds DEF IsCutting, IsState
<1>4. wet' /\ kind.late = FALSE => busState' \in Standing /\ RainStays(tasks', rain)
  BY <1>1, PutRainStays, TasksAre DEF IsCutting, IsState, Standing
<1>5. kind.late = FALSE => InTurn(tasks', job', phase', mowed')
  BY <1>1, OutsideInTurn, PutInTurn DEF Outside
<1> QED BY <1>2, <1>3, <1>4, <1>5, Arrived

\* A state, pushed or answered; of the last job, and not CLEANING of a job that is
\* over, unless it was overtaken.
LEMMA StateStep ==
    ASSUME Outside, wet' => wet, NEW s \in States, NEW j \in Nat, PushState(s, j), j <= job',
           kind.late = FALSE => j = job',
           s = "CLEANING" /\ kind.late = FALSE => phase' # "idle" /\ ~wet'
    PROVE  /\ tasks' \in Seq(Tasks) /\ UpTo(tasks', job') /\ Len(tasks') <= MaxTasks + 1
           /\ busState' \in States \cup {None}
           /\ Weather' /\ InTime'
<1>1. PICK e \in Tasks : e = StateTask(s, j)
  BY DEF Tasks, StateTask
<1>2. e.on = "state" /\ e.state = s /\ e.job = j
  BY <1>1 DEF StateTask
<1>3. /\ tasks \in Seq(Tasks) /\ UpTo(tasks, job) /\ Len(tasks) <= MaxTasks + 1
      /\ busState \in States \cup {None} /\ Len(tasks) \in Nat
  BY LenProperties DEF Outside, IInv, Typed, TypeOK
<1>4. CASE tasks' = tasks /\ busState' = busState
  <2>1. UpTo(tasks, job')
    <3>1. job \in Nat /\ job' \in Nat /\ job <= job'
      BY Numbers DEF Outside, IInv, Grows
    <3>2. \A i \in DOMAIN tasks : OfJob(tasks[i]) => tasks[i].job \in Nat
      BY <1>3, Elements, TasksAre
    <3> QED BY <1>3, <3>1, <3>2 DEF UpTo
  <2> QED BY <1>3, <1>4, <2>1, QuietStep
<1>5. CASE tasks' = Append(tasks, e) /\ busState' = s /\ Len(tasks) < MaxTasks
  <2>1. tasks' \in Seq(Tasks) /\ UpTo(tasks', job') /\ Len(tasks') = Len(tasks) + 1
    BY <1>2, <1>3, <1>5, QueueTyped
  <2>2. Len(tasks') <= MaxTasks + 1
    BY <1>3, <1>5, <2>1, BoundsAssumption
  <2>3. IsState(e) /\ ~IsRain(e) /\ (IsCutting(e) <=> s = "CLEANING")
    BY <1>2 DEF IsState, IsRain, IsCutting
  <2>4. kind.late = FALSE => Fits(e, job', phase', mowed')
    BY <1>2 DEF Fits, OfJob, HasFigure, MayReset, IsStop, IsCutting
  <2>5. Weather' /\ InTime'
    BY <1>2, <1>5, <2>3, <2>4, PutStep
  <2> QED BY <1>5, <2>1, <2>2, <2>5
<1> QED BY <1>1, <1>4, <1>5 DEF PushState, NotifyState

\* A message with a trigger and perhaps a state that is not CLEANING.
LEMMA MessageStep ==
    ASSUME Outside, job' = job, NEW trigger \in {"rain", "workComplete"},
           wet' => wet \/ trigger = "rain",
           NEW s \in {"PAUSED", "DOCKED"}, NotifyMessage(trigger, s, job)
    PROVE  /\ tasks' \in Seq(Tasks) /\ UpTo(tasks', job') /\ Len(tasks') <= MaxTasks + 1
           /\ busState' \in States \cup {None}
           /\ Weather' /\ InTime'
<1>1. PICK t \in Tasks : t = TriggerTask(trigger)
  BY DEF Tasks, TriggerTask
<1>2. PICK e \in Tasks : e = StateTask(s, job)
  BY Numbers DEF Tasks, StateTask, States, Outside, IInv
<1>3. /\ ~OfJob(t) /\ ~IsState(t) /\ ~IsCutting(t) /\ ~HasFigure(t) /\ ~MayReset(t) /\ ~IsStop(t)
      /\ IsRain(t) <=> trigger = "rain"
  BY <1>1 DEF TriggerTask, OfJob, IsState, IsCutting, HasFigure, MayReset, IsStop, IsRain
<1>4. /\ OfJob(e) /\ IsState(e) /\ ~IsCutting(e) /\ ~HasFigure(e) /\ ~MayReset(e) /\ ~IsStop(e)
      /\ ~IsRain(e) /\ e.state = s /\ e.job = job
  BY <1>2 DEF StateTask, OfJob, IsState, IsCutting, HasFigure, MayReset, IsStop, IsRain
<1>5. PICK q \in Seq(Tasks) : q = Append(tasks, t)
  BY Behind DEF Outside, IInv, Typed
<1>6. /\ Len(tasks) < MaxTasks /\ busState' = s
      /\ tasks' = q \o IF s = busState THEN <<>> ELSE <<e>>
  BY <1>1, <1>2, <1>5 DEF NotifyMessage
<1>7. (s = busState /\ tasks' = q) \/ (s # busState /\ tasks' = Append(q, e))
  <2>1. q \o <<>> = q
    BY ConcatEmptySeq
  <2>2. q \o <<e>> = Append(q, e)
    BY AppendIsConcat
  <2> QED BY <1>6, <2>1, <2>2
<1>8. /\ tasks \in Seq(Tasks) /\ UpTo(tasks, job) /\ Len(tasks) \in Nat
      /\ Typed /\ Weather /\ job \in Nat
  BY LenProperties, Numbers DEF Outside, IInv, Typed
<1>9. UpTo(q, job) /\ Len(q) = Len(tasks) + 1
  BY <1>3, <1>5, <1>8, QueueTyped
<1>10. tasks' \in Seq(Tasks) /\ UpTo(tasks', job') /\ Len(tasks') <= MaxTasks + 1
  <2>1. CASE tasks' = q
    <3>1. UpTo(tasks', job') /\ tasks' \in Seq(Tasks)
      BY <1>9, <2>1
    <3>2. Len(tasks') = Len(tasks) + 1
      BY <1>9, <2>1
    <3> QED BY <1>6, <1>8, <3>1, <3>2, BoundsAssumption
  <2>2. CASE tasks' = Append(q, e)
    <3>1. tasks' \in Seq(Tasks) /\ UpTo(tasks', job') /\ Len(tasks') = Len(q) + 1
      BY <1>4, <1>8, <1>9, <2>2, QueueTyped
    <3> QED BY <1>6, <1>8, <1>9, <3>1, BoundsAssumption
  <2> QED BY <1>7, <2>1, <2>2
<1>11. Hears(tasks', lastState, busState')
  <2>1. Hears(q, lastState, busState)
    BY <1>3, <1>5, <1>8, PutHears DEF Weather
  <2> QED BY <1>4, <1>6, <1>7, <2>1, PutHears
<1>12. busState' \in Standing
  BY <1>6 DEF Standing, States
<1>13. wet' /\ kind.late = FALSE => busState' \in Standing /\ RainStays(tasks', rain)
  <2> SUFFICES ASSUME wet', kind.late = FALSE PROVE busState' \in Standing /\ RainStays(tasks', rain)
    OBVIOUS
  <2>1. RainStays(q, rain)
    <3>1. CASE trigger = "rain"
      BY <1>3, <1>5, <1>8, <3>1, PutRainStays
    <3>2. CASE trigger # "rain"
      BY <1>3, <1>5, <1>8, <3>2, PutRainStays DEF Weather
    <3> QED BY <3>1, <3>2
  <2> QED BY <1>4, <1>7, <1>12, <2>1, PutRainStays
<1>14. kind.late = FALSE => InTurn(tasks', job', phase', mowed')
  <2> SUFFICES ASSUME kind.late = FALSE PROVE InTurn(tasks', job', phase', mowed')
    OBVIOUS
  <2>1. Fits(t, job', phase', mowed') /\ Fits(e, job', phase', mowed')
    BY <1>3, <1>4 DEF Fits
  <2>2. InTurn(tasks, job', phase', mowed') /\ shownJob <= job' /\ UpTo(tasks, job')
    BY OutsideInTurn
  <2>3. InTurn(q, job', phase', mowed')
    BY <1>5, <1>8, <2>1, <2>2, PutInTurn DEF Outside
  <2> QED BY <1>7, <1>8, <1>9, <2>1, <2>2, <2>3, PutInTurn DEF Outside
<1>15. busState' # "CLEANING"
  BY <1>12 DEF Standing
<1>16. Weather' /\ InTime'
  BY <1>11, <1>13, <1>14, <1>15, Arrived
<1> QED BY <1>6, <1>10, <1>16 DEF States

\* What a step of the mower must show besides.
LEMMA Outcome ==
    ASSUME Outside, Weather', InTime', Phases',
           tasks' \in Seq(Tasks), UpTo(tasks', job'), Len(tasks') <= MaxTasks + 1,
           job' <= kind.jobs, phase' \in {"idle", "mowing", "paused"}, mowed' \in Amounts,
           truth' \in States, truth' = "CLEANING" <=> phase' = "mowing",
           wet' \in BOOLEAN, due' \in Edges \cup {NoEdge},
           busState' \in States \cup {None}, busStats' \in Amounts \cup {None},
           \/ late' \in {late, NoAnswer}
           \/ late' = [state |-> truth, job |-> job] /\ kind.late = TRUE
    PROVE  IInv'
<1>1. /\ Typed /\ job \in Nat /\ job' \in Nat /\ kind.jobs \in Nat /\ job <= kind.jobs
      /\ shownJob \in Nat /\ shownJob <= job
  BY Numbers DEF Outside, IInv, Typed
<1>2. UNCHANGED <<kind, lastState, jobOver, shown, shownJob, rain>>
  BY DEF Outside, sensor, progress
<1>3. job <= job'
  <2>1. job' = job \/ job' > job
    BY DEF Outside, Grows
  <2> QED BY <1>1, <2>1
<1>4. job' \in 0..kind.jobs /\ shownJob <= job' /\ shownJob \in 0..kind.jobs
  BY <1>1, <1>3
<1>5. /\ late' \in [state : States, job : 0..kind.jobs] \cup {NoAnswer}
      /\ late' # NoAnswer => late'.job <= job' /\ kind.late = TRUE
  <2>1. late' # NoAnswer => late'.job <= job /\ late'.job \in 0..kind.jobs /\ kind.late = TRUE
    BY <1>1 DEF Typed, TypeOK
  <2> QED BY <1>1, <1>3, <2>1 DEF Typed, TypeOK
<1>6. TypeOK'
  BY <1>1, <1>2, <1>4, <1>5 DEF Typed, TypeOK, Amounts
<1>7. Typed'
  BY <1>2, <1>4, <1>5, <1>6 DEF Typed, UpTo
<1> QED BY <1>7 DEF IInv

\* The facts that the steps of the mower start from.
LEMMA Before ==
    ASSUME IInv
    PROVE  /\ Typed /\ TypeOK /\ Phases
           /\ job \in Nat /\ mowed \in Amounts /\ mowed \in Nat
           /\ kind.jobs \in Nat /\ job <= kind.jobs /\ kind.late \in BOOLEAN
           /\ tasks \in Seq(Tasks) /\ UpTo(tasks, job) /\ Len(tasks) <= MaxTasks + 1
           /\ Len(tasks) \in Nat
           /\ truth \in States /\ (truth = "CLEANING" <=> phase = "mowing")
           /\ wet \in BOOLEAN /\ (wet => phase # "mowing")
           /\ due \in Edges \cup {NoEdge}
           /\ busState \in States \cup {None} /\ busStats \in Amounts \cup {None}
           /\ NoEdge.phase = None /\ (due \in Edges => due.phase \in {"start", "resume", "stop"})
BY Numbers, LenProperties DEF IInv, Typed, TypeOK, Phases, Amounts, NoEdge, Edges

\* Most steps leave the mower as it is.
LEMMA OutcomeSame ==
    ASSUME Outside, Weather', InTime', Phases',
           UNCHANGED <<job, phase, truth, wet>>, mowed' \in Amounts,
           tasks' \in Seq(Tasks), UpTo(tasks', job'), Len(tasks') <= MaxTasks + 1,
           due' \in {due, NoEdge},
           busState' \in States \cup {None}, busStats' \in Amounts \cup {None},
           \/ late' \in {late, NoAnswer}
           \/ late' = [state |-> truth, job |-> job] /\ kind.late = TRUE
    PROVE  IInv'
<1>1. IInv
  BY DEF Outside
<1>2. /\ job' <= kind.jobs /\ phase' \in {"idle", "mowing", "paused"}
      /\ truth' \in States /\ (truth' = "CLEANING" <=> phase' = "mowing")
      /\ wet' \in BOOLEAN /\ due' \in Edges \cup {NoEdge}
  BY <1>1, Before DEF TypeOK
<1> QED BY <1>2, Outcome

LEMMA BeginStep ==
    ASSUME IInv, BeginJob
    PROVE  IInv'
<1>1. /\ UNCHANGED <<kind, late, busStats, sensor>> /\ job < kind.jobs
      /\ job' = job + 1 /\ phase' = "mowing" /\ mowed' = 0 /\ truth' = "CLEANING"
      /\ wet' = FALSE /\ PushState("CLEANING", job')
  BY DEF BeginJob
<1>2. due' \in Edges /\ due'.phase = "start"
  BY DEF BeginJob, Edges, NewTriggers, OtherTriggers
<1>3. Outside /\ job' > job /\ job' <= kind.jobs
  BY <1>1, Before DEF Outside, Grows
<1>4. /\ tasks' \in Seq(Tasks) /\ UpTo(tasks', job') /\ Len(tasks') <= MaxTasks + 1
      /\ busState' \in States \cup {None} /\ Weather' /\ InTime'
  <2>1. "CLEANING" \in States /\ job' \in Nat /\ job' <= job' /\ phase' # "idle" /\ ~wet'
    BY <1>1, Before DEF States
  <2> QED BY <1>1, <1>3, <2>1, StateStep
<1>5. Phases'
  BY <1>1, <1>2 DEF Phases
<1>6. mowed' \in Amounts
  BY <1>1, BoundsAssumption DEF Amounts
<1>7. /\ truth' \in States /\ (truth' = "CLEANING" <=> phase' = "mowing") /\ wet' \in BOOLEAN
      /\ phase' \in {"idle", "mowing", "paused"} /\ busStats' \in Amounts \cup {None}
  BY <1>1, Before DEF States
<1> QED BY <1>1, <1>2, <1>3, <1>4, <1>5, <1>6, <1>7, Outcome

\* A stop of whatever kind, the end of a job, the way home, errors and their end:
\* the state is not CLEANING.
LEMMA StopStep ==
    ASSUME IInv,
           Interrupt \/ Settle \/ \E trigger \in {"workComplete", "app"} : EndJob(trigger)
    PROVE  IInv'
<1>1. /\ UNCHANGED <<kind, job, mowed, wet, late, busStats, sensor>>
      /\ truth' \in Standing /\ PushState(truth', job)
      /\ phase' # "idle" => phase # "idle"
      /\ phase' \in {"idle", "paused"}
  BY Before DEF Interrupt, Settle, EndJob, StandingStates, Standing, States, TypeOK
<1>2. /\ due' \in Edges \cup {NoEdge}
      /\ due'.phase = "stop" => phase' = "idle"
      /\ due'.phase \in {"start", "resume"} => phase' # "idle"
  <2>1. CASE Interrupt
    BY <2>1, Before, NoneApart DEF Interrupt
  <2>2. CASE Settle
    BY <2>2, Before DEF Settle, Phases
  <2>3. ASSUME NEW trigger \in {"workComplete", "app"}, EndJob(trigger)
        PROVE  /\ due' \in Edges \cup {NoEdge}
               /\ due'.phase = "stop" => phase' = "idle"
               /\ due'.phase \in {"start", "resume"} => phase' # "idle"
    BY <2>3 DEF EndJob, Edges, NewTriggers
  <2> QED BY <2>1, <2>2, <2>3
<1>3. Outside
  BY <1>1, Before DEF Outside, Grows
<1>4. /\ tasks' \in Seq(Tasks) /\ UpTo(tasks', job') /\ Len(tasks') <= MaxTasks + 1
      /\ busState' \in States \cup {None} /\ Weather' /\ InTime'
  <2>1. truth' \in States /\ truth' # "CLEANING" /\ job' = job /\ job <= job'
    BY <1>1, Before DEF Standing
  <2> QED BY <1>1, <1>3, <2>1, Before, StateStep
<1>5. Phases'
  BY <1>1, <1>2 DEF Phases
<1> QED BY <1>1, <1>2, <1>3, <1>4, <1>5, Before, Outcome DEF Standing

LEMMA ContinueStep ==
    ASSUME IInv, Continue
    PROVE  IInv'
<1>1. /\ UNCHANGED <<kind, job, mowed, late, busStats, sensor>>
      /\ phase = "paused" /\ phase' = "mowing" /\ truth' = "CLEANING"
      /\ wet' = FALSE /\ PushState("CLEANING", job)
  BY DEF Continue
<1>2. due' \in Edges /\ due'.phase \in {"start", "resume"}
  BY DEF Continue, Edges, NewTriggers, OtherTriggers
<1>3. Outside /\ job <= job'
  BY <1>1, Before DEF Outside, Grows
<1>4. /\ tasks' \in Seq(Tasks) /\ UpTo(tasks', job') /\ Len(tasks') <= MaxTasks + 1
      /\ busState' \in States \cup {None} /\ Weather' /\ InTime'
  BY <1>1, <1>3, Before, StateStep DEF States
<1>5. Phases'
  BY <1>1, <1>2 DEF Phases
<1> QED BY <1>1, <1>2, <1>3, <1>4, <1>5, Before, Outcome DEF States

LEMMA RainStep ==
    ASSUME IInv, StopForRain \/ DockInRain
    PROVE  IInv'
<1>1. /\ UNCHANGED <<kind, job, mowed, due, late, busStats, sensor>>
      /\ truth' \in {"PAUSED", "DOCKED"} /\ phase' \in {"idle", "paused"}
      /\ phase' = phase \/ (phase = "mowing" /\ phase' = "paused" /\ due = NoEdge)
      /\ \E trigger \in {"rain", "workComplete"} :
             /\ NotifyMessage(trigger, truth', job)
             /\ wet' = TRUE /\ (wet \/ trigger = "rain")
  BY Before DEF StopForRain, DockInRain, TypeOK
<1>2. Outside
  BY <1>1, Before DEF Outside, Grows
<1>3. /\ tasks' \in Seq(Tasks) /\ UpTo(tasks', job') /\ Len(tasks') <= MaxTasks + 1
      /\ busState' \in States \cup {None} /\ Weather' /\ InTime'
  BY <1>1, <1>2, MessageStep
<1>4. Phases'
  BY <1>1, Before, NoneApart DEF Phases
<1> QED BY <1>1, <1>2, <1>3, <1>4, Before, Outcome DEF States

\* Cutting on, an announcement lost, a late answer sent: nobody hears of it.
LEMMA SilentStep ==
    ASSUME IInv, Mow \/ AnnouncementLost \/ AnswerLeaves
    PROVE  IInv'
<1>1. /\ UNCHANGED <<kind, job, phase, truth, wet, busState, busStats, tasks, sensor>>
      /\ mowed' \in {mowed, mowed + 1} /\ (mowed' # mowed => mowed <= Full)
      /\ due' \in {due, NoEdge}
      /\ \/ late' = late
         \/ late' = [state |-> truth, job |-> job] /\ kind.late = TRUE
  BY Before DEF Mow, AnnouncementLost, AnswerLeaves, world
<1>2. mowed' \in Amounts /\ mowed' \in Nat /\ mowed' >= mowed
  BY <1>1, Before, BoundsAssumption DEF Amounts
<1>3. Outside
  BY <1>1, <1>2, Before DEF Outside, Grows
<1>4. Weather' /\ InTime'
  BY <1>1, <1>3, QuietStep
<1>5. Phases'
  BY <1>1, Before, NoneApart DEF Phases
<1> QED BY <1>1, <1>2, <1>3, <1>4, <1>5, Before, OutcomeSame

LEMMA AnnounceStep ==
    ASSUME IInv, Announce
    PROVE  IInv'
<1>1. /\ UNCHANGED <<kind, job, phase, mowed, truth, wet, late, busState, busStats, sensor>>
      /\ due \in Edges /\ due' = NoEdge /\ Len(tasks) < MaxTasks
  BY Before DEF Announce
<1>2. PICK e : /\ e \in {EdgeTask(due, None, job), EdgeTask(due, mowed, job)}
               /\ due.phase # "stop" => e = EdgeTask(due, None, job)
               /\ tasks' = Append(tasks, e)
  BY DEF Announce
<1>3. /\ e.on = "edge" /\ e.phase = due.phase /\ e.trigger = due.trigger /\ e.job = job
      /\ e.figure \in {None, mowed}
  BY <1>2 DEF EdgeTask
<1>4. due.phase \in {"start", "resume", "stop"} /\ due.trigger \in EdgeTriggers
  BY <1>1 DEF Edges, EdgeTriggers
<1>5. e \in Tasks
  <2>1. CASE due.phase = "stop"
    BY <1>2, <1>4, <2>1, Before DEF EdgeTask, Tasks
  <2>2. CASE due.phase # "stop"
    BY <1>2, <1>4, <2>2, Before DEF EdgeTask, Tasks
  <2> QED BY <2>1, <2>2
<1>6. /\ ~IsState(e) /\ ~IsRain(e) /\ ~IsCutting(e) /\ OfJob(e)
      /\ IsStop(e) => phase = "idle"
      /\ MayReset(e) => phase # "idle"
      /\ HasFigure(e) => e.figure = mowed
  BY <1>3, Before DEF IsState, IsRain, IsCutting, OfJob, IsStop, MayReset, HasFigure, Phases
<1>7. Outside
  BY <1>1, Before DEF Outside, Grows
<1>8. Fits(e, job', phase', mowed')
  BY <1>1, <1>3, <1>6 DEF Fits
<1>9. tasks' \in Seq(Tasks) /\ UpTo(tasks', job') /\ Len(tasks') <= MaxTasks + 1
  <2>1. e.job <= job'
    BY <1>1, <1>3, Before
  <2>2. tasks' \in Seq(Tasks) /\ UpTo(tasks', job') /\ Len(tasks') = Len(tasks) + 1
    BY <1>1, <1>2, <1>5, <1>7, <2>1, Before, QueueTyped
  <2> QED BY <1>1, <2>2, Before, BoundsAssumption
<1>10. Weather' /\ InTime'
  BY <1>1, <1>2, <1>5, <1>6, <1>7, <1>8, PutStep
<1>11. Phases'
  BY <1>1, Before, NoneApart DEF Phases
<1> QED BY <1>1, <1>7, <1>9, <1>10, <1>11, Before, OutcomeSame

LEMMA StatsStep ==
    ASSUME IInv, Stats
    PROVE  IInv'
<1>1. /\ UNCHANGED <<kind, job, phase, mowed, truth, wet, due, late, busState, sensor>>
      /\ Len(tasks) < MaxTasks /\ busStats' \in {None, mowed}
      /\ tasks' = tasks \/ tasks' = Append(tasks, StatsTask(busStats', job))
  BY DEF Stats, Reading, world
<1>2. Outside
  BY <1>1, Before DEF Outside, Grows
<1>3. Phases'
  BY <1>1, Before DEF Phases
<1>4. CASE tasks' = tasks
  <2>1. Weather' /\ InTime'
    BY <1>1, <1>2, <1>4, QuietStep
  <2> QED BY <1>1, <1>2, <1>3, <1>4, <2>1, Before, OutcomeSame
<1>5. CASE tasks' = Append(tasks, StatsTask(busStats', job))
  <2>1. PICK e \in Tasks : e = StatsTask(busStats', job)
    BY <1>1, Before DEF Tasks, StatsTask
  <2>2. /\ ~IsState(e) /\ ~IsRain(e) /\ ~IsCutting(e) /\ ~IsStop(e) /\ ~MayReset(e)
        /\ e.job = job /\ (HasFigure(e) => e.figure = mowed)
    BY <1>1, <2>1 DEF StatsTask, IsState, IsRain, IsCutting, IsStop, MayReset, HasFigure
  <2>3. Fits(e, job', phase', mowed')
    BY <1>1, <2>2 DEF Fits
  <2>4. tasks' \in Seq(Tasks) /\ UpTo(tasks', job') /\ Len(tasks') <= MaxTasks + 1
    <3>1. e.job <= job'
      BY <1>1, <2>2, Before
    <3>2. tasks' \in Seq(Tasks) /\ UpTo(tasks', job') /\ Len(tasks') = Len(tasks) + 1
      BY <1>2, <1>5, <2>1, <3>1, Before, QueueTyped
    <3> QED BY <1>1, <3>2, Before, BoundsAssumption
  <2>5. Weather' /\ InTime'
    BY <1>1, <1>2, <1>5, <2>1, <2>2, <2>3, PutStep
  <2> QED BY <1>1, <1>2, <1>3, <2>4, <2>5, Before, OutcomeSame
<1> QED BY <1>1, <1>4, <1>5

\* The answers to a state refresh.
LEMMA AnswerStep ==
    ASSUME IInv, Poll \/ AnswerArrives
    PROVE  IInv'
<1>1. /\ UNCHANGED <<kind, job, phase, mowed, truth, wet, due, busStats, sensor>>
      /\ late' \in {late, NoAnswer}
  BY DEF Poll, AnswerArrives, world
<1>2. Outside
  BY <1>1, Before DEF Outside, Grows
<1>3. Phases'
  BY <1>1, Before DEF Phases
<1>4. /\ tasks' \in Seq(Tasks) /\ UpTo(tasks', job') /\ Len(tasks') <= MaxTasks + 1
      /\ busState' \in States \cup {None} /\ Weather' /\ InTime'
  <2>1. CASE Poll
    <3>1. PushState(truth, job) /\ job <= job' /\ job' = job
      BY <1>1, <2>1, Before DEF Poll, PushState
    <3>2. truth = "CLEANING" => phase' # "idle" /\ ~wet'
      BY <1>1, Before
    <3> QED BY <1>1, <1>2, <3>1, <3>2, Before, StateStep
  <2>2. CASE AnswerArrives
    <3>1. late \in [state : States, job : 0..kind.jobs] /\ late.job <= job /\ kind.late = TRUE
      BY <2>2, Before DEF AnswerArrives, Typed, TypeOK
    <3>2. PushState(late.state, late.job) /\ late.job \in Nat /\ late.job <= job'
      BY <1>1, <2>2, <3>1, Before DEF AnswerArrives, PushState
    <3> QED BY <1>1, <1>2, <3>1, <3>2, StateStep
  <2> QED BY <2>1, <2>2
<1> QED BY <1>1, <1>2, <1>3, <1>4, Before, OutcomeSame

-------------------------------------------------------------------------------
(* The callbacks.                                                           *)

\* The first event handled: what was known, s, and what waits are one another's
\* continuation as before.
LEMMA PopWeather ==
    ASSUME NEW q \in Seq(Tasks), q # <<>>, NEW s, NEW said, NEW known, NEW s2, NEW known2,
           s2 = IF IsState(q[1]) THEN q[1].state ELSE s,
           IsCutting(q[1]) => ~known2,
           IsRain(q[1]) => known2,
           ~IsCutting(q[1]) /\ ~IsRain(q[1]) => (known2 <=> known)
    PROVE  /\ Hears(q, s, said) => Hears(Tail(q), s2, said)
           /\ RainEnds(q, known) => RainEnds(Tail(q), known2)
           /\ RainStays(q, known) => RainStays(Tail(q), known2)
<1>1. PICK r : r = Tail(q)
  OBVIOUS
<1>2. /\ 1 \in DOMAIN q /\ DOMAIN q \subseteq Nat /\ DOMAIN r \subseteq Nat
      /\ \A i \in DOMAIN r : i + 1 \in DOMAIN q /\ r[i] = q[i + 1] /\ i + 1 > 1
      /\ \A i \in DOMAIN q : i = 1 \/ (i - 1 \in DOMAIN r /\ r[i - 1] = q[i])
      /\ q[1] \in Tasks
  BY <1>1, Taken
<1>3. ASSUME Hears(q, s, said)
      PROVE  Hears(r, s2, said)
  <2>1. ASSUME \A i \in DOMAIN r : ~IsState(r[i])
        PROVE  s2 = said
    <3>1. \A i \in DOMAIN q : i # 1 => ~IsState(q[i])
      BY <1>2, <2>1
    <3>2. \A k \in DOMAIN q : k > 1 => ~IsState(q[k])
      BY <3>1
    <3> QED BY <1>2, <1>3, <3>1, <3>2 DEF Hears
  <2>2. ASSUME NEW i \in DOMAIN r, IsState(r[i]), \A k \in DOMAIN r : k > i => ~IsState(r[k])
        PROVE  r[i].state = said
    <3>1. ASSUME NEW k \in DOMAIN q, k > i + 1
          PROVE  ~IsState(q[k])
      <4>1. k # 1 /\ k \in Nat /\ i \in Nat /\ k - 1 > i
        BY <1>2, <3>1
      <4> QED BY <1>2, <2>2, <4>1
    <3>2. i + 1 \in DOMAIN q /\ IsState(q[i + 1])
      BY <1>2, <2>2
    <3> QED BY <1>2, <1>3, <3>1, <3>2 DEF Hears
  <2> QED BY <2>1, <2>2 DEF Hears
<1>4. ASSUME RainEnds(q, known)
      PROVE  RainEnds(r, known2)
  <2>1. ASSUME known2
        PROVE  \E i \in DOMAIN r : IsCutting(r[i])
    <3>1. ~IsCutting(q[1])
      BY <2>1
    <3>2. CASE IsRain(q[1])
      <4>1. PICK k \in DOMAIN q : k > 1 /\ IsCutting(q[k])
        BY <1>2, <1>4, <3>2 DEF RainEnds
      <4>2. k # 1 /\ k - 1 \in DOMAIN r /\ r[k - 1] = q[k]
        BY <1>2, <4>1
      <4> QED BY <4>1, <4>2
    <3>3. CASE ~IsRain(q[1])
      <4>1. PICK k \in DOMAIN q : IsCutting(q[k])
        BY <1>4, <2>1, <3>1, <3>3 DEF RainEnds
      <4> QED BY <1>2, <3>1, <4>1
    <3> QED BY <3>2, <3>3
  <2>2. ASSUME NEW i \in DOMAIN r, IsRain(r[i])
        PROVE  \E k \in DOMAIN r : k > i /\ IsCutting(r[k])
    <3>1. i + 1 \in DOMAIN q /\ IsRain(q[i + 1])
      BY <1>2, <2>2
    <3>2. PICK k \in DOMAIN q : k > i + 1 /\ IsCutting(q[k])
      BY <1>4, <3>1 DEF RainEnds
    <3>3. k # 1 /\ k - 1 > i
      BY <1>2, <3>2
    <3> QED BY <1>2, <3>2, <3>3
  <2> QED BY <2>1, <2>2 DEF RainEnds
<1>5. ASSUME RainStays(q, known)
      PROVE  RainStays(r, known2)
  <2>1. CASE known /\ \A i \in DOMAIN q : ~IsCutting(q[i])
    <3>1. known2
      BY <1>2, <2>1
    <3>2. \A i \in DOMAIN r : ~IsCutting(r[i])
      BY <1>2, <2>1
    <3> QED BY <3>1, <3>2 DEF RainStays
  <2>2. ASSUME NEW i \in DOMAIN q, IsRain(q[i]), \A k \in DOMAIN q : k > i => ~IsCutting(q[k])
        PROVE  RainStays(r, known2)
    <3>1. CASE i = 1
      <4>1. \A k \in DOMAIN r : ~IsCutting(r[k])
        BY <1>2, <2>2, <3>1
      <4> QED BY <2>2, <3>1, <4>1 DEF RainStays
    <3>2. CASE i # 1
      <4>1. i - 1 \in DOMAIN r /\ IsRain(r[i - 1])
        BY <1>2, <2>2, <3>2
      <4>2. ASSUME NEW k \in DOMAIN r, k > i - 1
            PROVE  ~IsCutting(r[k])
        <5>1. k + 1 > i
          BY <1>2, <4>2
        <5> QED BY <1>2, <2>2, <5>1
      <4> QED BY <4>1, <4>2 DEF RainStays
    <3> QED BY <3>1, <3>2
  <2> QED BY <1>5, <2>1, <2>2 DEF RainStays
<1> QED BY <1>1, <1>3, <1>4, <1>5

\* What the handling of event h makes of the figure: one that cannot be read
\* leaves it alone.
Writes(h, v) == shown' = v /\ shownJob' = h.job
Handled(h) ==
    \/ UNCHANGED <<jobOver, shown, shownJob>>
    \/ /\ IsStop(h) /\ jobOver' = TRUE
       /\ UNCHANGED <<shown, shownJob>> \/ (HasFigure(h) /\ Writes(h, Progress(h.figure)))
    \/ /\ h.on = "stats" /\ HasFigure(h) /\ jobOver = FALSE /\ jobOver' = FALSE
       /\ Writes(h, Progress(h.figure))
    \/ MayReset(h) /\ jobOver = TRUE /\ jobOver' = FALSE /\ Writes(h, 0)

LEMMA CallbackHandles ==
    ASSUME IInv, Callback, NEW h, h = Head(tasks)
    PROVE  /\ tasks # <<>> /\ tasks' = Tail(tasks) /\ h \in Tasks
           /\ UNCHANGED <<world, late, busState, busStats>>
           /\ Handled(h)
           /\ lastState' = IF IsState(h) THEN h.state ELSE lastState
           /\ rain' \in BOOLEAN
           /\ IsCutting(h) => ~rain'
           /\ IsRain(h) => rain'
           /\ ~IsCutting(h) /\ ~IsRain(h) => (rain' <=> rain)
<1>1. tasks \in Seq(Tasks) /\ jobOver \in BOOLEAN /\ rain \in BOOLEAN
  BY Before DEF TypeOK
<1>2. tasks # <<>> /\ tasks' = Tail(tasks) /\ UNCHANGED <<world, late, busState, busStats>>
  BY DEF Callback, OnStats, OnState, OnJobEdge, OnTrigger, Running
<1>3. h \in Tasks
  BY <1>1, <1>2, Taken
<1>4. CASE OnStats
  <2>1. h.on = "stats" /\ ~IsState(h) /\ ~IsCutting(h) /\ ~IsRain(h) /\ rain' = rain
        /\ lastState' = lastState /\ jobOver' = jobOver
    BY <1>4 DEF OnStats, Running, IsState, IsCutting, IsRain
  <2>2. \/ UNCHANGED <<shown, shownJob>>
        \/ ~jobOver /\ Progress(h.figure) # None /\ Writes(h, Progress(h.figure))
    BY <1>4 DEF OnStats, LeaveShown, Write, Writes
  <2>3. Progress(h.figure) # None => HasFigure(h)
    BY <2>1, NoneApart DEF Progress, HasFigure
  <2>4. ~jobOver => jobOver = FALSE
    BY <1>1
  <2>5. Handled(h)
    BY <2>1, <2>2, <2>3, <2>4 DEF Handled
  <2> QED BY <1>1, <1>2, <1>3, <2>1, <2>5
<1>5. CASE OnState
  <2>1. h.on = "state" /\ IsState(h) /\ ~IsRain(h) /\ lastState' = h.state
        /\ (IsCutting(h) <=> h.state = "CLEANING")
    BY <1>5 DEF OnState, Running, IsState, IsCutting, IsRain
  <2>2. Handled(h)
    BY <1>1, <1>5, <2>1 DEF OnState, LeaveShown, Write, Writes, Handled, MayReset
  <2>3. rain' = (rain /\ h.state # "CLEANING")
    BY <1>1, <1>5 DEF OnState, RainOnState
  <2> QED BY <1>1, <1>2, <1>3, <2>1, <2>2, <2>3
<1>6. CASE OnJobEdge
  <2>1. h.on = "edge" /\ ~IsState(h) /\ ~IsCutting(h) /\ ~IsRain(h) /\ rain' = rain
        /\ lastState' = lastState
    BY <1>6 DEF OnJobEdge, Running, IsState, IsCutting, IsRain
  <2>2. Progress(h.figure) # None => HasFigure(h)
    BY <2>1, NoneApart DEF Progress, HasFigure
  <2>3. ASSUME Complete(h)
        PROVE  \/ UNCHANGED <<shown, shownJob>>
               \/ HasFigure(h) /\ Writes(h, Progress(h.figure))
    BY <2>2, <2>3 DEF Complete, LeaveShown, Write, Writes
  <2>4. Handled(h)
    BY <1>1, <1>6, <2>1, <2>3
       DEF OnJobEdge, LeaveShown, Write, Writes, Handled, MayReset, IsStop
  <2> QED BY <1>1, <1>2, <1>3, <2>1, <2>4
<1>7. CASE OnTrigger
  <2>1. h.on = "trigger" /\ ~IsState(h) /\ ~IsCutting(h) /\ lastState' = lastState
        /\ (IsRain(h) <=> h.trigger = "rain") /\ UNCHANGED <<jobOver, shown, shownJob>>
    BY <1>7 DEF OnTrigger, Running, IsState, IsCutting, IsRain, progress
  <2>2. h.trigger \in {"rain", "workComplete"}
    BY <1>3, <2>1 DEF Tasks
  <2>3. IF h.trigger = "rain" THEN rain' = TRUE ELSE rain' = rain
    BY <1>1, <1>7, <2>2 DEF OnTrigger, RainOnTrigger
  <2> QED BY <1>1, <1>2, <1>3, <2>1, <2>3 DEF Handled
<1> QED BY <1>4, <1>5, <1>6, <1>7 DEF Callback

\* A figure is written as a figure, and never taken back to unknown.
LEMMA HandledTypes ==
    ASSUME Typed, NEW h \in Tasks, Handled(h)
    PROVE  /\ shown # None => shown' # None
           /\ shown' \in Figures \cup {None} /\ jobOver' \in BOOLEAN
           /\ shownJob' = shownJob \/ (shownJob' = h.job /\ OfJob(h))
<1>1. 0 \in Figures /\ 0 # None
  BY NoneApart, BoundsAssumption DEF Figures
<1>2. /\ HasFigure(h) => h.figure \in Amounts /\ OfJob(h)
      /\ MayReset(h) => OfJob(h)
      /\ shown \in Figures \cup {None} /\ jobOver \in BOOLEAN
  BY TasksAre DEF Typed, TypeOK
<1>3. HasFigure(h) => Progress(h.figure) \in Figures /\ Progress(h.figure) # None
  BY <1>2, Capped
<1> QED BY <1>1, <1>2, <1>3 DEF Handled, Writes

\* What handling the first event does to the figure of its job.
LEMMA RisesHandling ==
    ASSUME Typed, NEW q \in Seq(Tasks), q # <<>>, NEW h, h = q[1], Handled(h),
           NEW j, NEW p, NEW m, InTurn(q, j, p, m)
    PROVE  Rising
<1>1. 1 \in DOMAIN q /\ h \in Tasks
  BY Taken
<1>2. /\ HasFigure(h) => h.figure \in Amounts
      /\ Rank(shown) \in Int
  BY <1>1, TasksAre, Ranks DEF Typed, TypeOK
<1>3. CASE UNCHANGED <<shown, shownJob>>
  BY <1>2, <1>3 DEF Rising
<1>4. CASE HasFigure(h) /\ Writes(h, Progress(h.figure))
  <2>1. shown' = Progress(h.figure) /\ shownJob' = h.job
    BY <1>4 DEF Writes
  <2>2. h.job = shownJob => Rank(shown) <= h.figure
    BY <1>1, <1>4 DEF InTurn, Growing
  <2>3. h.job = shownJob => Rank(shown) <= Rank(Progress(h.figure))
    BY <1>2, <1>4, <2>2, Capped, Numbers
  <2>4. Rank(Progress(h.figure)) \in Int
    BY <1>2, <1>4, Capped, Ranks
  <2> QED BY <1>2, <2>1, <2>3, <2>4 DEF Rising
<1>5. CASE MayReset(h) /\ jobOver = TRUE /\ Writes(h, 0)
  <2>1. shown' = 0 /\ shownJob' = h.job
    BY <1>5 DEF Writes
  <2>2. h.job = shownJob => ~(Rank(shown) > 0)
    BY <1>1, <1>5 DEF InTurn, NothingResets, Showing
  <2>3. Rank(shown') = 0
    BY <2>1, NoneApart DEF Rank
  <2> QED BY <1>2, <2>1, <2>2, <2>3 DEF Rising
<1> QED BY <1>2, <1>3, <1>4, <1>5 DEF Handled

\* The first event handled, the rest is in turn.
LEMMA PopInTurn ==
    ASSUME Typed, NEW q \in Seq(Tasks), q # <<>>, NEW h, h = q[1], Handled(h),
           NEW j \in Nat, NEW p, NEW m \in Nat, UpTo(q, j), shownJob <= j,
           InTurn(q, j, p, m), NEW r, r = Tail(q)
    PROVE  InTurn(r, j, p, m)'
<1>1. /\ 1 \in DOMAIN q /\ h \in Tasks /\ DOMAIN r \subseteq Nat
      /\ \A i \in DOMAIN r : i + 1 \in DOMAIN q /\ r[i] = q[i + 1] /\ i + 1 > 1
      /\ \A i, k \in DOMAIN r : i < k => i + 1 < k + 1
  BY Taken
<1>2. \A i \in DOMAIN r : r[i] \in Tasks
  BY <1>1, Elements
<1>3. /\ shownJob \in Nat /\ Rank(shown) \in Int /\ jobOver \in BOOLEAN
      /\ Ordered(q) /\ Growing(q, j, m) /\ StopIsLast(q, j, p) /\ NothingResets(q, j, p)
  BY Numbers, Ranks DEF InTurn, Typed, TypeOK
<1>4. \A i \in DOMAIN r :
          /\ OfJob(r[i]) => r[i].job \in Nat /\ r[i].job <= j /\ shownJob <= r[i].job
          /\ HasFigure(r[i]) => OfJob(r[i]) /\ r[i].figure \in Amounts
          /\ IsStop(r[i]) => OfJob(r[i])
          /\ MayReset(r[i]) => OfJob(r[i])
  BY <1>1, <1>2, <1>3, TasksAre DEF UpTo, Ordered
\* The handled event comes before the others.
<1>5. /\ OfJob(h) => h.job \in Nat /\ h.job <= j /\ shownJob <= h.job
      /\ HasFigure(h) => OfJob(h) /\ h.figure \in Amounts
      /\ IsStop(h) => OfJob(h) /\ (p # "idle" => h.job # j)
      /\ MayReset(h) => OfJob(h)
  BY <1>1, <1>3, TasksAre DEF UpTo, Ordered, StopIsLast
<1>6. \A i \in DOMAIN r : OfJob(h) /\ OfJob(r[i]) => h.job <= r[i].job
  BY <1>1, <1>3 DEF Ordered
<1>7. /\ HasFigure(h) => (h.job = j => h.figure <= m)
      /\ \A i \in DOMAIN r :
             HasFigure(h) /\ HasFigure(r[i]) /\ h.job = r[i].job => h.figure <= r[i].figure
  BY <1>1, <1>3 DEF Growing
<1>8. \A i \in DOMAIN r : IsStop(h) /\ MayReset(r[i]) => h.job # r[i].job
  BY <1>1, <1>3 DEF StopIsLast
\* And what holds between the others holds still.
<1>9. \A i, k \in DOMAIN r : i < k /\ OfJob(r[i]) /\ OfJob(r[k]) => r[i].job <= r[k].job
  BY <1>1, <1>3 DEF Ordered
<1>10. /\ \A i \in DOMAIN r : HasFigure(r[i]) =>
              /\ r[i].job = j => r[i].figure <= m
              /\ r[i].job = shownJob => Rank(shown) <= r[i].figure
       /\ \A i, k \in DOMAIN r :
              i < k /\ HasFigure(r[i]) /\ HasFigure(r[k]) /\ r[i].job = r[k].job
                  => r[i].figure <= r[k].figure
  BY <1>1, <1>3 DEF Growing
<1>11. StopIsLast(r, j, p)
  <2>1. ASSUME p # "idle", NEW i \in DOMAIN r, IsStop(r[i]) PROVE r[i].job # j
    <3>1. i + 1 \in DOMAIN q /\ r[i] = q[i + 1]
      BY <1>1
    <3> QED BY <1>3, <2>1, <3>1 DEF StopIsLast
  <2>2. ASSUME NEW i \in DOMAIN r, NEW k \in DOMAIN r, i < k, IsStop(r[i]), MayReset(r[k])
        PROVE  r[i].job # r[k].job
    <3>1. /\ i + 1 \in DOMAIN q /\ k + 1 \in DOMAIN q /\ i + 1 < k + 1
          /\ r[i] = q[i + 1] /\ r[k] = q[k + 1]
      BY <1>1, <2>2
    <3> QED BY <1>3, <2>2, <3>1 DEF StopIsLast
  <2> QED BY <2>1, <2>2 DEF StopIsLast
<1>12. \/ UNCHANGED <<shown, shownJob>>
       \/ /\ shownJob' = h.job /\ OfJob(h)
          /\ \/ HasFigure(h) /\ shown' = Progress(h.figure)
             \/ shown' = 0
  BY <1>5 DEF Handled, Writes
<1>13. Ordered(r)'
  <2>1. \A i \in DOMAIN r : OfJob(r[i]) => shownJob' <= r[i].job
    BY <1>4, <1>6, <1>12
  <2> QED BY <1>9, <2>1 DEF Ordered
\* What is shown now is behind what is to come.
<1>14. /\ shownJob' = j => Rank(shown') <= m
       /\ \A i \in DOMAIN r :
              HasFigure(r[i]) /\ r[i].job = shownJob' => Rank(shown') <= r[i].figure
  <2>1. CASE UNCHANGED <<shown, shownJob>>
    BY <1>3, <1>10, <2>1 DEF Growing
  <2>2. CASE shownJob' = h.job /\ HasFigure(h) /\ shown' = Progress(h.figure)
    <3>1. h.figure \in Amounts
      BY <1>5, <2>2
    <3>2. Rank(shown') = Progress(h.figure) /\ Progress(h.figure) <= h.figure
          /\ Progress(h.figure) \in Int /\ h.figure \in Int
      BY <2>2, <3>1, Capped, BoundsAssumption DEF Amounts, Figures
    <3>3. \A i \in DOMAIN r : HasFigure(r[i]) => r[i].figure \in Int
      BY <1>4, BoundsAssumption DEF Amounts
    <3> QED BY <1>7, <2>2, <3>2, <3>3
  <2>3. CASE shown' = 0
    <3>1. Rank(shown') = 0
      BY <2>3, NoneApart DEF Rank
    <3>2. \A i \in DOMAIN r : HasFigure(r[i]) => r[i].figure >= 0
      BY <1>4, BoundsAssumption DEF Amounts
    <3> QED BY <3>1, <3>2
  <2> QED BY <1>12, <2>1, <2>2, <2>3
<1>15. Growing(r, j, m)'
  BY <1>10, <1>14 DEF Growing
<1>16. StopIsLast(r, j, p)'
  BY <1>11 DEF StopIsLast
\* The latch stands only behind a stop, which nothing of its job follows.
<1>17. NothingResets(r, j, p)'
  <2>1. CASE UNCHANGED <<jobOver, shown, shownJob>>
    <3>1. NothingResets(r, j, p)
      BY <1>1, <1>3 DEF NothingResets
    <3> QED BY <2>1, <3>1 DEF NothingResets, Showing
  <2>2. CASE IsStop(h) /\ UNCHANGED <<shown, shownJob>>
    <3>1. Showing => shownJob # j \/ p = "idle"
      BY <1>3, <1>5, <2>2
    <3>2. Showing => \A i \in DOMAIN r : ~(MayReset(r[i]) /\ r[i].job = shownJob)
      BY <1>1, <1>3, <2>2 DEF NothingResets
    <3> QED BY <2>2, <3>1, <3>2 DEF NothingResets, Showing
  <2>3. CASE IsStop(h) /\ HasFigure(h) /\ Writes(h, Progress(h.figure))
    <3>1. shownJob' = h.job /\ (p # "idle" => h.job # j)
      BY <1>5, <2>3 DEF Writes
    <3>2. \A i \in DOMAIN r : ~(MayReset(r[i]) /\ r[i].job = shownJob')
      BY <1>8, <2>3, <3>1
    <3> QED BY <3>1, <3>2 DEF NothingResets
  <2>4. CASE OfJob(h) /\ jobOver' = FALSE /\ shownJob' = h.job
    <3>1. ASSUME NEW i \in DOMAIN r, MayReset(r[i]), r[i].job = h.job,
                 NEW k \in DOMAIN r, k < i
          PROVE  ~IsStop(r[k])
      <4>1. SUFFICES ASSUME IsStop(r[k]) PROVE FALSE
        OBVIOUS
      <4>2. OfJob(r[i]) /\ OfJob(r[k])
        BY <1>4, <3>1, <4>1
      <4>3. h.job <= r[k].job /\ r[k].job <= r[i].job
        BY <1>6, <1>9, <2>4, <3>1, <4>2
      <4>4. r[k].job = r[i].job
        BY <1>4, <3>1, <4>2, <4>3
      <4> QED BY <1>11, <3>1, <4>1, <4>4 DEF StopIsLast
    <3> QED BY <2>4, <3>1 DEF NothingResets
  <2>5. CASE MayReset(h) /\ Writes(h, 0)
    <3>1. Rank(shown') = 0
      BY <2>5, NoneApart DEF Writes, Rank
    <3>2. ~Showing'
      BY <3>1 DEF Showing
    <3> QED BY <3>2 DEF NothingResets
  <2> QED BY <1>5, <2>1, <2>2, <2>3, <2>4, <2>5 DEF Handled, Writes
<1> QED BY <1>13, <1>15, <1>16, <1>17 DEF InTurn

LEMMA CallbackStep ==
    ASSUME IInv, Callback
    PROVE  IInv'
<1>1. PICK h : h = Head(tasks)
  OBVIOUS
<1>2. PICK q : q = tasks
  OBVIOUS
<1>3. PICK r : r = Tail(tasks)
  OBVIOUS
<1>4. /\ q \in Seq(Tasks) /\ q # <<>> /\ h = q[1] /\ h \in Tasks /\ tasks' = r /\ r = Tail(q)
      /\ r \in Seq(Tasks) /\ Len(r) <= MaxTasks + 1
      /\ UNCHANGED <<kind, job, phase, mowed, truth, wet, due, late, busState, busStats>>
      /\ Handled(h)
  <2>1. tasks \in Seq(Tasks) /\ Len(tasks) <= MaxTasks + 1
    BY Before
  <2>2. /\ tasks # <<>> /\ tasks' = Tail(tasks) /\ h \in Tasks /\ Handled(h)
        /\ UNCHANGED <<world, late, busState, busStats>>
    BY <1>1, CallbackHandles
  <2>3. Len(r) <= MaxTasks + 1 /\ r \in Seq(Tasks) /\ Head(tasks) = tasks[1]
    BY <1>3, <2>1, <2>2, Taken, BoundsAssumption
  <2> QED BY <1>1, <1>2, <1>3, <2>1, <2>2, <2>3 DEF world
<1>5. /\ Typed /\ Phases /\ Weather /\ InTime /\ job \in Nat /\ mowed \in Nat
      /\ kind.jobs \in Nat /\ job <= kind.jobs /\ shownJob \in Nat /\ shownJob <= job
      /\ kind.late \in BOOLEAN /\ UpTo(q, job)
  BY <1>2, Before, Numbers DEF IInv, Typed
<1>6. shown' \in Figures \cup {None} /\ jobOver' \in BOOLEAN
      /\ shownJob' \in 0..kind.jobs /\ shownJob' <= job
  <2>1. OfJob(h) => h.job \in Nat /\ h.job <= job
    BY <1>4, <1>5, Taken, TasksAre DEF UpTo
  <2> QED BY <1>4, <1>5, <2>1, HandledTypes
<1>7. /\ lastState' = IF IsState(h) THEN h.state ELSE lastState
      /\ rain' \in BOOLEAN
      /\ IsCutting(h) => ~rain'
      /\ IsRain(h) => rain'
      /\ ~IsCutting(h) /\ ~IsRain(h) => (rain' <=> rain)
  BY <1>1, CallbackHandles
<1>8. lastState' \in States \cup {None}
  <2>1. IsState(h) => h.state \in States
    BY <1>4, TasksAre DEF IsState
  <2> QED BY <1>5, <1>7, <2>1 DEF Typed, TypeOK
<1>9. Typed'
  <2>1. UpTo(r, job)
    BY <1>4, <1>5, Taken DEF UpTo
  <2>2. TypeOK'
    BY <1>4, <1>5, <1>6, <1>7, <1>8 DEF Typed, TypeOK
  <2> QED BY <1>4, <1>5, <1>6, <2>1, <2>2 DEF Typed, UpTo
<1>10. Phases'
  BY <1>4, <1>5 DEF Phases
<1>11. Weather'
  <2>1. /\ Hears(q, lastState, busState)
        /\ busState = "CLEANING" => RainEnds(q, rain)
        /\ wet /\ kind.late = FALSE => busState \in Standing /\ RainStays(q, rain)
    BY <1>2, <1>5 DEF Weather
  <2>2. PICK s : s = lastState
    OBVIOUS
  <2>3. PICK s2 : s2 = lastState'
    OBVIOUS
  <2>4. PICK known : known = rain
    OBVIOUS
  <2>5. PICK known2 : known2 = rain'
    OBVIOUS
  <2>6. PICK said : said = busState
    OBVIOUS
  <2>7. /\ Hears(q, s, said) => Hears(r, s2, said)
        /\ RainEnds(q, known) => RainEnds(r, known2)
        /\ RainStays(q, known) => RainStays(r, known2)
    BY <1>4, <1>7, <2>2, <2>3, <2>4, <2>5, PopWeather
  <2>8. /\ Hears(r, s2, said)
        /\ said = "CLEANING" => RainEnds(r, known2)
        /\ wet /\ kind.late = FALSE => said \in Standing /\ RainStays(r, known2)
    BY <2>1, <2>2, <2>4, <2>6, <2>7
  <2>9. UNCHANGED <<wet, kind, busState>> /\ tasks' = r
    BY <1>4
  <2> QED BY <2>3, <2>5, <2>6, <2>8, <2>9 DEF Weather, Hears, RainEnds, RainStays
<1>12. InTime'
  <2> SUFFICES ASSUME kind.late = FALSE PROVE InTurn(tasks, job, phase, mowed)'
    BY <1>4 DEF InTime
  <2>1. PICK j : j = job
    OBVIOUS
  <2>2. PICK p : p = phase
    OBVIOUS
  <2>3. PICK m : m = mowed
    OBVIOUS
  <2>4. InTurn(q, j, p, m)
    BY <1>2, <1>5, <2>1, <2>2, <2>3 DEF InTime
  <2>5. InTurn(r, j, p, m)'
    BY <1>4, <1>5, <2>1, <2>3, <2>4, PopInTurn
  <2> QED BY <1>4, <2>1, <2>2, <2>3, <2>5
      DEF InTurn, Ordered, Growing, StopIsLast, NothingResets, Showing
<1> QED BY <1>9, <1>10, <1>11, <1>12 DEF IInv

-------------------------------------------------------------------------------
(* The invariant, and what it gives.                                        *)

LEMMA InitInv == Init => IInv
<1> SUFFICES ASSUME Init PROVE IInv
  OBVIOUS
<1>1. /\ kind \in Mowers /\ job = 0 /\ phase = "idle" /\ mowed = 0 /\ truth = "DOCKED"
      /\ wet = FALSE /\ due = NoEdge /\ late = NoAnswer /\ busState = None /\ busStats = None
      /\ tasks = <<>> /\ lastState = None /\ jobOver = FALSE /\ shown = None /\ shownJob = 0
      /\ rain = FALSE /\ NoEdge.phase = None
  BY DEF Init, NoEdge
<1>2. kind.jobs \in Nat
  BY <1>1, MowersAssumption DEF Mower
<1>3. tasks \in Seq(Tasks) /\ DOMAIN tasks = {} /\ Len(tasks) = 0
  BY <1>1
<1>4. TypeOK
  <2>1. job \in 0..kind.jobs /\ shownJob \in 0..kind.jobs /\ mowed \in 0..Full + 1
    BY <1>1, <1>2, BoundsAssumption
  <2>2. truth \in States /\ (truth = "CLEANING" <=> phase = "mowing") /\ Len(tasks) <= MaxTasks + 1
    BY <1>1, <1>3, BoundsAssumption DEF States
  <2>3. {busState, lastState} \subseteq States \cup {None}
    BY <1>1
  <2>4. kind \in Mowers /\ phase \in {"idle", "mowing", "paused"} /\ wet \in BOOLEAN
        /\ rain \in BOOLEAN /\ jobOver \in BOOLEAN /\ due \in Edges \cup {NoEdge}
        /\ late \in [state : States, job : 0..kind.jobs] \cup {NoAnswer}
        /\ busStats \in 0..Full + 1 \cup {None} /\ shown \in Figures \cup {None}
    BY <1>1
  <2> QED BY <2>1, <2>2, <2>3, <2>4 DEF TypeOK
<1>5. Typed
  BY <1>1, <1>3, <1>4 DEF Typed, UpTo
<1>6. Phases
  BY <1>1, NoneApart DEF Phases
<1>7. Weather
  BY <1>1, <1>3, NoneAssumption DEF Weather, Hears
<1>8. InTurn(tasks, job, phase, mowed)
  <2>1. Rank(shown) = -1
    BY <1>1 DEF Rank
  <2> QED BY <1>1, <1>3, <2>1
      DEF InTurn, Ordered, Growing, StopIsLast, NothingResets, Showing
<1> QED BY <1>5, <1>6, <1>7, <1>8 DEF IInv, InTime

LEMMA NextInv == IInv /\ [Next]_vars => IInv'
<1> SUFFICES ASSUME IInv, [Next]_vars PROVE IInv'
  OBVIOUS
<1>1. CASE UNCHANGED vars
  BY <1>1 DEF vars, world, sensor, progress, IInv, Typed, TypeOK, Phases, Weather, InTime,
              UpTo, Hears, RainEnds, RainStays, InTurn, Ordered, Growing, StopIsLast,
              NothingResets, Showing
<1>2. CASE Next
  BY <1>2, BeginStep, StopStep, ContinueStep, RainStep, SilentStep, AnnounceStep, StatsStep,
     AnswerStep, CallbackStep DEF Next
<1> QED BY <1>1, <1>2

\* Every variable has its type: the callbacks that wait, the figure between 0
\* and 100 %, the latch, and the last job whose event wrote the figure.
THEOREM TypeCorrect == Spec => []TypeOK
<1>1. IInv => TypeOK
  BY DEF IInv, Typed
<1> QED BY <1>1, InitInv, NextInv, PTL DEF Spec

\* Once the callbacks have run, rain that was told is shown until the mower cuts
\* again, whatever triggers follow on the dock, except in an error, which is
\* shown instead and does not end it; and cutting leaves none behind
\* (EcovacsActivitySensor._on_trigger, _on_state).
THEOREM RainIsTold == Spec => []RainStopIsTold
<1>1. ASSUME IInv PROVE RainStopIsTold
  <2> SUFFICES ASSUME tasks = <<>>
               PROVE  /\ wet /\ ~kind.late =>
                            \/ Activity(lastState) \in {"paused_rain", "docked_rain_delay"}
                            \/ lastState = "ERROR"
                      /\ lastState = "CLEANING" => ~rain
    BY DEF RainStopIsTold
  <2>1. DOMAIN tasks = {}
    OBVIOUS
  <2>2. lastState = busState
    BY <1>1, <2>1 DEF IInv, Weather, Hears
  <2>3. lastState = "CLEANING" => ~rain
    BY <1>1, <2>1, <2>2 DEF IInv, Weather, RainEnds
  <2>4. ASSUME wet, kind.late = FALSE
        PROVE  \/ Activity(lastState) \in {"paused_rain", "docked_rain_delay"}
               \/ lastState = "ERROR"
    <3>1. rain
      BY <1>1, <2>1, <2>2, <2>4 DEF IInv, Weather, RainStays
    <3>2. lastState \in {"PAUSED", "DOCKED", "ERROR"}
      BY <1>1, <2>2, <2>4 DEF IInv, Weather, Standing, States
    <3> QED BY <3>1, <3>2 DEF Activity, RainActivityOf, ActivityOf
  <2> QED BY <1>1, <2>3, <2>4, Before
<1> QED BY <1>1, InitInv, NextInv, PTL DEF Spec

\* Within one job the figure does not fall, whatever order of announcements,
\* states and stats the sensor hears, and it never goes back to unknown, not even
\* by a completion with areas that cannot be read
\* (EcovacsMowingProgressSensor._on_stats, _on_state, _on_job_edge; issue #73).
THEOREM FigureRises == Spec => FigureNeverFalls
<1>1. ASSUME IInv, [Next]_vars
      PROVE  [(~kind.late => Rising) /\ (shown # None => shown' # None)]_vars
  <2>1. CASE Callback
    <3>1. PICK h : h = Head(tasks)
      OBVIOUS
    <3>2. PICK q : q = tasks
      OBVIOUS
    <3>3. /\ q \in Seq(Tasks) /\ q # <<>> /\ h = q[1] /\ h \in Tasks /\ Handled(h) /\ Typed
      BY <1>1, <2>1, <3>1, <3>2, Before, CallbackHandles, Taken
    <3>4. ASSUME kind.late = FALSE PROVE Rising
      <4>1. InTurn(q, job, phase, mowed)
        BY <1>1, <3>2, <3>4 DEF IInv, InTime
      <4> QED BY <3>3, <4>1, RisesHandling
    <3>5. shown # None => shown' # None
      BY <3>3, HandledTypes
    <3>6. kind.late \in BOOLEAN
      BY <1>1, Before
    <3> QED BY <3>4, <3>5, <3>6
  <2>2. CASE UNCHANGED shown
    <3>1. Rank(shown') = Rank(shown) /\ Rank(shown) \in Int
      BY <1>1, <2>2, Before, Numbers, Ranks
    <3> QED BY <2>2, <3>1 DEF Rising
  <2>3. Next => Callback \/ UNCHANGED shown
    BY DEF Next, BeginJob, Mow, Interrupt, StopForRain, DockInRain, Continue, EndJob, Settle,
           Announce, AnnouncementLost, Stats, Poll, AnswerLeaves, AnswerArrives,
           sensor, progress
  <2> QED BY <1>1, <2>1, <2>2, <2>3 DEF vars
<1> QED BY <1>1, InitInv, NextInv, PTL DEF Spec, FigureNeverFalls

===============================================================================
