----------------------------- MODULE AreaWriteProofs -----------------------------
(***************************************************************************)
(* Theorems about AreaWrite, for any parameters, values, callers and kinds *)
(* of reporting: its type invariant with the lock, that nothing is resent  *)
(* that the mower has not held, and that with prompt reports no write      *)
(* reverts another.  Those about RainSetting, the other setting that is    *)
(* written whole, are at the end: for any delays, either entity or both,   *)
(* and any number of changes, its type invariant, and that no half of a    *)
(* pair is made up.                                                        *)
(***************************************************************************)
EXTENDS AreaWrite, RainSetting, SequenceTheorems, TLAPS

\* What a set says of the parameters, the mower has held.
Known(set) == \A k \in Keys : set[k] = None \/ set[k] \in held[k]

\* Every source of a base is known: what was reported, what is on its way, and
\* the last write, which is recorded only when the mower has confirmed it.  A
\* stray command is none: what it carries may never be taken.
SourcesKnown ==
    /\ \A k \in Keys : mower[k] \in held[k]
    /\ Known(snapshot) /\ Known(push) /\ Known(reply)
    /\ Known(pending.raw)

\* A write that is out has a whole base that the mower has held, and its own
\* value too is held once the mower has taken it.
WriteKnown(c) ==
    /\ call[c].at # "idle" => call[c].key \in Keys /\ call[c].value \in Values
    /\ call[c].at \in {"sent", "taken"} => \A k \in Keys : call[c].base[k] \in held[k]
    /\ call[c].at = "taken" => call[c].value \in held[call[c].key]

IInv ==
    /\ TypeOK
    /\ SourcesKnown
    /\ \A c \in Callers : WriteKnown(c)

-------------------------------------------------------------------------------

LEMMA NoSetPartial == NoSet \in Partial
BY DEF NoSet, Partial

LEMMA InitInv == Init => IInv
<1> SUFFICES ASSUME Init PROVE IInv
  OBVIOUS
<1> USE DEF Init
<1>1. IdleCall \in Calls
  BY NoSetPartial DEF IdleCall, Calls
<1>2. held \in [Keys -> SUBSET Values]
  BY DEF Sets
<1>3. \A c \in Callers : call[c].at \in {"sent", "taken"} <=> lock = c
  BY NoneAssumption DEF IdleCall
<1>4. TypeOK
  BY <1>1, <1>2, <1>3, NoSetPartial DEF TypeOK
<1>5. SourcesKnown
  BY DEF SourcesKnown, Known, NoSet
<1>6. \A c \in Callers : WriteKnown(c)
  BY DEF WriteKnown, IdleCall
<1> QED BY <1>4, <1>5, <1>6 DEF IInv

\* The mower takes a set: it holds values, and pushes what it has held.
LEMMA Takes ==
    ASSUME IInv, NEW set \in Partial, Take(set)
    PROVE  /\ mower' \in Sets
           /\ held' \in [Keys -> SUBSET Values]
           /\ push' \in Partial
           /\ \A k \in Keys : /\ held[k] \subseteq held'[k]
                              /\ mower'[k] \in held'[k]
                              /\ set[k] # None => set[k] \in held'[k]
                              /\ push'[k] = None \/ push'[k] \in held'[k]
<1> DEFINE new == [k \in Keys |-> IF set[k] = None THEN mower[k] ELSE set[k]]
           rows == {new} \cup IF reports = "partial" THEN {[new EXCEPT ![k] = None] : k \in Keys} ELSE {}
<1>1. mower \in Sets /\ held \in [Keys -> SUBSET Values] /\ push \in Partial
  BY DEF IInv, TypeOK
<1>2. new \in Sets
  BY <1>1 DEF Sets, Partial
<1>3. /\ mower' = new
      /\ held' = [k \in Keys |-> held[k] \cup {new[k]}]
      /\ push' \in {push} \cup (IF push = NoSet THEN rows ELSE {})
  BY DEF Take
<1>4. held' \in [Keys -> SUBSET Values]
  BY <1>1, <1>2, <1>3 DEF Sets
<1>5. \A k \in Keys : new[k] = IF set[k] = None THEN mower[k] ELSE set[k]
  OBVIOUS
<1>6. \A row \in rows : row \in Partial /\ \A k \in Keys : row[k] = None \/ row[k] = new[k]
  BY <1>2 DEF Sets, Partial
<1> HIDE DEF new, rows
<1>7. \A k \in Keys : /\ held[k] \subseteq held'[k]
                      /\ mower'[k] \in held'[k]
                      /\ set[k] # None => set[k] \in held'[k]
                      /\ new[k] \in held'[k]
  BY <1>3, <1>5
<1>8. push' \in Partial /\ \A k \in Keys : push'[k] = None \/ push'[k] \in held'[k]
  <2>1. CASE push' = push
    BY <2>1, <1>1, <1>7 DEF IInv, SourcesKnown, Known
  <2>2. CASE push' \in rows
    BY <2>2, <1>6, <1>7
  <2> QED BY <2>1, <2>2, <1>3
<1> QED BY <1>2, <1>3, <1>4, <1>7, <1>8

\* A command that is out carries a whole set.
LEMMA PayloadPartial ==
    ASSUME IInv, NEW c \in Callers, call[c].at \in {"sent", "taken"}
    PROVE  /\ Payload(c) \in Partial
           /\ \A k \in Keys : Payload(c)[k] = IF k = call[c].key THEN call[c].value
                                              ELSE call[c].base[k]
<1>1. /\ call[c].base \in Partial /\ call[c].key \in Keys /\ call[c].value \in Values
  BY DEF IInv, TypeOK, Calls, WriteKnown
<1> QED BY <1>1 DEF Payload, Partial

\* A step that changes no call, and whose held values only grow, keeps every
\* write known.
LEMMA WritesStay ==
    ASSUME IInv, UNCHANGED call, \A k \in Keys : held[k] \subseteq held'[k]
    PROVE  \A c \in Callers : WriteKnown(c)'
BY DEF IInv, WriteKnown

\* Reports that are merged: what was known of the area, or what the row says.
LEMMA MergeKnown ==
    ASSUME IInv, NEW row \in Partial, Known(row), Merge(row)
    PROVE  /\ snapshot' \in Partial /\ answers' \in Nat
           /\ \A k \in Keys : snapshot'[k] = None \/ snapshot'[k] \in held[k]
BY DEF IInv, TypeOK, SourcesKnown, Known, Merge, Partial

-------------------------------------------------------------------------------

LEMMA MowerStep ==
    ASSUME IInv,
           (\E k \in Keys, v \in Values : AppWrites(k, v)) \/ StrayArrives \/ MowerAnswers
    PROVE  IInv'
<1>1. CASE (\E k \in Keys, v \in Values : AppWrites(k, v)) \/ StrayArrives
  <2>1. PICK set \in Partial : Take(set) /\ stray' \in Partial
    <3>1. CASE StrayArrives
      BY <3>1, NoSetPartial DEF StrayArrives, IInv, TypeOK
    <3>2. ASSUME NEW k \in Keys, NEW v \in Values, AppWrites(k, v)
          PROVE  \E set \in Partial : Take(set) /\ stray' \in Partial
      <4>1. [NoSet EXCEPT ![k] = v] \in Partial
        BY NoSetPartial DEF Partial
      <4> QED BY <3>2, <4>1 DEF AppWrites, IInv, TypeOK
    <3> QED BY <1>1, <3>1, <3>2
  <2>2. /\ UNCHANGED <<snapshot, answers, pending, lock, call, reports, refresh, reply, calls>>
        /\ Standing
    BY <1>1 DEF AppWrites, StrayArrives
  <2>3. /\ mower' \in Sets
        /\ held' \in [Keys -> SUBSET Values]
        /\ push' \in Partial
        /\ \A k \in Keys : /\ held[k] \subseteq held'[k]
                           /\ mower'[k] \in held'[k]
                           /\ push'[k] = None \/ push'[k] \in held'[k]
    BY <2>1, Takes
  <2>4. confirmed' \in Partial
    BY <2>2 DEF Standing, IInv, TypeOK, Partial
  <2>5. TypeOK'
    BY <2>1, <2>2, <2>3, <2>4 DEF IInv, TypeOK
  <2>6. SourcesKnown'
    BY <2>2, <2>3 DEF IInv, SourcesKnown, Known
  <2>7. \A c \in Callers : WriteKnown(c)'
    BY <2>2, <2>3, WritesStay
  <2> QED BY <2>5, <2>6, <2>7 DEF IInv
<1>2. CASE MowerAnswers
  <2>1. mower \in Partial
    BY DEF IInv, TypeOK, Sets, Partial
  <2>2. TypeOK'
    BY <1>2, <2>1 DEF MowerAnswers, IInv, TypeOK
  <2>3. SourcesKnown'
    BY <1>2 DEF MowerAnswers, IInv, SourcesKnown, Known
  <2>4. \A c \in Callers : WriteKnown(c)'
    BY <1>2, WritesStay DEF MowerAnswers
  <2> QED BY <2>2, <2>3, <2>4 DEF IInv
<1> QED BY <1>1, <1>2

LEMMA ReportStep ==
    ASSUME IInv, PushArrives \/ AnswerArrives \/ AnswerLost \/ PushLost
    PROVE  IInv'
<1>1. /\ UNCHANGED <<reports, mower, pending, lock, call, stray, calls, held, confirmed>>
      /\ push' \in {push, NoSet} /\ reply' \in {reply, NoSet}
      /\ refresh' \in {refresh, "none"}
  BY DEF PushArrives, AnswerArrives, AnswerLost, PushLost
<1>2. /\ snapshot' \in Partial /\ answers' \in Nat
      /\ \A k \in Keys : snapshot'[k] = None \/ snapshot'[k] \in held[k]
  <2>1. CASE PushArrives
    BY <2>1, MergeKnown DEF PushArrives, IInv, TypeOK, SourcesKnown
  <2>2. CASE AnswerArrives
    BY <2>2, MergeKnown DEF AnswerArrives, IInv, TypeOK, SourcesKnown
  <2>3. CASE AnswerLost \/ PushLost
    BY <2>3 DEF AnswerLost, PushLost, IInv, TypeOK, SourcesKnown, Known
  <2> QED BY <2>1, <2>2, <2>3
<1>3. TypeOK'
  BY <1>1, <1>2, NoSetPartial DEF IInv, TypeOK
<1>4. SourcesKnown'
  BY <1>1, <1>2 DEF IInv, SourcesKnown, Known, NoSet
<1>5. \A c \in Callers : WriteKnown(c)'
  BY <1>1, WritesStay
<1> QED BY <1>3, <1>4, <1>5 DEF IInv

\* Calls that send nothing, and the one that takes the lock with a whole base.
LEMMA CallStep ==
    ASSUME IInv, NEW c \in Callers,
           \/ \E k \in Keys, v \in Values : Call(c, k, v)
           \/ Begin(c)
           \/ BeginRefused(c)
    PROVE  IInv'
<1>1. UNCHANGED <<mower, snapshot, answers, pending, channels, held, confirmed>>
  BY DEF Call, Begin, BeginRefused
<1>2. SourcesKnown'
  BY <1>1 DEF IInv, SourcesKnown, Known, channels
<1>3. call \in [Callers -> Calls] /\ lock \in Callers \cup {None} /\ IdleCall \in Calls
  BY NoSetPartial DEF IInv, TypeOK, IdleCall, Calls
<1>4. \A d \in Callers : /\ call[d].at \in {"sent", "taken"} <=> lock = d
                         /\ WriteKnown(d)
  BY DEF IInv, TypeOK
<1>5. CASE BeginRefused(c) \/ \E k \in Keys, v \in Values : Call(c, k, v)
  <2>1. PICK w \in Calls : /\ call' = [call EXCEPT ![c] = w]
                           /\ w.at \in {"idle", "waiting"}
                           /\ w.at # "idle" => w.key \in Keys /\ w.value \in Values
    <3>1. CASE BeginRefused(c)
      BY <3>1, <1>3 DEF BeginRefused, IdleCall
    <3>2. ASSUME NEW k \in Keys, NEW v \in Values, Call(c, k, v)
          PROVE  \E w \in Calls : /\ call' = [call EXCEPT ![c] = w]
                                  /\ w.at \in {"idle", "waiting"}
                                  /\ w.at # "idle" => w.key \in Keys /\ w.value \in Values
      <4> DEFINE w == [IdleCall EXCEPT !.at = "waiting", !.key = k, !.value = v]
      <4>1. w \in Calls /\ w.at = "waiting" /\ w.key = k /\ w.value = v
        BY NoSetPartial DEF IdleCall, Calls
      <4> QED BY <3>2, <4>1 DEF Call
    <3> QED BY <1>5, <3>1, <3>2
  <2>2. lock' = lock /\ call[c].at \in {"idle", "waiting"} /\ calls' \in Nat
    <3>1. CASE BeginRefused(c)
      BY <3>1 DEF BeginRefused, IInv, TypeOK
    <3>2. ASSUME NEW k \in Keys, NEW v \in Values, Call(c, k, v)
          PROVE  lock' = lock /\ call[c].at \in {"idle", "waiting"} /\ calls' \in Nat
      <4>1. calls \in Nat /\ calls' = calls + 1
        BY <3>2 DEF Call, IInv, TypeOK
      <4>2. lock' = lock /\ call[c].at = "idle"
        BY <3>2 DEF Call
      <4> QED BY <4>1, <4>2
    <3> QED BY <1>5, <3>1, <3>2
  <2>3. /\ call' \in [Callers -> Calls]
        /\ \A d \in Callers : call'[d] = IF d = c THEN w ELSE call[d]
    BY <2>1, <1>3
  <2>4. TypeOK'
    BY <1>1, <1>4, <2>1, <2>2, <2>3 DEF IInv, TypeOK, channels
  <2>5. \A d \in Callers : WriteKnown(d)'
    BY <1>1, <1>4, <2>1, <2>3 DEF WriteKnown
  <2> QED BY <1>2, <2>4, <2>5 DEF IInv
<1>6. CASE Begin(c)
  <2>1. /\ call[c].at = "waiting" /\ lock = None /\ lock' = c /\ calls' = calls
        /\ Complete(Base)
        /\ call' = [call EXCEPT ![c].at = "sent", ![c].base = Base, ![c].answers = answers]
    BY <1>6 DEF Begin
  <2>2. Base \in Partial /\ Known(Base) /\ answers \in Nat
    BY DEF Base, IInv, TypeOK, SourcesKnown
  <2>3. \A k \in Keys : Base[k] \in held[k]
    BY <2>1, <2>2 DEF Complete, Known
  <2>4. call[c] \in Calls
    BY <1>3
  <2>5. /\ call' \in [Callers -> Calls]
        /\ call'[c].at = "sent" /\ call'[c].base = Base
        /\ call'[c].key = call[c].key /\ call'[c].value = call[c].value
        /\ \A d \in Callers \ {c} : call'[d] = call[d]
    BY <2>1, <2>2, <2>4, <1>3 DEF Calls
  <2>6. TypeOK'
    BY <1>1, <1>4, <2>1, <2>5, NoneAssumption DEF IInv, TypeOK, channels
  <2>7. \A d \in Callers : WriteKnown(d)'
    BY <1>1, <1>4, <2>1, <2>3, <2>5 DEF WriteKnown
  <2> QED BY <1>2, <2>6, <2>7 DEF IInv
<1> QED BY <1>5, <1>6

\* The mower takes a command: what it carries is held from then on.
LEMMA TakenStep ==
    ASSUME IInv, NEW c \in Callers, CommandTaken(c)
    PROVE  IInv'
<1>1. /\ call[c].at = "sent" /\ Take(Payload(c))
      /\ call' = [call EXCEPT ![c].at = "taken"]
      /\ UNCHANGED <<snapshot, answers, pending, lock, reports, refresh, reply, stray, calls>>
  BY DEF CommandTaken
<1>2. /\ call \in [Callers -> Calls] /\ call[c] \in Calls
      /\ call[c].key \in Keys /\ call[c].value \in Values
  BY <1>1 DEF IInv, TypeOK, WriteKnown
<1>3. Payload(c) \in Partial /\ Payload(c)[call[c].key] = call[c].value
  BY <1>1, <1>2, PayloadPartial
<1>4. /\ mower' \in Sets
      /\ held' \in [Keys -> SUBSET Values]
      /\ push' \in Partial
      /\ \A k \in Keys : /\ held[k] \subseteq held'[k]
                         /\ mower'[k] \in held'[k]
                         /\ Payload(c)[k] # None => Payload(c)[k] \in held'[k]
                         /\ push'[k] = None \/ push'[k] \in held'[k]
  BY <1>1, <1>3, Takes
<1>5. confirmed' \in Partial
  BY <1>2 DEF CommandTaken, IInv, TypeOK, Partial
<1>6. /\ call' \in [Callers -> Calls]
      /\ call'[c].at = "taken" /\ call'[c].base = call[c].base
      /\ call'[c].key = call[c].key /\ call'[c].value = call[c].value
      /\ \A d \in Callers \ {c} : call'[d] = call[d]
  BY <1>1, <1>2 DEF Calls
<1>7. TypeOK'
  BY <1>1, <1>4, <1>5, <1>6 DEF IInv, TypeOK
<1>8. SourcesKnown'
  BY <1>1, <1>4 DEF IInv, SourcesKnown, Known
<1>9. call[c].value \in held'[call[c].key]
  BY <1>2, <1>3, <1>4, NoneAssumption
<1>10. \A d \in Callers : WriteKnown(d)'
  BY <1>1, <1>2, <1>4, <1>6, <1>9 DEF IInv, WriteKnown
<1> QED BY <1>7, <1>8, <1>10 DEF IInv

\* The call ends; only a write that the mower took is recorded.
LEMMA EndStep ==
    ASSUME IInv, NEW c \in Callers, Confirmed(c) \/ Unconfirmed(c)
    PROVE  IInv'
<1>1. call[c].at \in {"sent", "taken"} /\ EndCall(c)
  BY DEF Confirmed, Unconfirmed
<1>2. /\ lock = c /\ lock' = None
      /\ call' = [call EXCEPT ![c] = IdleCall]
      /\ refresh' \in {"none", "asked", "answered"}
      /\ UNCHANGED <<reports, mower, snapshot, answers, reply, push, calls, held>>
  BY <1>1 DEF EndCall, IInv, TypeOK
<1>3. /\ call \in [Callers -> Calls] /\ IdleCall \in Calls
      /\ call[c].answers \in Nat
  BY NoSetPartial DEF IInv, TypeOK, IdleCall, Calls
<1>4. /\ call' \in [Callers -> Calls]
      /\ \A d \in Callers : call'[d] = IF d = c THEN IdleCall ELSE call[d]
  BY <1>2, <1>3
<1>5. Payload(c) \in Partial
  BY <1>1, PayloadPartial
<1>6. stray' \in Partial /\ confirmed' \in Partial
  <2>1. stray' \in Partial
    BY <1>5 DEF Confirmed, Unconfirmed, IInv, TypeOK
  <2>2. confirmed' \in Partial
    BY DEF Confirmed, Unconfirmed, IInv, TypeOK, Partial
  <2> QED BY <2>1, <2>2
<1>7. /\ pending' \in [raw : Partial, answers : Nat]
      /\ \A k \in Keys : pending'.raw[k] = None \/ pending'.raw[k] \in held[k]
  <2>1. CASE Confirmed(c)
    <3>1. call[c].at = "taken" /\ pending' = [raw |-> Payload(c), answers |-> call[c].answers]
      BY <2>1 DEF Confirmed
    <3>2. \A k \in Keys : Payload(c)[k] \in held[k]
      BY <3>1, PayloadPartial DEF IInv, WriteKnown
    <3> QED BY <3>1, <3>2, <1>3, <1>5
  <2>2. CASE Unconfirmed(c)
    BY <2>2 DEF Unconfirmed, IInv, TypeOK, SourcesKnown, Known
  <2> QED BY <2>1, <2>2
<1>8. TypeOK'
  BY <1>2, <1>4, <1>6, <1>7, NoneAssumption DEF IInv, TypeOK, IdleCall
<1>9. SourcesKnown'
  BY <1>2, <1>7 DEF IInv, SourcesKnown, Known
<1>10. \A d \in Callers : WriteKnown(d)'
  BY <1>2, <1>4 DEF IInv, WriteKnown, IdleCall
<1> QED BY <1>8, <1>9, <1>10 DEF IInv

LEMMA StutterStep == IInv /\ UNCHANGED vars => IInv'
BY DEF vars, channels, IInv, TypeOK, SourcesKnown, Known, WriteKnown

LEMMA NextInv == IInv /\ [Next]_vars => IInv'
BY MowerStep, ReportStep, CallStep, TakenStep, EndStep, StutterStep DEF Next

-------------------------------------------------------------------------------
(* No confirmed write is reverted.                                          *)

\* Nothing that stands confirmed of some parameters is missing from a set.
Agrees(set, keys) == \A k \in keys : confirmed[k] # None => set[k] = confirmed[k]

\* The parameter of a write that was taken and not yet recorded.
Unrecorded == {call[c].key : c \in {d \in Callers : call[d].at = "taken"}}

\* With prompt reports, what stands confirmed is what the mower holds, every set
\* a write could be based on says it, and so does the write that is out.
\* The write is only as old as the reports it was based on.
Current ==
    /\ Agrees(mower, Keys)
    /\ pending.answers <= answers
    /\ Agrees(Base, Keys \ Unrecorded)
    /\ \A c \in Callers :
        /\ call[c].at = "sent" => /\ call[c].answers = answers
                                  /\ Agrees(call[c].base, Keys)
        /\ call[c].at = "taken" => /\ call[c].answers <= answers
                                   /\ Agrees(Payload(c), Keys)
                                   /\ call[c].answers # answers => Agrees(snapshot, Keys)

PromptInv == reports = "prompt" => Current

\* Where less stands confirmed, a set that agreed still does.
LEMMA FewerAgree ==
    ASSUME NEW set, NEW keys \in SUBSET Keys, Agrees(set, keys),
           \A k \in Keys : confirmed'[k] \in {confirmed[k], None}
    PROVE  \A k \in keys : confirmed'[k] # None => set[k] = confirmed'[k]
BY DEF Agrees

\* The lock lets one write out.
LEMMA OneOut ==
    ASSUME IInv, NEW c \in Callers, call[c].at \in {"sent", "taken"}
    PROVE  \A d \in Callers : call[d].at \in {"sent", "taken"} => d = c
BY DEF IInv, TypeOK

\* Others change the mower: what they changed no longer stands.
LEMMA MowerPrompt ==
    ASSUME IInv, Current,
           (\E k \in Keys, v \in Values : AppWrites(k, v)) \/ StrayArrives \/ MowerAnswers
           \/ AnswerLost \/ PushLost \/ UNCHANGED vars
    PROVE  Current'
<1>1. /\ UNCHANGED <<snapshot, answers, pending, call>>
      /\ Standing \/ UNCHANGED <<mower, confirmed>>
  BY DEF AppWrites, StrayArrives, MowerAnswers, AnswerLost, PushLost, vars
<1>2. UNCHANGED <<Base, Unrecorded>> /\ \A c \in Callers : Payload(c)' = Payload(c)
  BY <1>1 DEF Base, Unrecorded, Payload
<1>3. /\ \A k \in Keys : confirmed'[k] \in {confirmed[k], None}
      /\ \A k \in Keys : confirmed'[k] # None => mower'[k] = mower[k] /\ confirmed'[k] = confirmed[k]
  BY <1>1 DEF Standing
<1>4. Agrees(mower, Keys)'
  BY <1>3 DEF Current, Agrees
<1>5. Agrees(Base, Keys \ Unrecorded)'
  BY <1>2, <1>3, FewerAgree DEF Current, Agrees
<1>6. \A c \in Callers :
          /\ call[c].at = "sent" => Agrees(call[c].base, Keys)'
          /\ call[c].at = "taken" => /\ Agrees(Payload(c), Keys)'
                                     /\ call[c].answers # answers => Agrees(snapshot, Keys)'
  BY <1>1, <1>2, <1>3, FewerAgree DEF Current, Agrees
<1> QED BY <1>1, <1>4, <1>5, <1>6 DEF Current

\* A prompt report leaves the snapshot as the mower is, and any write before it
\* is no base any more.
LEMMA ReportPrompt ==
    ASSUME IInv, Current, reports = "prompt", PushArrives \/ AnswerArrives
    PROVE  Current'
<1>1. PICK row : Merge(row)
  BY DEF PushArrives, AnswerArrives
<1>2. UNCHANGED <<mower, pending, call, confirmed>>
  BY DEF PushArrives, AnswerArrives
<1>3. answers \in Nat /\ pending.answers \in Nat /\ mower \in Sets
      /\ \A c \in Callers : call[c].answers \in Nat
  BY DEF IInv, TypeOK, Calls
<1>4. /\ answers' = answers + 1
      /\ row = mower
      /\ \A c \in Callers : call[c].at # "sent"
      /\ snapshot' = [k \in Keys |-> IF row[k] = None THEN snapshot[k] ELSE row[k]]
  BY <1>1 DEF Merge, Timely, UnderWay
<1>5. \A k \in Keys : snapshot'[k] = mower[k]
  BY <1>3, <1>4, NoneAssumption DEF Sets
<1>6. Agrees(snapshot, Keys)'
  BY <1>2, <1>5 DEF Current, Agrees
<1>7. pending'.answers <= answers' /\ pending'.answers # answers'
  <2>1. pending.answers <= answers
    BY DEF Current
  <2> QED BY <1>2, <1>3, <1>4, <2>1
<1>8. Base' = snapshot'
  BY <1>7 DEF Base
<1>9. \A c \in Callers : call[c].at = "taken" => call[c].answers <= answers'
  <2>1. \A c \in Callers : call[c].at = "taken" => call[c].answers <= answers
    BY DEF Current
  <2> QED BY <1>3, <1>4, <2>1
<1>10. \A c \in Callers : call[c].at = "taken" => Agrees(Payload(c), Keys)'
  BY <1>2 DEF Current, Agrees, Payload
<1>11. Agrees(mower, Keys)' /\ Agrees(Base, Keys \ Unrecorded)'
  BY <1>2, <1>6, <1>8 DEF Current, Agrees
<1> QED BY <1>2, <1>4, <1>6, <1>7, <1>9, <1>10, <1>11 DEF Current

\* A call that sends, and those that do not: the base is chosen when nothing is
\* out, so that all that is confirmed was recorded.
LEMMA CallPrompt ==
    ASSUME IInv, Current, NEW c \in Callers,
           \/ \E k \in Keys, v \in Values : Call(c, k, v)
           \/ Begin(c)
           \/ BeginRefused(c)
    PROVE  Current'
<1>1. UNCHANGED <<mower, snapshot, answers, pending, confirmed>>
  BY DEF Call, Begin, BeginRefused
<1>2. /\ call[c].at \in {"idle", "waiting"} /\ call \in [Callers -> Calls] /\ answers \in Nat
      /\ \A d \in Callers \ {c} : call'[d] = call[d]
      /\ call'[c].at \in {"idle", "waiting"} \/ (Begin(c) /\ call'[c].at = "sent")
  <2>1. call \in [Callers -> Calls] /\ call[c] \in Calls /\ answers \in Nat
    BY DEF IInv, TypeOK
  <2>2. CASE Begin(c)
    BY <2>1, <2>2 DEF Begin, Calls
  <2>3. CASE BeginRefused(c)
    BY <2>1, <2>3 DEF BeginRefused, IdleCall
  <2>4. ASSUME NEW k \in Keys, NEW v \in Values, Call(c, k, v)
        PROVE  /\ call[c].at = "idle"
               /\ \A d \in Callers \ {c} : call'[d] = call[d]
               /\ call'[c].at = "waiting"
    BY <2>1, <2>4 DEF Call, IdleCall
  <2> QED BY <2>1, <2>2, <2>3, <2>4
<1>3. Unrecorded' = Unrecorded
  <2>1. \A d \in Callers : /\ call'[d].at = "taken" <=> call[d].at = "taken"
                           /\ call[d].at = "taken" => call'[d] = call[d]
    BY <1>2
  <2> QED BY <2>1 DEF Unrecorded
<1>4. Base' = Base
  BY <1>1 DEF Base
<1>5. /\ Agrees(mower, Keys)' /\ Agrees(Base, Keys \ Unrecorded)'
      /\ pending'.answers <= answers'
  BY <1>1, <1>3, <1>4 DEF Current, Agrees
<1>6. \A d \in Callers \ {c} :
          /\ call'[d].at = "sent" => /\ call'[d].answers = answers'
                                     /\ Agrees(call[d].base, Keys)'
          /\ call'[d].at = "taken" => /\ call'[d].answers <= answers'
                                      /\ Agrees(Payload(d), Keys)'
                                      /\ call'[d].answers # answers' => Agrees(snapshot, Keys)'
  BY <1>1, <1>2 DEF Current, Agrees, Payload
<1>7. call'[c].at = "sent" => /\ call'[c].answers = answers'
                              /\ Agrees(call[c].base, Keys)'
  <2>1. CASE Begin(c)
    <3>1. lock = None /\ call'[c].base = Base /\ call'[c].answers = answers
      BY <1>2, <2>1 DEF Begin, Calls
    <3>2. \A d \in Callers : call[d].at # "taken"
      BY <3>1, NoneAssumption DEF IInv, TypeOK
    <3>3. Unrecorded = {}
      BY <3>2 DEF Unrecorded
    <3> QED BY <1>1, <3>1, <3>3 DEF Current, Agrees
  <2>2. CASE ~Begin(c)
    <3>1. call'[c].at # "sent"
      BY <1>2, <2>2
    <3> QED BY <3>1
  <2> QED BY <2>1, <2>2
<1> QED BY <1>1, <1>2, <1>5, <1>6, <1>7 DEF Current

\* The mower takes the write: its value stands confirmed beside what it resent.
LEMMA TakenPrompt ==
    ASSUME IInv, Current, NEW c \in Callers, CommandTaken(c)
    PROVE  Current'
<1>1. /\ call[c].at = "sent" /\ call' = [call EXCEPT ![c].at = "taken"]
      /\ UNCHANGED <<snapshot, answers, pending>>
      /\ mower' = [k \in Keys |-> IF Payload(c)[k] = None THEN mower[k] ELSE Payload(c)[k]]
      /\ confirmed' = [k \in Keys |-> IF k = call[c].key THEN call[c].value
                                      ELSE IF mower'[k] = mower[k] THEN confirmed[k] ELSE None]
  BY DEF CommandTaken, Take
<1>2. /\ call \in [Callers -> Calls] /\ call[c] \in Calls /\ answers \in Nat
      /\ call[c].key \in Keys /\ call[c].value \in Values /\ call[c].value # None
  BY <1>1, NoneAssumption DEF IInv, TypeOK, WriteKnown
<1>3. \A k \in Keys : Payload(c)[k] = IF k = call[c].key THEN call[c].value ELSE call[c].base[k]
  BY <1>1, PayloadPartial
<1>4. /\ call'[c].at = "taken" /\ call'[c].base = call[c].base /\ call'[c].key = call[c].key
      /\ call'[c].value = call[c].value /\ call'[c].answers = call[c].answers
      /\ \A d \in Callers \ {c} : call'[d] = call[d] /\ call[d].at \notin {"sent", "taken"}
  <2>1. \A d \in Callers : call[d].at \in {"sent", "taken"} => d = c
    BY <1>1, OneOut
  <2> QED BY <1>1, <1>2, <2>1 DEF Calls
<1>5. call[c].answers = answers /\ Agrees(call[c].base, Keys) /\ Agrees(mower, Keys)
      /\ Agrees(Base, Keys \ Unrecorded) /\ pending.answers <= answers
  BY <1>1 DEF Current
<1>6. Unrecorded = {} /\ Unrecorded' = {call[c].key}
  <2>1. {d \in Callers : call[d].at = "taken"} = {}
    BY <1>1, <1>4
  <2>2. {d \in Callers : call'[d].at = "taken"} = {c}
    BY <1>4
  <2> QED BY <1>4, <2>1, <2>2 DEF Unrecorded
<1>7. Payload(c)' = Payload(c) /\ Base' = Base
  BY <1>1, <1>4 DEF Payload, Base
<1>8. \A k \in Keys : k # call[c].key => confirmed'[k] \in {confirmed[k], None}
  BY <1>1
<1>9. Agrees(Payload(c), Keys)'
  BY <1>1, <1>3, <1>5, <1>7, <1>8 DEF Agrees
<1>10. Agrees(Base, Keys \ Unrecorded)'
  BY <1>5, <1>6, <1>7, <1>8 DEF Agrees
<1>11. Agrees(mower, Keys)'
  <2> SUFFICES ASSUME NEW k \in Keys, confirmed'[k] # None PROVE mower'[k] = confirmed'[k]
    BY DEF Agrees
  <2>1. CASE k = call[c].key
    BY <1>1, <1>2, <1>3, <2>1
  <2>2. CASE k # call[c].key
    BY <1>1, <1>5, <2>2 DEF Agrees
  <2> QED BY <2>1, <2>2
<1>12. call'[c].answers <= answers' /\ call'[c].answers = answers'
  BY <1>1, <1>2, <1>4, <1>5
<1> QED BY <1>1, <1>4, <1>5, <1>9, <1>10, <1>11, <1>12 DEF Current

\* The write ends: recorded, or its parameter stands confirmed no more.
LEMMA EndPrompt ==
    ASSUME IInv, Current, NEW c \in Callers, Confirmed(c) \/ Unconfirmed(c)
    PROVE  Current'
<1>1. call[c].at \in {"sent", "taken"} /\ EndCall(c)
  BY DEF Confirmed, Unconfirmed
<1>2. /\ call' = [call EXCEPT ![c] = IdleCall] /\ UNCHANGED <<mower, snapshot, answers>>
      /\ call \in [Callers -> Calls] /\ confirmed \in Partial
  BY <1>1 DEF EndCall, IInv, TypeOK
<1>3. \A d \in Callers : call'[d].at \notin {"sent", "taken"}
  <2>1. \A d \in Callers : call[d].at \in {"sent", "taken"} => d = c
    BY <1>1, OneOut
  <2> QED BY <1>2, <2>1 DEF IdleCall
<1>4. Unrecorded' = {}
  BY <1>3 DEF Unrecorded
<1>5. CASE Confirmed(c)
  <2>1. /\ call[c].at = "taken" /\ confirmed' = confirmed
        /\ pending' = [raw |-> Payload(c), answers |-> call[c].answers]
    BY <1>5 DEF Confirmed
  <2>2. /\ call[c].answers <= answers /\ Agrees(Payload(c), Keys)
        /\ call[c].answers # answers => Agrees(snapshot, Keys)
    BY <2>1 DEF Current
  <2>3. Payload(c) # NoSet
    <3>1. Payload(c)[call[c].key] = call[c].value /\ call[c].key \in Keys /\ call[c].value # None
      BY <1>1, PayloadPartial, NoneAssumption DEF IInv, WriteKnown
    <3> QED BY <3>1 DEF NoSet
  <2>4. Base' = IF call[c].answers = answers THEN Payload(c) ELSE snapshot
    BY <1>2, <2>1, <2>3 DEF Base
  <2>5. \A k \in Keys : confirmed[k] # None => Base'[k] = confirmed[k]
    BY <2>2, <2>4 DEF Agrees
  <2>6. pending'.answers <= answers'
    BY <1>2, <2>1, <2>2
  <2> QED BY <1>2, <1>3, <2>1, <2>5, <2>6 DEF Current, Agrees
<1>6. CASE Unconfirmed(c)
  <2>1. confirmed' = [confirmed EXCEPT ![call[c].key] = None] /\ pending' = pending
    BY <1>6 DEF Unconfirmed
  <2>2. /\ \A k \in Keys : confirmed'[k] \in {confirmed[k], None}
        /\ call[c].key \in Keys => confirmed'[call[c].key] = None
    BY <1>2, <2>1 DEF Partial
  <2>3. Base' = Base
    BY <1>2, <2>1 DEF Base
  <2>4. Unrecorded \subseteq {call[c].key} /\ call[c].key \in Keys
    <3>1. \A d \in Callers : call[d].at \in {"sent", "taken"} => d = c
      BY <1>1, OneOut
    <3> QED BY <1>1, <3>1 DEF Unrecorded, IInv, WriteKnown
  <2>5. Agrees(Base, Keys \ Unrecorded)'
    BY <2>2, <2>3, <2>4 DEF Current, Agrees
  <2>6. Agrees(mower, Keys)' /\ pending'.answers <= answers'
    BY <1>2, <2>1, <2>2 DEF Current, Agrees
  <2> QED BY <1>3, <2>5, <2>6 DEF Current
<1> QED BY <1>5, <1>6

\* Prompt reporting stays prompt, and what is confirmed stays current.
LEMMA NextPrompt == IInv /\ PromptInv /\ [Next]_vars => PromptInv'
<1> SUFFICES ASSUME IInv, PromptInv, [Next]_vars, reports' = "prompt" PROVE Current'
  BY DEF PromptInv
<1>1. reports' = reports
  BY DEF Next, AppWrites, StrayArrives, MowerAnswers, PushArrives, AnswerArrives, AnswerLost,
         PushLost, Call, Begin, BeginRefused, CommandTaken, Confirmed, Unconfirmed, EndCall,
         vars, channels
<1>2. Current /\ reports = "prompt"
  BY <1>1 DEF PromptInv
<1> QED BY <1>2, MowerPrompt, ReportPrompt, CallPrompt, TakenPrompt, EndPrompt DEF Next

\* Nothing stands confirmed at first.
LEMMA InitPrompt == Init => PromptInv
<1> SUFFICES ASSUME Init PROVE Current
  BY DEF PromptInv
<1>1. \A k \in Keys : confirmed[k] = None
  BY DEF Init, NoSet
<1>2. \A c \in Callers : call[c].at = "idle"
  BY DEF Init, IdleCall
<1>3. pending.answers <= answers
  BY DEF Init
<1> QED BY <1>1, <1>2, <1>3 DEF Current, Agrees

-------------------------------------------------------------------------------
(* The theorems.                                                            *)

\* Every variable keeps its type, and the lock is held exactly while a write is
\* out (area_numbers.py _PendingAreaWrite.lock).
THEOREM TypeCorrect == Spec => []TypeOK
<1>1. IInv => TypeOK
  BY DEF IInv
<1> QED BY <1>1, InitInv, NextInv, PTL DEF Spec

\* A write resends of the other parameters only what the mower has held, whatever
\* is pushed, answered, lost, refused or carried out late (area_numbers.py
\* async_set_native_value).
THEOREM OnlyTakenResent == Spec => []OnlyTakenIsResent
<1>1. IInv => OnlyTakenIsResent
  BY DEF IInv, WriteKnown, OnlyTakenIsResent
<1> QED BY <1>1, InitInv, NextInv, PTL DEF Spec

\* While reports are prompt, no confirmed write is reverted by a later one to
\* another parameter, however the callers' writes, the app's, the pushes and the
\* refreshes cross, and whichever confirmations are lost (_PendingAreaWrite).
THEOREM WritesAreKept == Spec => NoLostUpdate
<1>1. Init => IInv /\ PromptInv
  BY InitInv, InitPrompt
<1>2. IInv /\ PromptInv /\ [Next]_vars => IInv' /\ PromptInv'
  BY NextInv, NextPrompt
<1>3. IInv /\ PromptInv =>
          (reports = "prompt" => \A c \in Callers : CommandTaken(c) => ~Reverts(c))
  <2> SUFFICES ASSUME IInv, Current, NEW c \in Callers, CommandTaken(c) PROVE ~Reverts(c)
    BY DEF PromptInv
  <2>1. call[c].at = "sent"
    BY DEF CommandTaken
  <2>2. \A k \in Keys \ {call[c].key} : Payload(c)[k] = call[c].base[k]
    BY <2>1, PayloadPartial
  <2> QED BY <2>1, <2>2 DEF Current, Agrees, Reverts
<1> QED BY <1>1, <1>2, <1>3, PTL DEF Spec, NoLostUpdate

-------------------------------------------------------------------------------
(* RainSetting: for any delays, either entity or both, any number of changes. *)

RainWrites == [at : {"idle", "sent", "taken"}, pair : Pairs \cup {Nothing}]

\* TypeOK, and the types it leaves to the shape of the model.
RainTyped ==
    /\ RainTypeOK
    /\ tasks \in [Entities -> Seq(Events)]
    /\ kept \in [Entities -> Events \cup {Nothing}]
    /\ write \in [Entities -> RainWrites]
    /\ had \in [on : SUBSET BOOLEAN, hold : SUBSET Holds]

\* What a report says, the mower has held.
Had(report) ==
    /\ report.on = Absent \/ report.on \in had.on
    /\ report.hold = Absent \/ report.hold \in had.hold

\* So it is with every report, wherever it is on its way, and with what the
\* entities hold.
ReportsHad ==
    /\ setting.on \in had.on /\ setting.hold \in had.hold
    /\ rainPush # Absent => Had(rainPush)
    /\ rainReply # Absent => Had(rainReply)
    /\ rainRefresh = "answered" => rainReply # Absent
    /\ lastEvent # Absent => Had(lastEvent)
    /\ \A e \in Entities : Had(kept[e])
    /\ \A e \in Entities : \A i \in DOMAIN tasks[e] : Had(tasks[e][i])

RainInv == RainTyped /\ ReportsHad /\ OnlyReportedIsResent

-------------------------------------------------------------------------------

LEMMA AbsentApart == Absent \notin BOOLEAN /\ Absent \notin Holds
BY AbsentAssumption

LEMMA RainInitInv == RainInit => RainInv
<1> SUFFICES ASSUME RainInit PROVE RainInv
  OBVIOUS
<1> USE DEF RainInit
<1>1. \A e \in Entities : tasks[e] = <<>> /\ Len(tasks[e]) <= MaxTasks /\ kept[e] = Nothing
  BY RainBoundsAssumption
<1>2. Idle \in RainWrites
  BY DEF Idle, RainWrites
<1>3. RainTypeOK
  BY <1>1 DEF RainTypeOK
<1>4. RainTyped
  BY <1>2, <1>3, EmptySeq DEF RainTyped, Pairs
<1>5. ReportsHad
  BY <1>1 DEF ReportsHad, Had, Nothing
<1>6. OnlyReportedIsResent
  BY DEF OnlyReportedIsResent, Idle
<1> QED BY <1>4, <1>5, <1>6 DEF RainInv

\* The mower takes a pair: it has held it, and what it pushes says no more.
LEMMA RainTakes ==
    ASSUME RainInv, NEW pair \in Pairs, TakePair(pair)
    PROVE  /\ setting' = pair /\ owed' = FALSE
           /\ had' \in [on : SUBSET BOOLEAN, hold : SUBSET Holds]
           /\ had.on \subseteq had'.on /\ had.hold \subseteq had'.hold
           /\ pair.on \in had'.on /\ pair.hold \in had'.hold
           /\ rainPush' \in RainReports \cup {Absent}
           /\ rainPush' # Absent => Had(rainPush)'
<1>1. /\ setting' = pair /\ owed' = FALSE
      /\ had' = [on |-> had.on \cup {pair.on}, hold |-> had.hold \cup {pair.hold}]
      /\ rainPush' = rainPush \/ rainPush' \in Readings(pair)
  BY DEF TakePair
<1>2. had \in [on : SUBSET BOOLEAN, hold : SUBSET Holds] /\ rainPush \in RainReports \cup {Absent}
  BY DEF RainInv, RainTyped, RainTypeOK
<1>3. /\ had' \in [on : SUBSET BOOLEAN, hold : SUBSET Holds]
      /\ had.on \subseteq had'.on /\ had.hold \subseteq had'.hold
      /\ pair.on \in had'.on /\ pair.hold \in had'.hold
  BY <1>1, <1>2 DEF Pairs
<1>4. CASE rainPush' = rainPush
  BY <1>1, <1>2, <1>3, <1>4 DEF RainInv, ReportsHad, Had
<1>5. CASE rainPush' \in Readings(pair)
  <2>1. /\ rainPush' \in RainReports
        /\ rainPush'.on \in {pair.on, Absent} /\ rainPush'.hold \in {pair.hold, Absent}
    BY <1>5 DEF Readings, Pairs, RainReports
  <2>2. Had(rainPush)'
    BY <2>1, <1>3 DEF Had
  <2> QED BY <1>1, <1>3, <2>1, <2>2
<1> QED BY <1>1, <1>4, <1>5

\* An event handed to the bus, for the entities that are added.
LEMMA EventHandled ==
    ASSUME RainInv, NEW report \in RainReports, Had(report), Handle(report), had' = had
    PROVE  /\ lastEvent' \in Events \cup {Absent}
           /\ lastEvent' # Absent => Had(lastEvent)'
           /\ tasks' \in [Entities -> Seq(Events)]
           /\ \A e \in Entities : Len(tasks'[e]) <= MaxTasks
           /\ \A e \in Entities : \A i \in DOMAIN tasks'[e] : Had(tasks[e][i])'
<1>1. /\ tasks \in [Entities -> Seq(Events)] /\ lastEvent \in Events \cup {Absent}
      /\ lastEvent # Absent => Had(lastEvent)
      /\ \A e \in Entities : \A i \in DOMAIN tasks[e] : Had(tasks[e][i])
      /\ \A e \in Entities : Len(tasks[e]) <= MaxTasks
  BY DEF RainInv, RainTyped, RainTypeOK, ReportsHad
<1>2. CASE lastEvent' = lastEvent /\ tasks' = tasks
  BY <1>1, <1>2 DEF Had
<1>3. CASE /\ report.on # Absent /\ lastEvent' = report
           /\ tasks' = [e \in Entities |-> IF e \in added THEN Append(tasks[e], report) ELSE <<>>]
  <2>1. report \in Events
    BY <1>3 DEF RainReports, Events
  <2>2. \A e \in Entities : Len(tasks[e]) < MaxTasks
    BY DEF Handle
  <2>3. ASSUME NEW e \in Entities
        PROVE  /\ tasks'[e] \in Seq(Events) /\ Len(tasks'[e]) <= MaxTasks
               /\ \A i \in DOMAIN tasks'[e] : Had(tasks[e][i])'
    <3>1. CASE e \notin added
      BY <1>3, <3>1, RainBoundsAssumption
    <3>2. CASE e \in added
      <4>1. tasks'[e] = Append(tasks[e], report) /\ tasks[e] \in Seq(Events)
        BY <1>1, <1>3, <3>2
      <4>2. /\ tasks'[e] \in Seq(Events) /\ Len(tasks'[e]) = Len(tasks[e]) + 1
            /\ \A i \in 1..Len(tasks[e]) : tasks'[e][i] = tasks[e][i]
            /\ tasks'[e][Len(tasks[e]) + 1] = report
        BY <4>1, <2>1, AppendProperties
      <4>3. Len(tasks[e]) \in Nat /\ DOMAIN tasks[e] = 1..Len(tasks[e])
            /\ DOMAIN tasks'[e] = 1..Len(tasks[e]) + 1
        BY <4>1, <4>2, LenProperties
      <4>4. \A i \in DOMAIN tasks'[e] : i \in DOMAIN tasks[e] \/ i = Len(tasks[e]) + 1
        BY <4>3
      <4>5. \A i \in DOMAIN tasks'[e] : Had(tasks[e][i])'
        BY <1>1, <4>2, <4>3, <4>4 DEF Had
      <4>6. Len(tasks'[e]) <= MaxTasks
        BY <2>2, <4>2, <4>3, RainBoundsAssumption
      <4> QED BY <4>2, <4>5, <4>6
    <3> QED BY <3>1, <3>2
  <2>4. tasks' \in [Entities -> Seq(Events)]
    BY <1>3, <2>3
  <2> QED BY <1>3, <2>1, <2>3, <2>4 DEF Had
<1> QED BY <1>2, <1>3 DEF Handle, Notify

\* What was held stays held: a write that was sent goes on carrying no other.
LEMMA RainWritesStay ==
    ASSUME RainInv, write' = write, had.on \subseteq had'.on, had.hold \subseteq had'.hold
    PROVE  OnlyReportedIsResent'
BY DEF RainInv, OnlyReportedIsResent, Other

-------------------------------------------------------------------------------

LEMMA SettingStep ==
    ASSUME RainInv, (\E pair \in Pairs : AppChanges(pair)) \/ StrayTaken
    PROVE  RainInv'
<1>1. PICK pair \in Pairs : TakePair(pair)
  BY DEF AppChanges, StrayTaken, RainInv, RainTyped, RainTypeOK
<1>2. /\ strayPair' \in {strayPair, Absent}
      /\ UNCHANGED <<rainRefresh, rainReply, lastEvent, tasks, kept, added, write>>
  BY DEF AppChanges, StrayTaken
<1>3. /\ setting' = pair /\ owed' = FALSE
      /\ had' \in [on : SUBSET BOOLEAN, hold : SUBSET Holds]
      /\ had.on \subseteq had'.on /\ had.hold \subseteq had'.hold
      /\ pair.on \in had'.on /\ pair.hold \in had'.hold
      /\ rainPush' \in RainReports \cup {Absent}
      /\ rainPush' # Absent => Had(rainPush)'
  BY <1>1, RainTakes
<1>4. RainTyped'
  BY <1>2, <1>3 DEF RainInv, RainTyped, RainTypeOK
<1>5. ReportsHad'
  BY <1>2, <1>3 DEF RainInv, ReportsHad, Had
<1>6. OnlyReportedIsResent'
  BY <1>2, <1>3, RainWritesStay
<1> QED BY <1>4, <1>5, <1>6 DEF RainInv

LEMMA RainAnswerStep ==
    ASSUME RainInv, RainAnswered \/ RainAnswerLost
    PROVE  RainInv'
<1>1. UNCHANGED <<setting, rainPush, strayPair, lastEvent, tasks, kept, added, write, had>>
  BY DEF RainAnswered, RainAnswerLost
<1>2. /\ rainReply' \in RainReports \cup {Absent}
      /\ rainReply' # Absent => Had(rainReply)'
      /\ rainRefresh' = "answered" => rainReply' # Absent
  <2>1. CASE RainAnswered
    <3>1. setting \in Pairs /\ rainReply' \in Readings(setting)
      BY <2>1 DEF RainAnswered, RainInv, RainTyped, RainTypeOK
    <3>2. /\ rainReply' \in RainReports
          /\ rainReply'.on \in {setting.on, Absent} /\ rainReply'.hold \in {setting.hold, Absent}
      BY <3>1 DEF Readings, Pairs, RainReports
    <3> QED BY <1>1, <3>2, RainReportsAssumption DEF RainInv, ReportsHad, Had
  <2>2. CASE RainAnswerLost
    BY <2>2 DEF RainAnswerLost
  <2> QED BY <2>1, <2>2
<1>3. rainRefresh' \in {"none", "asked", "answered"} /\ owed' \in BOOLEAN
  BY DEF RainAnswered, RainAnswerLost, RainInv, RainTyped, RainTypeOK
<1>4. RainTyped'
  BY <1>1, <1>2, <1>3 DEF RainInv, RainTyped, RainTypeOK
<1>5. ReportsHad'
  BY <1>1, <1>2 DEF RainInv, ReportsHad, Had
<1>6. OnlyReportedIsResent'
  BY <1>1, RainWritesStay
<1> QED BY <1>4, <1>5, <1>6 DEF RainInv

LEMMA RainReportStep ==
    ASSUME RainInv, RainPushArrives \/ RainAnswerArrives
    PROVE  RainInv'
<1>1. UNCHANGED <<setting, strayPair, kept, added, write, had>>
  BY DEF RainPushArrives, RainAnswerArrives
<1>2. PICK report \in RainReports : Had(report) /\ Handle(report)
  <2>1. CASE RainPushArrives
    BY <2>1 DEF RainPushArrives, RainInv, RainTyped, RainTypeOK, ReportsHad
  <2>2. CASE RainAnswerArrives
    <3>1. rainReply # Absent
      BY <2>2 DEF RainAnswerArrives, RainInv, ReportsHad
    <3> QED BY <2>2, <3>1 DEF RainAnswerArrives, RainInv, RainTyped, RainTypeOK, ReportsHad
  <2> QED BY <2>1, <2>2
<1>3. /\ lastEvent' \in Events \cup {Absent}
      /\ lastEvent' # Absent => Had(lastEvent)'
      /\ tasks' \in [Entities -> Seq(Events)]
      /\ \A e \in Entities : Len(tasks'[e]) <= MaxTasks
      /\ \A e \in Entities : \A i \in DOMAIN tasks'[e] : Had(tasks[e][i])'
  BY <1>1, <1>2, EventHandled
<1>4. /\ rainPush' \in {rainPush, Absent} /\ rainReply' \in {rainReply, Absent}
      /\ rainRefresh' \in {rainRefresh, "none"} /\ owed' \in BOOLEAN
      /\ rainRefresh' = "answered" => rainReply' = rainReply
  BY DEF RainPushArrives, RainAnswerArrives, RainInv, RainTyped, RainTypeOK
<1>5. RainTyped'
  BY <1>1, <1>3, <1>4 DEF RainInv, RainTyped, RainTypeOK
<1>6. ReportsHad'
  BY <1>1, <1>3, <1>4 DEF RainInv, ReportsHad, Had
<1>7. OnlyReportedIsResent'
  BY <1>1, RainWritesStay
<1> QED BY <1>5, <1>6, <1>7 DEF RainInv

\* An entity is added and replayed the last event, or sees its next one.
LEMMA EventStep ==
    ASSUME RainInv, NEW e \in Entities, AddEntity(e) \/ OnEvent(e)
    PROVE  RainInv'
<1>1. /\ UNCHANGED <<setting, rainPush, rainReply, strayPair, lastEvent, write, had, owed>>
      /\ rainRefresh' \in {rainRefresh, "asked"} /\ (rainRefresh # "none" => rainRefresh' = rainRefresh)
      /\ added' \subseteq Entities
  BY DEF AddEntity, OnEvent, wire, Ask, RainInv, RainTyped, RainTypeOK
<1>2. /\ tasks \in [Entities -> Seq(Events)] /\ kept \in [Entities -> Events \cup {Nothing}]
      /\ \A d \in Entities : Len(tasks[d]) <= MaxTasks /\ Had(kept[d])
      /\ \A d \in Entities : \A i \in DOMAIN tasks[d] : Had(tasks[d][i])
      /\ lastEvent \in Events \cup {Absent} /\ (lastEvent # Absent => Had(lastEvent))
  BY DEF RainInv, RainTyped, RainTypeOK, ReportsHad
<1>3. PICK q \in Seq(Events) : /\ tasks' = [tasks EXCEPT ![e] = q]
                              /\ Len(q) <= MaxTasks
                              /\ \A i \in DOMAIN q : Had(q[i])
  <2>1. CASE AddEntity(e) /\ lastEvent = Absent
    <3>1. Len(<<>>) <= MaxTasks
      BY RainBoundsAssumption
    <3>2. tasks' = [tasks EXCEPT ![e] = <<>>] /\ kept' = kept
      BY <2>1 DEF AddEntity
    <3> WITNESS <<>> \in Seq(Events)
    <3> QED BY <3>1, <3>2, <1>2
  <2>2. CASE AddEntity(e) /\ lastEvent # Absent
    <3>1. /\ <<lastEvent>> \in Seq(Events) /\ Len(<<lastEvent>>) = 1
          /\ DOMAIN <<lastEvent>> = {1} /\ <<lastEvent>>[1] = lastEvent
      BY <2>2, <1>2
    <3>2. Len(<<lastEvent>>) <= MaxTasks
      BY <3>1, RainBoundsAssumption
    <3>3. /\ tasks' = [tasks EXCEPT ![e] = <<lastEvent>>] /\ kept' = kept
          /\ \A i \in DOMAIN <<lastEvent>> : Had(<<lastEvent>>[i])
      BY <2>2, <3>1, <1>2 DEF AddEntity
    <3> QED BY <3>1, <3>2, <3>3, <1>2
  <2>3. CASE OnEvent(e)
    <3> DEFINE s == tasks[e]
    <3>1. /\ s # <<>> /\ s \in Seq(Events)
          /\ tasks' = [tasks EXCEPT ![e] = Tail(s)]
          /\ kept' = [kept EXCEPT ![e] = Head(s)]
      BY <2>3, <1>2 DEF OnEvent
    <3>2. /\ Head(s) \in Events /\ Tail(s) \in Seq(Events) /\ Len(Tail(s)) = Len(s) - 1
          /\ \A i \in 1..Len(Tail(s)) : Tail(s)[i] = s[i + 1]
      BY <3>1, HeadTailProperties
    <3>3. /\ DOMAIN s = 1..Len(s) /\ Len(s) \in Nat \ {0} /\ Head(s) = s[1]
          /\ DOMAIN Tail(s) = 1..Len(Tail(s))
      BY <3>1, <3>2, LenProperties, EmptySeq
    <3>4. \A i \in DOMAIN s : Had(s[i])
      BY <1>2
    <3>5. Had(Head(s)) /\ \A i \in DOMAIN Tail(s) : Had(Tail(s)[i])
      <4>1. 1 \in DOMAIN s /\ \A i \in DOMAIN Tail(s) : i + 1 \in DOMAIN s
        BY <3>2, <3>3
      <4> QED BY <4>1, <3>2, <3>3, <3>4
    <3>6. Len(Tail(s)) <= MaxTasks
      BY <1>2, <3>2, <3>3, RainBoundsAssumption
    <3> QED BY <3>1, <3>2, <3>5, <3>6
  <2> QED BY <2>1, <2>2, <2>3
<1>4. /\ tasks' \in [Entities -> Seq(Events)]
      /\ \A d \in Entities : tasks'[d] = IF d = e THEN q ELSE tasks[d]
  BY <1>2, <1>3
<1>5. /\ kept' \in [Entities -> Events \cup {Nothing}]
      /\ \A d \in Entities : Had(kept'[d])
  <2>1. CASE AddEntity(e)
    BY <2>1, <1>2 DEF AddEntity
  <2>2. CASE OnEvent(e)
    <3>1. /\ tasks[e] \in Seq(Events) /\ tasks[e] # <<>>
          /\ kept' = [kept EXCEPT ![e] = Head(tasks[e])]
      BY <2>2, <1>2 DEF OnEvent
    <3>2. Head(tasks[e]) \in Events
      BY <3>1, HeadTailProperties
    <3>3. Had(Head(tasks[e]))
      <4>1. 1 \in DOMAIN tasks[e] /\ Head(tasks[e]) = tasks[e][1]
        BY <3>1, LenProperties, EmptySeq
      <4> QED BY <4>1, <1>2
    <3> QED BY <3>1, <3>2, <3>3, <1>2
  <2> QED BY <2>1, <2>2
<1>6. RainTyped'
  <2>1. \A d \in Entities : Len(tasks'[d]) <= MaxTasks
    BY <1>2, <1>3, <1>4
  <2>2. \A d \in Entities : kept'[d] \in Events \cup {Nothing}
    BY <1>5
  <2>3. RainTypeOK'
    BY <1>1, <2>1, <2>2 DEF RainInv, RainTyped, RainTypeOK
  <2>4. /\ write' \in [Entities -> RainWrites]
        /\ had' \in [on : SUBSET BOOLEAN, hold : SUBSET Holds]
    BY <1>1 DEF RainInv, RainTyped
  <2>5. tasks' \in [Entities -> Seq(Events)]
    BY <1>4
  <2>6. kept' \in [Entities -> Events \cup {Nothing}]
    BY <1>5
  <2> QED BY <2>3, <2>4, <2>5, <2>6 DEF RainTyped
<1>7. ReportsHad'
  <2>1. \A d \in Entities : \A i \in DOMAIN tasks'[d] : Had(tasks'[d][i])
    BY <1>2, <1>3, <1>4
  <2>2. rainRefresh' = "answered" => rainRefresh = "answered"
    BY <1>1
  <2>3. \A d \in Entities : Had(kept[d])'
    BY <1>1, <1>5 DEF Had
  <2>4. \A d \in Entities : \A i \in DOMAIN tasks'[d] : Had(tasks[d][i])'
    BY <1>1, <2>1 DEF Had
  <2> QED BY <1>1, <2>2, <2>3, <2>4 DEF RainInv, ReportsHad, Had
<1>8. OnlyReportedIsResent'
  BY <1>1, RainWritesStay
<1> QED BY <1>6, <1>7, <1>8 DEF RainInv

\* A write sends the half that the entity does not own as it was reported.
LEMMA SetStep ==
    ASSUME RainInv, NEW e \in Entities, NEW half \in Halves(e), Set(e, half)
    PROVE  RainInv'
<1>1. /\ Sent(e, half) \in Pairs
      /\ write' = [write EXCEPT ![e] = [at |-> "sent", pair |-> Sent(e, half)]]
      /\ UNCHANGED <<setting, wire, lastEvent, tasks, kept, added, had, owed>>
  BY DEF Set
<1>2. /\ write' \in [Entities -> RainWrites]
      /\ write'[e] = [at |-> "sent", pair |-> Sent(e, half)]
      /\ \A d \in Entities \ {e} : write'[d] = write[d]
  BY <1>1 DEF RainInv, RainTyped, RainWrites
<1>3. Other(e, Sent(e, half)) \in (IF e = "switch" THEN had.hold ELSE had.on)
  BY <1>1, AbsentApart DEF Other, Sent, Pairs, RainInv, ReportsHad, Had
<1>4. RainTyped'
  BY <1>1, <1>2 DEF RainInv, RainTyped, RainTypeOK, wire
<1>5. ReportsHad'
  BY <1>1 DEF RainInv, ReportsHad, Had, wire
<1>6. OnlyReportedIsResent'
  BY <1>1, <1>2, <1>3 DEF RainInv, OnlyReportedIsResent, Other
<1> QED BY <1>4, <1>5, <1>6 DEF RainInv

LEMMA RainTakenStep ==
    ASSUME RainInv, NEW e \in Entities, Taken(e)
    PROVE  RainInv'
<1>1. write[e].at = "sent" /\ write[e].pair \in Pairs /\ TakePair(write[e].pair)
  BY DEF Taken, RainInv, RainTyped, RainTypeOK, Idle
<1>2. /\ setting' = write[e].pair /\ owed' = FALSE
      /\ had' \in [on : SUBSET BOOLEAN, hold : SUBSET Holds]
      /\ had.on \subseteq had'.on /\ had.hold \subseteq had'.hold
      /\ write[e].pair.on \in had'.on /\ write[e].pair.hold \in had'.hold
      /\ rainPush' \in RainReports \cup {Absent}
      /\ rainPush' # Absent => Had(rainPush)'
  BY <1>1, RainTakes
<1>3. /\ write' \in [Entities -> RainWrites]
      /\ write'[e].at = "taken" /\ write'[e].pair = write[e].pair
      /\ \A d \in Entities \ {e} : write'[d] = write[d]
  BY <1>1 DEF Taken, RainInv, RainTyped, RainWrites
<1>4. UNCHANGED <<rainRefresh, rainReply, strayPair, lastEvent, tasks, kept, added>>
  BY DEF Taken
<1>5. RainTyped'
  BY <1>1, <1>2, <1>3, <1>4 DEF RainInv, RainTyped, RainTypeOK
<1>6. ReportsHad'
  BY <1>2, <1>4 DEF RainInv, ReportsHad, Had
<1>7. OnlyReportedIsResent'
  BY <1>1, <1>2, <1>3 DEF RainInv, OnlyReportedIsResent, Other
<1> QED BY <1>5, <1>6, <1>7 DEF RainInv

LEMMA RainEndStep ==
    ASSUME RainInv, NEW e \in Entities, EndSet(e)
    PROVE  RainInv'
<1>1. /\ write' = [write EXCEPT ![e] = Idle]
      /\ strayPair' \in {strayPair} \cup {write[e].pair} /\ write[e].pair \in Pairs
      /\ rainRefresh' \in {rainRefresh, "asked"} /\ (rainRefresh # "none" => rainRefresh' = rainRefresh)
      /\ UNCHANGED <<setting, rainPush, rainReply, lastEvent, tasks, kept, added, had>>
  BY DEF EndSet, Ask, RainInv, RainTyped, RainTypeOK, Idle
<1>2. /\ write' \in [Entities -> RainWrites] /\ write'[e] = Idle
      /\ \A d \in Entities \ {e} : write'[d] = write[d]
  BY <1>1 DEF RainInv, RainTyped, RainWrites, Idle
<1>3. owed' \in BOOLEAN
  BY DEF EndSet, RainInv, RainTyped, RainTypeOK
<1>4. RainTyped'
  BY <1>1, <1>2, <1>3 DEF RainInv, RainTyped, RainTypeOK
<1>5. ReportsHad'
  BY <1>1 DEF RainInv, ReportsHad, Had
<1>6. OnlyReportedIsResent'
  BY <1>1, <1>2 DEF RainInv, OnlyReportedIsResent, Other, Idle
<1> QED BY <1>4, <1>5, <1>6 DEF RainInv

LEMMA RainStutter == RainInv /\ UNCHANGED rainVars => RainInv'
<1> SUFFICES ASSUME RainInv, UNCHANGED rainVars PROVE RainInv'
  OBVIOUS
<1>1. RainTyped'
  BY DEF rainVars, wire, RainInv, RainTyped, RainTypeOK
<1>2. ReportsHad'
  BY DEF rainVars, wire, RainInv, ReportsHad, Had
<1>3. OnlyReportedIsResent'
  BY DEF rainVars, RainInv, OnlyReportedIsResent, Other
<1> QED BY <1>1, <1>2, <1>3 DEF RainInv

LEMMA RainNextInv == RainInv /\ [RainNext]_rainVars => RainInv'
BY SettingStep, RainAnswerStep, RainReportStep, EventStep, SetStep, RainTakenStep, RainEndStep, RainStutter
   DEF RainNext

-------------------------------------------------------------------------------
(* The theorems about the pair.                                             *)

\* Every variable keeps its type, and what is on its way to the mower is a whole
\* pair (switch.py _set, number.py async_set_native_value).
THEOREM RainTypeCorrect == RainSpec => []RainTypeOK
<1>1. RainInv => RainTypeOK
  BY DEF RainInv, RainTyped
<1> QED BY <1>1, RainInitInv, RainNextInv, PTL DEF RainSpec

\* No write carries a half that the mower never held, whatever was lost, late or
\* unreadable, and however many writes and changes there were.
THEOREM OnlyReportedResent == RainSpec => []OnlyReportedIsResent
<1>1. RainInv => OnlyReportedIsResent
  BY DEF RainInv
<1> QED BY <1>1, RainInitInv, RainNextInv, PTL DEF RainSpec

===============================================================================
