------------------------------- MODULE AreaWrite -------------------------------
(***************************************************************************)
(* Writing one area's parameters (area_numbers.py, areas.py).              *)
(*                                                                         *)
(* Each parameter is a number entity; the mower only takes an area's whole *)
(* set.  A write therefore merges its one change into what is known of the *)
(* others: the reported snapshot, or the last confirmed write while the    *)
(* mower has reported nothing since.  The lock serializes an area's        *)
(* writes, and they still cross what comes back: pushes, the answers to    *)
(* refreshes, and confirmations, each of which may be late or lost.        *)
(***************************************************************************)
EXTENDS Naturals, Sequences

CONSTANTS Keys,       \* the parameters of the area, all mapped by the model
          Values,     \* their raw values
          Callers,    \* concurrent set-value service calls
          None,       \* not reported, not written, nobody
          Reports,    \* the kinds of reporting looked at
          MaxAnswers, \* bound on the reports handled, for model checking only
          MaxCalls    \* bound on the service calls, for model checking only

ASSUME NoneAssumption == None \notin Values \cup Callers \cup Keys
\* A push may leave out a parameter ("partial") or names them all ("whole"); or
\* any report is whole, is the mower's state as it arrives, and arrives while no
\* write is under way ("prompt").
ASSUME ReportsAssumption == Reports \subseteq {"partial", "whole", "prompt"}
ASSUME BoundsAssumption == MaxAnswers \in Nat /\ MaxCalls \in Nat

Sets == [Keys -> Values]
Partial == [Keys -> Values \cup {None}]
NoSet == [k \in Keys |-> None]

VARIABLES
    reports,   \* the kind of reporting
    mower,     \* what the mower holds
    snapshot,  \* the area's parameters in _AREA_STATE
    answers,   \* parameter_answers
    pending,   \* _PendingAreaWrite: raw_values and answers
    lock,      \* who holds its lock
    call,      \* per caller: where it is, and the write it makes
    push,      \* the onAreaParameter push on its way
    refresh,   \* the refresh: "none", "asked", "answered"
    reply,     \* the answer on its way
    stray,     \* a command that timed out and may still reach the mower
    calls,     \* how many calls were made
    held,      \* history: every value the mower has held
    confirmed  \* history: the values of writes that still stand, unless the
               \* write ended unconfirmed

channels == <<reports, push, refresh, reply, stray>>
vars == <<mower, snapshot, answers, pending, lock, call, channels, calls, held, confirmed>>

IdleCall == [at |-> "idle", key |-> None, value |-> None, base |-> NoSet, answers |-> 0]

Init ==
    /\ reports \in Reports
    /\ mower \in Sets
    /\ snapshot = NoSet
    /\ answers = 0
    /\ pending = [raw |-> NoSet, answers |-> 0]
    /\ lock = None
    /\ call = [c \in Callers |-> IdleCall]
    /\ push = NoSet
    /\ refresh = "asked"
    /\ reply = NoSet
    /\ stray = NoSet
    /\ calls = 0
    /\ held = [k \in Keys |-> {mower[k]}]
    /\ confirmed = NoSet

-------------------------------------------------------------------------------
(* The mower.                                                               *)

\* It takes a set, keeps what the set does not name, and pushes the result,
\* perhaps without one of the keys; the push may be lost.
Take(set) ==
    LET new == [k \in Keys |-> IF set[k] = None THEN mower[k] ELSE set[k]]
        rows == {new} \cup IF reports = "partial" THEN {[new EXCEPT ![k] = None] : k \in Keys} ELSE {}
    IN  /\ mower' = new
        /\ held' = [k \in Keys |-> held[k] \cup {new[k]}]
        /\ push' \in {push} \cup (IF push = NoSet THEN rows ELSE {})

\* The confirmed values that stand after somebody else's change.
Standing == confirmed' = [k \in Keys |-> IF mower'[k] = mower[k] THEN confirmed[k] ELSE None]

AppWrites(k, v) ==
    /\ v # mower[k]
    /\ Take([NoSet EXCEPT ![k] = v])
    /\ Standing
    /\ UNCHANGED <<snapshot, answers, pending, lock, call, reports, refresh, reply, stray, calls>>

\* A command that was given up on is carried out after all.
StrayArrives ==
    /\ stray # NoSet
    /\ Take(stray)
    /\ Standing
    /\ stray' = NoSet
    /\ UNCHANGED <<reports, snapshot, answers, pending, lock, call, refresh, reply, calls>>

MowerAnswers ==
    /\ refresh = "asked"
    /\ refresh' = "answered"
    /\ reply' = mower
    /\ UNCHANGED <<reports, mower, snapshot, answers, pending, lock, call, push, stray, calls, held, confirmed>>

-------------------------------------------------------------------------------
(* Reports.                                                                 *)

UnderWay == \E c \in Callers : call[c].at = "sent"

Timely(row) == reports = "prompt" => ~UnderWay /\ row = mower

\* apply_area_parameters for a row about this area.
Merge(row) ==
    /\ answers < MaxAnswers
    /\ Timely(row)
    /\ answers' = answers + 1
    /\ snapshot' = [k \in Keys |-> IF row[k] = None THEN snapshot[k] ELSE row[k]]

PushArrives ==
    /\ push # NoSet
    /\ Merge(push)
    /\ push' = NoSet
    /\ UNCHANGED <<reports, mower, pending, lock, call, refresh, reply, stray, calls, held, confirmed>>

AnswerArrives ==
    /\ refresh = "answered"
    /\ Merge(reply)
    /\ refresh' = "none" /\ reply' = NoSet
    /\ UNCHANGED <<reports, mower, pending, lock, call, push, stray, calls, held, confirmed>>

AnswerLost ==
    /\ refresh # "none"
    /\ refresh' = "none" /\ reply' = NoSet
    /\ UNCHANGED <<reports, mower, snapshot, answers, pending, lock, call, push, stray, calls, held, confirmed>>

PushLost ==
    /\ push # NoSet
    /\ push' = NoSet
    /\ UNCHANGED <<reports, mower, snapshot, answers, pending, lock, call, refresh, reply, stray, calls, held, confirmed>>

-------------------------------------------------------------------------------
(* async_set_native_value.                                                  *)

Call(c, k, v) ==
    /\ call[c].at = "idle"
    /\ calls < MaxCalls
    /\ calls' = calls + 1
    /\ call' = [call EXCEPT ![c] = [IdleCall EXCEPT !.at = "waiting", !.key = k, !.value = v]]
    /\ UNCHANGED <<mower, snapshot, answers, pending, lock, channels, held, confirmed>>

\* Mutated form: always the reported snapshot.
BaseIsSnapshot == snapshot

\* The set the change is merged into.
Base == IF pending.raw # NoSet /\ pending.answers = answers THEN pending.raw ELSE snapshot

Complete(set) == \A k \in Keys : set[k] # None

Payload(c) == [call[c].base EXCEPT ![call[c].key] = call[c].value]

\* Mutated form: the lock is not taken.
BeginUnlocked(c) ==
    /\ call[c].at = "waiting"
    /\ Complete(Base)
    /\ UNCHANGED lock
    /\ call' = [call EXCEPT ![c].at = "sent", ![c].base = Base, ![c].answers = answers]
    /\ UNCHANGED <<mower, snapshot, answers, pending, channels, calls, held, confirmed>>

\* The lock is free: choose the base and send the command.
Begin(c) ==
    /\ call[c].at = "waiting"
    /\ lock = None
    /\ Complete(Base)
    /\ lock' = c
    /\ call' = [call EXCEPT ![c].at = "sent", ![c].base = Base, ![c].answers = answers]
    /\ UNCHANGED <<mower, snapshot, answers, pending, channels, calls, held, confirmed>>

\* The area is unknown or incomplete: the call raises.
BeginRefused(c) ==
    /\ call[c].at = "waiting"
    /\ lock = None
    /\ ~Complete(Base)
    /\ call' = [call EXCEPT ![c] = IdleCall]
    /\ UNCHANGED <<mower, snapshot, answers, pending, lock, channels, calls, held, confirmed>>

CommandTaken(c) ==
    /\ call[c].at = "sent"
    /\ Take(Payload(c))
    /\ confirmed' = [k \in Keys |-> IF k = call[c].key THEN call[c].value
                                    ELSE IF mower'[k] = mower[k] THEN confirmed[k] ELSE None]
    /\ call' = [call EXCEPT ![c].at = "taken"]
    /\ UNCHANGED <<snapshot, answers, pending, lock, reports, refresh, reply, stray, calls>>

\* The call ends: the lock is released and a refresh asked for.
EndCall(c) ==
    /\ lock' = IF lock = c THEN None ELSE lock
    /\ call' = [call EXCEPT ![c] = IdleCall]
    /\ refresh' = IF refresh = "none" THEN "asked" ELSE refresh
    /\ UNCHANGED <<reports, mower, snapshot, answers, reply, push, calls, held>>

\* The mower's confirmation: the write becomes the base of the next one.
Confirmed(c) ==
    /\ call[c].at = "taken"
    /\ pending' = [raw |-> Payload(c), answers |-> call[c].answers]
    /\ EndCall(c)
    /\ UNCHANGED <<stray, confirmed>>

\* Mutated form: an unconfirmed write is recorded as well.
UnconfirmedRecorded(c) ==
    /\ call[c].at \in {"sent", "taken"}
    /\ pending' = [raw |-> Payload(c), answers |-> call[c].answers]
    /\ stray' \in {stray} \cup (IF call[c].at = "sent" /\ stray = NoSet THEN {Payload(c)} ELSE {})
    /\ confirmed' = [confirmed EXCEPT ![call[c].key] = None]
    /\ EndCall(c)

\* A refusal, a timeout, or a confirmation that was lost.  A command that got
\* no answer may still be on its way.
Unconfirmed(c) ==
    /\ call[c].at \in {"sent", "taken"}
    /\ stray' \in {stray} \cup (IF call[c].at = "sent" /\ stray = NoSet THEN {Payload(c)} ELSE {})
    /\ confirmed' = [confirmed EXCEPT ![call[c].key] = None]
    /\ EndCall(c)
    /\ UNCHANGED pending

Next ==
    \/ \E k \in Keys, v \in Values : AppWrites(k, v)
    \/ StrayArrives
    \/ MowerAnswers
    \/ PushArrives
    \/ AnswerArrives
    \/ AnswerLost
    \/ PushLost
    \/ \E c \in Callers :
        \/ \E k \in Keys, v \in Values : Call(c, k, v)
        \/ Begin(c)
        \/ BeginRefused(c)
        \/ CommandTaken(c)
        \/ Confirmed(c)
        \/ Unconfirmed(c)

Spec == Init /\ [][Next]_vars

-------------------------------------------------------------------------------
(* Properties.                                                              *)

Calls == [at : {"idle", "waiting", "sent", "taken"}, key : Keys \cup {None},
          value : Values \cup {None}, base : Partial, answers : Nat]

\* Every variable has its type; the lock is held exactly while a write is out.
TypeOK ==
    /\ reports \in Reports
    /\ mower \in Sets
    /\ snapshot \in Partial
    /\ answers \in Nat /\ calls \in Nat
    /\ pending \in [raw : Partial, answers : Nat]
    /\ lock \in Callers \cup {None}
    /\ call \in [Callers -> Calls]
    /\ {push, reply, stray, confirmed} \subseteq Partial
    /\ refresh \in {"none", "asked", "answered"}
    /\ held \in [Keys -> SUBSET Values]
    /\ \A c \in Callers : call[c].at \in {"sent", "taken"} <=> lock = c

\* "Values the mower never took must not be re-sent with the next change":
\* what a write carries besides its own change the mower has once held.
OnlyTakenIsResent ==
    \A c \in Callers : call[c].at = "sent" =>
        \A k \in Keys \ {call[c].key} : call[c].base[k] \in held[k]

\* What a write puts in the place of the other parameters is what stands
\* confirmed of them.
Reverts(c) ==
    \E k \in Keys \ {call[c].key} : confirmed[k] # None /\ Payload(c)[k] # confirmed[k]

\* No confirmed write is reverted by a later one to a different parameter, as
\* long as reports are prompt (_PendingAreaWrite).
NoLostUpdate ==
    [][reports = "prompt" => \A c \in Callers : CommandTaken(c) => ~Reverts(c)]_vars

===============================================================================
