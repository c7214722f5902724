-------------------------------- MODULE Families --------------------------------
(***************************************************************************)
(* The command family a mower answers on (families.py) and the adaptive    *)
(* commands that learn it (commands.py, _AdaptiveFamily).                  *)
(*                                                                         *)
(* A firmware answers the non-V2 commands, the V2 ones or perhaps both,    *)
(* and an update may change which.  A command in the wrong family comes    *)
(* back with errno 500, and so does one whose answer got lost; a mower     *)
(* that is offline, a timeout or a refusal comes back as something else.   *)
(* Every command awaits its answers, so commands of one mower interleave.  *)
(***************************************************************************)
EXTENDS Naturals, Sequences

CONSTANTS None,        \* no answer yet, no family
          Commands,    \* "map", the only one that does not start with the
                       \* selected family, "poll" and perhaps "clean"
          MaxBlips,    \* bounds on the lost answers and the firmware
          MaxUpdates   \* updates, for model checking only

Family == {"nonV2", "V2"}
Other(family) == IF family = "V2" THEN "nonV2" ELSE "V2"
Answers == {"ok", "500", "other"}

ASSUME NoneAssumption == None \notin Family \cup Answers
ASSUME CommandsAssumption == "poll" \in Commands

VARIABLES
    speaks,     \* the families the firmware answers
    selected,   \* _FAMILIES of this mower, or the default
    attempted,  \* _LAST_ATTEMPT of this mower
    call,       \* per command: what it awaits, and what it has sent
    disturbed,  \* history: the commands that lost an answer, or were under way
                \* during an update
    blips, updates

vars == <<speaks, selected, attempted, call, disturbed, blips, updates>>

Idle == [at |-> "idle", sent |-> <<>>, answer |-> None]
Asked(sent) == [at |-> "asked", sent |-> sent, answer |-> None]
Answered(c, answer) == [at |-> "answered", sent |-> call[c].sent, answer |-> answer]

\* The family a command is trying now.
Current(c) == call[c].sent[Len(call[c].sent)]

Init ==
    /\ speaks \in (SUBSET Family) \ {{}}
    /\ selected = "nonV2"
    /\ attempted = <<>>
    /\ call = [c \in Commands |-> Idle]
    /\ disturbed = {}
    /\ blips = 0 /\ updates = 0

-------------------------------------------------------------------------------
(* The mower.                                                               *)

MowerAnswers(c) ==
    /\ call[c].at = "asked"
    /\ call' = [call EXCEPT ![c] = Answered(c, IF Current(c) \in speaks THEN "ok" ELSE "500")]
    /\ UNCHANGED <<speaks, selected, attempted, disturbed, blips, updates>>

\* The answer is lost, the mower is offline, the request times out.
Blip(c) ==
    /\ call[c].at = "asked" /\ blips < MaxBlips
    /\ \E answer \in {"500", "other"} :
        call' = [call EXCEPT ![c] = Answered(c, answer)]
    /\ disturbed' = disturbed \cup {c}
    /\ blips' = blips + 1
    /\ UNCHANGED <<speaks, selected, attempted, updates>>

FirmwareUpdate ==
    /\ updates < MaxUpdates
    /\ updates' = updates + 1
    /\ speaks' \in (SUBSET Family) \ {{}}
    /\ disturbed' = {c \in Commands : call[c].at # "idle"}
    /\ UNCHANGED <<selected, attempted, call, blips>>

-------------------------------------------------------------------------------
(* _AdaptiveFamily._execute, cut at its awaits.                             *)

\* _first_family
FirstFamily(c) == IF c = "map" THEN "V2" ELSE selected

Send(c) ==
    /\ call[c].at = "idle"
    /\ call' = [call EXCEPT ![c] = Asked(<<FirstFamily(c)>>)]
    /\ disturbed' = disturbed \ {c}
    /\ UNCHANGED <<speaks, selected, attempted, blips, updates>>

Failed(c) == call[c].at = "answered" /\ call[c].answer = "500" /\ Len(call[c].sent) = 1

\* Mutated form: the family is read again, after the await.
FallBackRereads(c) ==
    /\ Failed(c)
    /\ call' = [call EXCEPT ![c] = Asked(<<Current(c), Other(selected)>>)]
    /\ UNCHANGED <<speaks, selected, attempted, disturbed, blips, updates>>

\* errno 500 the first time: the other family is tried.
FallBack(c) ==
    /\ Failed(c)
    /\ call' = [call EXCEPT ![c] = Asked(<<Current(c), Other(Current(c))>>)]
    /\ UNCHANGED <<speaks, selected, attempted, disturbed, blips, updates>>

\* Mutated forms: whatever is not errno 500 is an answer; a fallback's answer is
\* not kept; the attempts pile up.
FinishOnSilence(c) ==
    /\ call[c].at = "answered" /\ ~Failed(c)
    /\ selected' = IF call[c].answer # "500" THEN Current(c) ELSE selected
    /\ attempted' = call[c].sent
    /\ call' = [call EXCEPT ![c] = Idle]
    /\ UNCHANGED <<speaks, disturbed, blips, updates>>
FinishForgets(c) ==
    /\ call[c].at = "answered" /\ ~Failed(c)
    /\ selected' = IF call[c].answer = "ok" /\ Len(call[c].sent) = 1 THEN Current(c) ELSE selected
    /\ attempted' = call[c].sent
    /\ call' = [call EXCEPT ![c] = Idle]
    /\ UNCHANGED <<speaks, disturbed, blips, updates>>
FinishAppends(c) ==
    /\ call[c].at = "answered" /\ ~Failed(c)
    /\ selected' = IF call[c].answer = "ok" THEN Current(c) ELSE selected
    /\ attempted' = attempted \o call[c].sent
    /\ call' = [call EXCEPT ![c] = Idle]
    /\ UNCHANGED <<speaks, disturbed, blips, updates>>

\* note_attempt, and commit of the family that answered, if one did.
Finish(c) ==
    /\ call[c].at = "answered" /\ ~Failed(c)
    /\ selected' = IF call[c].answer = "ok" THEN Current(c) ELSE selected
    /\ attempted' = call[c].sent
    /\ call' = [call EXCEPT ![c] = Idle]
    /\ UNCHANGED <<speaks, disturbed, blips, updates>>

Next ==
    \/ FirmwareUpdate
    \/ \E c \in Commands : \/ Send(c)
                           \/ MowerAnswers(c)
                           \/ Blip(c)
                           \/ FallBack(c)
                           \/ Finish(c)

\* The state is asked for again and again, and every request comes back.
Fairness ==
    /\ WF_vars(Send("poll"))
    /\ \A c \in Commands :
        WF_vars(MowerAnswers(c)) /\ WF_vars(FallBack(c)) /\ WF_vars(Finish(c))

Spec == Init /\ [][Next]_vars /\ Fairness

-------------------------------------------------------------------------------
(* Properties.                                                              *)

\* What a command has sent: one family, or the one and then another.
Sendings == {<<f>> : f \in Family} \cup (Family \X Family)
Calls == {Idle}
         \cup [at : {"asked"}, sent : Sendings, answer : {None}]
         \cup [at : {"answered"}, sent : Sendings, answer : Answers]

\* Every variable has its type; a command is sent twice at most, and a log line
\* has no more families to name.
TypeOK ==
    /\ speaks \in (SUBSET Family) \ {{}}
    /\ selected \in Family
    /\ attempted \in Sendings \cup {<<>>}
    /\ call \in [Commands -> Calls]
    /\ disturbed \subseteq Commands
    /\ blips \in Nat /\ updates \in Nat

\* Whatever other commands commit while one awaits its answer, it tries no family
\* twice: a mower that speaks one family is never told twice to start.
OncePerFamily ==
    \A c \in Commands : Len(call[c].sent) = 2 => call[c].sent[1] # call[c].sent[2]

\* A family the mower speaks is not given up for one it does not: not for a lost
\* answer, not for a mower that is offline, not in the middle of two commands.
\* Only an answer from before an update may do so.
Truthful == \A c \in Commands : call[c].answer = "ok" => Current(c) \in speaks
SpokenFamilyKept ==
    [][Truthful /\ selected \in speaks => selected' \in speaks]_<<selected, attempted, call>>

\* A command none of whose answers was lost is confirmed, whatever family the
\* mower speaks and whatever is selected meanwhile.
ReachableIsConfirmed ==
    [][\A c \in Commands \ disturbed : Finish(c) => call[c].answer = "ok"]_vars

\* In the end a family is selected that the mower speaks, and stays so.
FamilyIsLearned == <>[](selected \in speaks)

===============================================================================
