----------------------------- MODULE FamiliesProofs -----------------------------
(***************************************************************************)
(* The safety of Families, for any set of commands and any number of lost  *)
(* answers and updates.                                                    *)
(*                                                                         *)
(* What is inductive is that an undisturbed command has heard the truth:   *)
(* the family it fell back from is not spoken, and the answer it holds     *)
(* says whether the family it tries is.                                    *)
(***************************************************************************)
EXTENDS Families, TLAPS

\* What a command that lost no answer knows.
Heard(c) ==
    /\ call[c].at = "answered" => call[c].answer = IF Current(c) \in speaks THEN "ok" ELSE "500"
    /\ Len(call[c].sent) = 2 => call[c].sent[1] \notin speaks

IInv ==
    /\ TypeOK
    /\ OncePerFamily
    /\ \A c \in Commands \ disturbed : Heard(c)

\* A family and the other are all there are.
LEMMA TwoFamilies ==
    ASSUME NEW f \in Family
    PROVE  Other(f) \in Family /\ Other(f) # f /\ Family = {f, Other(f)}
BY DEF Family, Other

\* What is sent is one or two families, and the current one is the last.
LEMMA SentIsFamilies ==
    ASSUME TypeOK, NEW c \in Commands, call[c].at # "idle"
    PROVE  /\ call[c].sent \in Sendings
           /\ Len(call[c].sent) \in {1, 2}
           /\ Current(c) \in Family
<1>1. call[c] \in Calls /\ call[c] # Idle
    BY DEF TypeOK, Idle
<1>2. call[c].sent \in Sendings
    BY <1>1 DEF Calls
<1>3. CASE \E f \in Family : call[c].sent = <<f>>
    BY <1>2, <1>3 DEF Current
<1>4. CASE \E f, g \in Family : call[c].sent = <<f, g>>
    BY <1>2, <1>4 DEF Current
<1>5. (\E f \in Family : call[c].sent = <<f>>) \/ (\E f, g \in Family : call[c].sent = <<f, g>>)
    BY <1>2 DEF Sendings
<1> QED BY <1>2, <1>3, <1>4, <1>5

\* A command that fell back has sent one family and then the other.
LEMMA FallBackSends ==
    ASSUME TypeOK, NEW c \in Commands, FallBack(c)
    PROVE  \E f \in Family :
               /\ call[c].sent = <<f>>
               /\ call' = [call EXCEPT ![c] = Asked(<<f, Other(f)>>)]
<1>1. call[c].sent \in Sendings /\ Len(call[c].sent) = 1
    BY SentIsFamilies DEF FallBack, Failed
<1>2. PICK f \in Family : call[c].sent = <<f>>
    BY <1>1 DEF Sendings
<1>3. Current(c) = f
    BY <1>2 DEF Current
<1> QED BY <1>2, <1>3 DEF FallBack, Asked

\* The initial states satisfy the invariant.
LEMMA InitInv == Init => IInv
BY DEF Init, IInv, TypeOK, OncePerFamily, Heard, Idle, Calls, Sendings, Family

\* Every step keeps it.
LEMMA NextInv == IInv /\ [Next]_vars => IInv'
<1> SUFFICES ASSUME IInv, [Next]_vars PROVE IInv'
    OBVIOUS
<1> USE DEF IInv
<1>1. CASE FirmwareUpdate
    <2>1. TypeOK'
        BY <1>1 DEF TypeOK, FirmwareUpdate
    <2>2. OncePerFamily'
        BY <1>1 DEF OncePerFamily, FirmwareUpdate
    <2>3. ASSUME NEW c \in Commands \ disturbed' PROVE Heard(c)'
        <3>1. call[c].at = "idle" /\ call[c] \in Calls
            BY <1>1, <2>3 DEF FirmwareUpdate, TypeOK
        <3>2. call[c] = Idle
            BY <3>1 DEF Calls
        <3> QED BY <1>1, <3>2 DEF FirmwareUpdate, Heard, Idle
    <2> QED BY <2>1, <2>2, <2>3
<1>2. CASE \E c \in Commands : Send(c)
    <2>1. PICK c \in Commands : Send(c)
        BY <1>2
    <2>2. FirstFamily(c) \in Family
        BY DEF FirstFamily, TypeOK, Family
    <2>3. call' = [call EXCEPT ![c] = Asked(<<FirstFamily(c)>>)]
        BY <2>1 DEF Send
    <2>4. Asked(<<FirstFamily(c)>>) \in Calls
        BY <2>2 DEF Asked, Calls, Sendings
    <2>5. TypeOK'
        BY <2>1, <2>3, <2>4 DEF TypeOK, Send
    <2>6. OncePerFamily'
        BY <2>3 DEF OncePerFamily, TypeOK, Asked
    <2>7. ASSUME NEW d \in Commands \ disturbed' PROVE Heard(d)'
        BY <2>1, <2>3, <2>7 DEF Heard, Send, TypeOK, Current, Asked
    <2> QED BY <2>5, <2>6, <2>7
<1>3. CASE \E c \in Commands : MowerAnswers(c) \/ Blip(c)
    <2>1. PICK c \in Commands : MowerAnswers(c) \/ Blip(c)
        BY <1>3
    <2>2. PICK answer \in Answers : call' = [call EXCEPT ![c] = Answered(c, answer)]
        BY <2>1 DEF MowerAnswers, Blip, Answers
    <2>3. call[c].sent \in Sendings
        BY <2>1, SentIsFamilies DEF MowerAnswers, Blip
    <2>4. Answered(c, answer) \in Calls
        BY <2>3 DEF Answered, Calls
    <2>6. TypeOK'
        BY <2>1, <2>2, <2>4 DEF TypeOK, MowerAnswers, Blip
    <2>7. OncePerFamily'
        BY <2>2 DEF OncePerFamily, TypeOK, Answered
    <2>8. ASSUME NEW d \in Commands \ disturbed' PROVE Heard(d)'
        <3>1. d \notin disturbed /\ speaks' = speaks
            BY <2>1, <2>8 DEF MowerAnswers, Blip
        <3>2. CASE d # c
            BY <2>2, <3>1, <3>2 DEF Heard, TypeOK, Current
        <3>3. CASE d = c
            <4>1. MowerAnswers(c)
                BY <2>1, <2>8, <3>3 DEF Blip
            <4>2. call[c]'.answer = IF Current(c) \in speaks THEN "ok" ELSE "500"
                BY <4>1 DEF MowerAnswers, TypeOK, Answered
            <4>3. call[c]'.sent = call[c].sent /\ Current(c)' = Current(c)
                BY <2>2 DEF TypeOK, Current, Answered
            <4> QED BY <3>1, <3>3, <4>2, <4>3 DEF Heard
        <3> QED BY <3>2, <3>3
    <2> QED BY <2>6, <2>7, <2>8
<1>4. CASE \E c \in Commands : FallBack(c)
    <2>1. PICK c \in Commands : FallBack(c)
        BY <1>4
    <2>2. PICK f \in Family :
            /\ call[c].sent = <<f>>
            /\ call' = [call EXCEPT ![c] = Asked(<<f, Other(f)>>)]
        BY <2>1, FallBackSends
    <2>3. Other(f) \in Family /\ Other(f) # f
        BY TwoFamilies
    <2>4. Asked(<<f, Other(f)>>) \in Calls
        BY <2>3 DEF Asked, Calls, Sendings
    <2>5. TypeOK'
        BY <2>1, <2>2, <2>4 DEF TypeOK, FallBack
    <2>6. OncePerFamily'
        BY <2>2, <2>3 DEF OncePerFamily, TypeOK, Asked
    <2>7. ASSUME NEW d \in Commands \ disturbed' PROVE Heard(d)'
        <3>1. d \notin disturbed /\ speaks' = speaks
            BY <2>1, <2>7 DEF FallBack
        <3>2. CASE d # c
            BY <2>2, <3>1, <3>2 DEF Heard, TypeOK, Current
        <3>3. CASE d = c
            <4>1. f \notin speaks
                BY <2>1, <2>2, <3>1, <3>3 DEF Heard, FallBack, Failed, Current
            <4> QED BY <2>2, <3>1, <3>3, <4>1 DEF Heard, TypeOK, Asked
        <3> QED BY <3>2, <3>3
    <2> QED BY <2>5, <2>6, <2>7
<1>5. CASE \E c \in Commands : Finish(c)
    <2>1. PICK c \in Commands : Finish(c)
        BY <1>5
    <2>2. call[c].sent \in Sendings /\ Current(c) \in Family
        BY <2>1, SentIsFamilies DEF Finish
    <2>3. call' = [call EXCEPT ![c] = Idle] /\ Idle \in Calls
        BY <2>1 DEF Finish, Calls
    <2>4. TypeOK'
        BY <2>1, <2>2, <2>3 DEF TypeOK, Finish
    <2>5. OncePerFamily'
        BY <2>3 DEF OncePerFamily, TypeOK, Idle
    <2>6. ASSUME NEW d \in Commands \ disturbed' PROVE Heard(d)'
        BY <2>1, <2>3, <2>6 DEF Heard, Finish, TypeOK, Current, Idle
    <2> QED BY <2>4, <2>5, <2>6
<1>6. CASE UNCHANGED vars
    BY <1>6 DEF vars, TypeOK, OncePerFamily, Heard, Current
<1> QED BY <1>1, <1>2, <1>3, <1>4, <1>5, <1>6 DEF Next

\* The invariant holds in every reachable state.
THEOREM Invariant == Spec => []IInv
BY InitInv, NextInv, PTL DEF Spec

\* Every variable keeps its type: no command is sent a third time.
THEOREM TypeCorrect == Spec => []TypeOK
<1>1. IInv => TypeOK
    BY DEF IInv
<1> QED BY Invariant, <1>1, PTL

\* No command tries a family twice, whatever others commit between its awaits.
THEOREM TriedOnce == Spec => []OncePerFamily
<1>1. IInv => OncePerFamily
    BY DEF IInv
<1> QED BY Invariant, <1>1, PTL

\* A command that lost no answer and met no update is confirmed.
THEOREM Confirmed == Spec => ReachableIsConfirmed
<1>1. ASSUME IInv, NEW c \in Commands \ disturbed, Finish(c) PROVE call[c].answer = "ok"
    <2>1. Heard(c) /\ call[c].at = "answered" /\ ~Failed(c)
        BY <1>1 DEF IInv, Finish
    <2>2. call[c].sent \in Sendings /\ Len(call[c].sent) \in {1, 2} /\ TypeOK
        BY <1>1, <2>1, SentIsFamilies DEF IInv
    <2>3. CASE Len(call[c].sent) = 1
        BY <2>1, <2>3 DEF Heard, Failed
    <2>4. CASE Len(call[c].sent) = 2
        <3>1. PICK f, g \in Family : call[c].sent = <<f, g>>
            BY <2>2, <2>4 DEF Sendings
        <3>2. call[c].sent[1] # call[c].sent[2] /\ call[c].sent[1] \notin speaks
            BY <1>1, <2>1, <2>4 DEF IInv, OncePerFamily, Heard
        <3>3. f # g /\ f \notin speaks
            BY <3>1, <3>2
        <3>4. g \in speaks
            BY <2>2, <3>3 DEF TypeOK, Family
        <3>5. Current(c) = g
            BY <3>1 DEF Current
        <3> QED BY <2>1, <3>4, <3>5 DEF Heard
    <2> QED BY <2>2, <2>3, <2>4
<1>2. IInv /\ [Next]_vars => [\A c \in Commands \ disturbed : Finish(c) => call[c].answer = "ok"]_vars
    BY <1>1
<1> QED BY Invariant, <1>2, PTL DEF Spec, ReachableIsConfirmed

\* A family the mower speaks is given up for another that it speaks, or for an
\* answer from before an update.
THEOREM Kept == Spec => SpokenFamilyKept
<1>1. ASSUME [Next]_vars
      PROVE  [Truthful /\ selected \in speaks => selected' \in speaks]_<<selected, attempted, call>>
    <2>1. CASE selected' = selected /\ speaks' = speaks
        BY <2>1
    <2>2. CASE \E c \in Commands : Finish(c)
        BY <2>2 DEF Finish, Truthful
    <2>3. CASE FirmwareUpdate
        BY <2>3 DEF FirmwareUpdate
    <2> QED BY <1>1, <2>1, <2>2, <2>3 DEF Next, Send, MowerAnswers, Blip, FallBack, vars
<1> QED BY <1>1, PTL DEF Spec, SpokenFamilyKept

===============================================================================
