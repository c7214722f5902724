------------------------------- MODULE LoginProofs -------------------------------
(***************************************************************************)
(* Theorems about Login, for any accounts, devices and pairs: its type     *)
(* invariant, and that nobody is asked for a code, or to reauthenticate,   *)
(* without need.                                                           *)
(*                                                                         *)
(* Three places hold a pair and two a device, and a login uses one of      *)
(* each.  The invariant says that they agree: the pair got last is in the  *)
(* entry or in the flow's input, and every proved account was proved on    *)
(* the device of the next login.                                           *)
(***************************************************************************)
EXTENDS Login, TLAPS

\* The entry holds the pair it was given or obtained last; the controller and the
\* flow remember no other.
PairsKept ==
    /\ entry = None => latest = None
    /\ entry # None => latest = entry.pair
    /\ held # None => run = "up" /\ held = latest
    /\ given # None => flow.step # "none" /\ given = flow.input.pair

\* What a step of the flow has settled before it.
StepsSettled ==
    /\ flow.step = "auth" => entry = None
    /\ flow.step = "reauth" => entry # None
    /\ flow.step \in {"reauth", "code"} => flow.input.user # None
    /\ flow.step = "code" => /\ flow.device # None
                             /\ flow.input.device \in {None, flow.device}

\* Every account that was proved was proved on this device.
ProvedOn(device) == \A u \in proved : <<u, device>> \in verified

\* The device an account was proved on is the one of its next login: that of the
\* entry, or of the flow's input when there is no entry yet.
DeviceKept ==
    /\ entry # None => /\ ProvedOn(entry.device)
                       /\ flow.step \in {"reauth", "code"} => flow.input.device = entry.device
    /\ entry = None =>
        /\ flow.step = "none" => proved = {} /\ verified = {}
        /\ flow.step # "none" /\ flow.input.device # None => ProvedOn(flow.input.device)
        /\ flow.step # "none" /\ flow.input.device = None =>
               proved = {} /\ (flow.step = "auth" => verified = {})

IInv ==
    /\ TypeOK
    /\ PairsKept
    /\ StepsSettled
    /\ DeviceKept

-------------------------------------------------------------------------------
(* The operators.                                                           *)

LEMMA NoneApart == None \notin Users /\ None \notin Devices /\ None \notin Pairs /\ None \notin Input
BY NoneAssumption

LEMMA NoInputTyped == NoInput \in Input
BY DEF NoInput, Input, Passwords

\* There is a pair that nobody remembers: no more than two are remembered.
LEMMA Fresh ==
    ASSUME IInv, NEW user \in Users
    PROVE  FreshPair(user) \in Pairs
<1>1. Remembered \subseteq {None, latest, flow.input.pair}
  BY DEF IInv, PairsKept, Remembered
<1>2. latest \in Pairs \cup {None} /\ flow.input.pair \in Pairs \cup {None}
  BY DEF IInv, TypeOK, Input
<1>3. PICK i \in Ids : latest # None => latest.id = i
  BY <1>2, IdsAssumption DEF Pairs
<1>4. PICK j \in Ids : flow.input.pair # None => flow.input.pair.id = j
  BY <1>2, IdsAssumption DEF Pairs
<1>5. PICK k \in Ids : k \notin {i, j}
  BY IdsAssumption
<1>6. PICK p \in [user : {user}, id : Ids] : p = [user |-> user, id |-> k]
  OBVIOUS
<1>7. p \in Pairs /\ p.id = k
  BY <1>6 DEF Pairs
<1>8. p \notin Remembered
  BY <1>1, <1>3, <1>4, <1>5, <1>7, NoneApart
<1>9. FreshPair(user) \in [user : {user}, id : Ids]
  BY <1>8 DEF FreshPair
<1> QED BY <1>9 DEF Pairs

\* What a login may come to, and what it was refused for.
LEMMA Results ==
    ASSUME IInv, NEW a \in Input, a.user \in Users,
           NEW result \in {Login(a), Down(a)}, LoggedIn(result)
    PROVE  /\ result.says \in {"ok", "wrong", "code", "down"}
           /\ result.pair \in Pairs \cup {None}
           /\ result.says = "ok" => result.pair \in Pairs
           /\ live' \subseteq Pairs
           /\ result.says \in {"wrong", "code"} => a.pair \notin live
           /\ result.says = "code" =>
                  kind[a.user] = "always" \/ <<a.user, a.device>> \notin verified
<1>1. live \subseteq Pairs /\ a.pair \in Pairs \cup {None} /\ kind[a.user] \in Kinds
  BY DEF IInv, TypeOK, Input
<1>2. FreshPair(a.user) \in Pairs
  BY Fresh
<1>3. PasswordLogin(a) \in {"ok", "wrong", "code"}
  BY DEF PasswordLogin
<1>4. PasswordLogin(a) = "code" =>
          kind[a.user] = "always" \/ <<a.user, a.device>> \notin verified
  BY <1>1 DEF PasswordLogin, Kinds
<1>5. CASE result = Down(a)
  BY <1>1, <1>5 DEF Down, LoggedIn
<1>6. CASE result = Login(a)
  <2>1. CASE a.pair \in live
    <3>1. result = [says |-> "ok", pair |-> a.pair]
      BY <1>6, <2>1 DEF Login
    <3> QED BY <1>1, <2>1, <3>1 DEF LoggedIn
  <2>2. CASE a.pair \notin live /\ PasswordLogin(a) = "ok"
    <3>1. result = [says |-> "ok", pair |-> FreshPair(a.user)]
      BY <1>6, <2>2 DEF Login
    <3>2. live' = live \/ live' = (live \cap Remembered) \cup {FreshPair(a.user)}
      BY <3>1 DEF LoggedIn, Mint
    <3> QED BY <1>1, <1>2, <3>1, <3>2
  <2>3. CASE a.pair \notin live /\ PasswordLogin(a) # "ok"
    <3>1. result = [says |-> PasswordLogin(a), pair |-> a.pair]
      BY <1>6, <2>3 DEF Login
    <3>2. live' = live
      BY <2>3, <3>1 DEF LoggedIn
    <3> QED BY <1>1, <1>3, <1>4, <2>3, <3>1, <3>2
  <2> QED BY <2>1, <2>2, <2>3
<1> QED BY <1>5, <1>6

\* The device of a next try is one, and every proved account was proved on it.
LEMMA SameDevice ==
    ASSUME IInv, flow.step \in {"auth", "reauth"},
           NEW input \in Input, input.device = flow.input.device
    PROVE  /\ ClientDevice(input) \in Devices
           /\ input.device \in {None, ClientDevice(input)}
           /\ ProvedOn(ClientDevice(input))
<1>1. input.device \in Devices \cup {None}
  BY DEF Input
<1>2. CASE input.device # None
  <2>1. ClientDevice(input) = input.device
    BY <1>2 DEF ClientDevice
  <2>2. ProvedOn(input.device)
    BY <1>2 DEF IInv, StepsSettled, DeviceKept
  <2> QED BY <1>1, <1>2, <2>1, <2>2
<1>3. CASE input.device = None
  <2>1. entry = None
    BY <1>3 DEF IInv, TypeOK, StepsSettled, DeviceKept
  <2>2. proved = {} /\ verified = {}
    BY <1>3, <2>1 DEF IInv, StepsSettled, DeviceKept
  <2>3. ClientDevice(input) = CHOOSE d \in Devices : \A u \in Users : <<u, d>> \notin verified
    BY <1>3 DEF ClientDevice
  <2>4. \E d \in Devices : \A u \in Users : <<u, d>> \notin verified
    BY <2>2, DevicesAssumption
  <2> QED BY <1>3, <2>2, <2>3, <2>4 DEF ProvedOn
<1> QED BY <1>2, <1>3

\* The device a code verifies is the one of the accounts proved so far.
LEMMA CodeDevice ==
    ASSUME IInv, flow.step = "code"
    PROVE  /\ flow.device \in Devices /\ flow.input.user \in Users
           /\ ProvedOn(flow.device)
           /\ entry # None => entry.device = flow.device
<1>1. /\ flow.device \in Devices /\ flow.input.user \in Users
      /\ flow.input.device \in {None, flow.device}
  BY DEF IInv, TypeOK, StepsSettled, Input
<1>2. CASE entry # None
  BY <1>1, <1>2 DEF IInv, TypeOK, DeviceKept
<1>3. CASE entry = None /\ flow.input.device # None
  BY <1>1, <1>3 DEF IInv, DeviceKept
<1>4. CASE entry = None /\ flow.input.device = None
  BY <1>1, <1>4 DEF IInv, DeviceKept, ProvedOn
<1> QED BY <1>1, <1>2, <1>3, <1>4

\* The entry that a finished flow leaves.
LEMMA Finished ==
    ASSUME NEW input \in Input, input.user \in Users, NEW device \in Devices,
           NEW auth \in Pairs, Finish(input, device, auth)
    PROVE  /\ entry' \in Input /\ entry' # None
           /\ entry'.user \in Users /\ entry'.device = device /\ entry'.pair = auth
           /\ run' = "trying" /\ held' = None /\ flow' = NoFlow
           /\ latest' = auth /\ given' = None
<1>1. auth # None
  BY NoneApart
<1>2. entry' = [input EXCEPT !.device = device, !.pair = auth]
  BY <1>1 DEF Finish
<1>3. entry' \in Input /\ entry'.user = input.user /\ entry'.device = device /\ entry'.pair = auth
  BY <1>2 DEF Input
<1> QED BY <1>3, NoneApart DEF Finish

\* Then everything holds, if what was proved was proved on its device.
LEMMA FinishInv ==
    ASSUME NEW device \in Devices, TypeOK,
           kind' = kind, password' = password, live' \subseteq Pairs,
           verified' \subseteq Users \X Devices, proved' \subseteq Users, ProvedOn(device)',
           entry' \in Input, entry' # None, entry'.user \in Users, entry'.device = device,
           entry'.pair \in Pairs, latest' = entry'.pair, given' = None,
           run' = "trying", held' = None, flow' = NoFlow
    PROVE  IInv'
<1>1. flow'.step = "none" /\ flow'.input = NoInput /\ flow'.device = None
  BY DEF NoFlow
<1>2. TypeOK'
  BY <1>1, NoInputTyped, NoneApart DEF TypeOK
<1>3. PairsKept' /\ StepsSettled'
  BY <1>1 DEF PairsKept, StepsSettled
<1>4. DeviceKept'
  BY <1>1 DEF DeviceKept, ProvedOn
<1> QED BY <1>2, <1>3, <1>4 DEF IInv

-------------------------------------------------------------------------------
(* The steps.                                                               *)

LEMMA InitInv == Init => IInv
<1> SUFFICES ASSUME Init PROVE IInv
  OBVIOUS
<1>1. flow.step = "none" /\ flow.input = NoInput /\ flow.device = None
  BY DEF Init, NoFlow
<1>2. TypeOK
  BY <1>1, NoInputTyped DEF Init, TypeOK, Passwords
<1>3. PairsKept /\ StepsSettled /\ DeviceKept
  BY <1>1 DEF Init, PairsKept, StepsSettled, DeviceKept
<1> QED BY <1>2, <1>3 DEF IInv

\* The vendor's own steps.
LEMMA VendorStep ==
    ASSUME IInv, Expire \/ ChangePassword
    PROVE  IInv'
<1>1. UNCHANGED <<kind, verified, entry, run, held, flow, latest, given, proved>>
  BY DEF Expire, ChangePassword, past
<1>2. live' \subseteq Pairs /\ password' \in Passwords
  BY DEF Expire, ChangePassword, IInv, TypeOK, Passwords
<1>3. TypeOK'
  BY <1>1, <1>2 DEF IInv, TypeOK
<1>4. PairsKept' /\ StepsSettled' /\ DeviceKept'
  BY <1>1 DEF IInv, PairsKept, StepsSettled, DeviceKept, ProvedOn
<1> QED BY <1>3, <1>4 DEF IInv

LEMMA StartStep ==
    ASSUME IInv, StartUser
    PROVE  IInv'
<1>1. UNCHANGED <<kind, password, live, verified, entry, run, held, latest, given, proved>>
  BY DEF StartUser, server, past
<1>2. /\ flow'.step = "auth" /\ flow'.input = NoInput /\ flow'.device = None
      /\ flow.step = "none" /\ entry = None
  BY DEF StartUser, NoFlow
<1>3. TypeOK'
  BY <1>1, <1>2, NoInputTyped DEF IInv, TypeOK
<1>4. PairsKept' /\ StepsSettled'
  BY <1>1, <1>2 DEF IInv, PairsKept, StepsSettled
<1>5. DeviceKept'
  BY <1>1, <1>2 DEF IInv, DeviceKept, NoInput
<1> QED BY <1>3, <1>4, <1>5 DEF IInv

\* A form submitted: the login, and the entry, the code form or the form again.
LEMMA ValidateStep ==
    ASSUME IInv, flow.step \in {"auth", "reauth"},
           NEW input \in Input, input.user \in Users,
           input.device = flow.input.device, input.pair = flow.input.pair,
           Validate(input, flow.step), UNCHANGED <<kind, password, verified, proved>>
    PROVE  IInv'
<1>1. PICK device \in Devices : device = ClientDevice(input)
  BY SameDevice
<1>2. input.device \in {None, device} /\ ProvedOn(device)
  BY <1>1, SameDevice
<1>3. PICK a \in Input : a = [input EXCEPT !.device = device]
  BY DEF Input
<1>4. a = Account(input) /\ a.user = input.user /\ a.device = device
  BY <1>1, <1>3 DEF Account, Input
<1>5. PICK result \in {Login(a), Down(a)} :
          /\ LoggedIn(result)
          /\ \/ result.says = "ok" /\ Finish(input, device, result.pair)
             \/ /\ \/ result.says = "code" /\ flow'.step = "code"
                   \/ flow'.step = flow.step
                /\ flow' = [step |-> flow'.step, input |-> input, device |-> device]
                /\ UNCHANGED <<entry, run, held, latest, given>>
  BY <1>4 DEF Validate
<1>6. live' \subseteq Pairs /\ (result.says = "ok" => result.pair \in Pairs)
  BY <1>4, <1>5, Results
<1>7. ProvedOn(device)'
  BY <1>2 DEF ProvedOn
<1>8. CASE result.says = "ok" /\ Finish(input, device, result.pair)
  <2>1. PICK auth \in Pairs : auth = result.pair
    BY <1>6, <1>8
  <2>2. Finish(input, device, auth)
    BY <1>8, <2>1
  <2>3. verified' \subseteq Users \X Devices /\ proved' \subseteq Users
    BY DEF IInv, TypeOK
  <2> QED BY <1>6, <1>7, <2>2, <2>3, Finished, FinishInv DEF IInv
<1>9. CASE /\ flow'.step \in {"code", flow.step}
           /\ flow' = [step |-> flow'.step, input |-> input, device |-> device]
           /\ UNCHANGED <<entry, run, held, latest, given>>
  <2>1. flow'.input = input /\ flow'.device = device /\ device # None /\ input.user # None
    BY <1>9, NoneApart
  <2>2. TypeOK'
    BY <1>6, <1>9, <2>1 DEF IInv, TypeOK
  <2>3. PairsKept'
    BY <1>9, <2>1 DEF IInv, PairsKept
  <2>4. StepsSettled'
    BY <1>2, <1>9, <2>1 DEF IInv, StepsSettled
  <2>5. DeviceKept'
    BY <1>9, <2>1 DEF IInv, StepsSettled, DeviceKept, ProvedOn
  <2> QED BY <2>2, <2>3, <2>4, <2>5 DEF IInv
<1> QED BY <1>5, <1>8, <1>9

LEMMA SubmitStep ==
    ASSUME IInv,
           \/ \E u \in Users, typed \in Passwords : SubmitAuth(u, typed)
           \/ \E typed \in Passwords : SubmitReauth(typed)
    PROVE  /\ flow.step \in {"auth", "reauth"}
           /\ UNCHANGED <<kind, password, verified, proved>>
           /\ \E input \in Input : /\ input.user \in Users
                                   /\ input.device = flow.input.device
                                   /\ input.pair = flow.input.pair
                                   /\ Validate(input, flow.step)
<1>1. flow.input \in Input
  BY DEF IInv, TypeOK
<1>2. ASSUME NEW u \in Users, NEW typed \in Passwords, SubmitAuth(u, typed)
      PROVE  /\ Carried(u, typed) \in Input /\ Carried(u, typed).user = u
             /\ Carried(u, typed).device = flow.input.device
             /\ Carried(u, typed).pair = flow.input.pair
             /\ flow.step = "auth" /\ Validate(Carried(u, typed), flow.step)
             /\ UNCHANGED <<kind, password, verified, proved>>
  BY <1>1, <1>2 DEF Carried, Input, SubmitAuth
<1>3. ASSUME NEW typed \in Passwords, SubmitReauth(typed)
      PROVE  \E input \in Input :
                 /\ input.user \in Users /\ input.device = flow.input.device
                 /\ input.pair = flow.input.pair
                 /\ flow.step = "reauth" /\ Validate(input, flow.step)
                 /\ UNCHANGED <<kind, password, verified, proved>>
  <2>1. PICK input \in Input : input = [flow.input EXCEPT !.password = typed]
    BY <1>1 DEF Input
  <2>2. /\ input.user = flow.input.user /\ input.device = flow.input.device
        /\ input.pair = flow.input.pair
    BY <1>1, <2>1 DEF Input
  <2>3. flow.step = "reauth" /\ Validate(input, flow.step)
    BY <1>3, <2>1 DEF SubmitReauth
  <2>4. flow.input.user \in Users
    BY <1>1, <2>3 DEF IInv, StepsSettled, Input
  <2> QED BY <1>3, <2>2, <2>3, <2>4 DEF SubmitReauth
<1> QED BY <1>2, <1>3

\* The right code: device and pair are the flow's before the connection is tried.
LEMMA CodeStep ==
    ASSUME IInv, SubmitCode
    PROVE  IInv'
<1>1. flow.step = "code" /\ flow.input \in Input
  BY DEF SubmitCode, IInv, TypeOK
<1>2. PICK user \in Users : user = flow.input.user
  BY <1>1, CodeDevice
<1>3. PICK device \in Devices : device = flow.device
  BY <1>1, CodeDevice
<1>4. ProvedOn(device) /\ (entry # None => entry.device = device)
  BY <1>1, <1>3, CodeDevice
<1>5. PICK pair \in Pairs : pair = FreshPair(user)
  BY Fresh
<1>6. PICK input \in Input : input = [flow.input EXCEPT !.device = device, !.pair = pair]
  BY <1>1 DEF Input
<1>7. input.user = user /\ input.device = device /\ input.pair = pair
  BY <1>1, <1>2, <1>6 DEF Input
<1>8. /\ verified' = verified \cup {<<user, device>>}
      /\ Mint(pair)
      /\ proved' = proved \cup {user}
      /\ \/ Finish(input, device, pair)
         \/ /\ flow' = [step |-> Form, input |-> input, device |-> device]
            /\ given' = pair
            /\ UNCHANGED <<entry, run, held, latest>>
      /\ UNCHANGED <<kind, password>>
  BY <1>2, <1>3, <1>5, <1>6, <1>7 DEF SubmitCode
<1>9. /\ live' \subseteq Pairs /\ verified' \subseteq Users \X Devices /\ proved' \subseteq Users
  BY <1>8 DEF IInv, TypeOK, Mint
<1>10. ProvedOn(device)'
  BY <1>4, <1>8 DEF ProvedOn
<1>11. CASE Finish(input, device, pair)
  BY <1>7, <1>8, <1>9, <1>10, <1>11, Finished, FinishInv DEF IInv
<1>12. CASE /\ flow' = [step |-> Form, input |-> input, device |-> device]
            /\ given' = pair
            /\ UNCHANGED <<entry, run, held, latest>>
  <2>1. flow'.step = Form /\ flow'.input = input /\ flow'.device = device
    BY <1>12
  <2>2. Form = IF entry = None THEN "auth" ELSE "reauth"
    BY DEF Form
  <2>3. TypeOK'
    BY <1>8, <1>9, <1>12, <2>1, <2>2 DEF IInv, TypeOK
  <2>4. PairsKept'
    BY <1>7, <1>12, <2>1, <2>2 DEF IInv, PairsKept
  <2>5. StepsSettled'
    BY <1>7, <1>12, <2>1, <2>2, NoneApart DEF StepsSettled
  <2>6. DeviceKept'
    BY <1>4, <1>7, <1>10, <1>12, <2>1, <2>2, NoneApart DEF DeviceKept, ProvedOn
  <2> QED BY <2>3, <2>4, <2>5, <2>6 DEF IInv
<1> QED BY <1>8, <1>11, <1>12

LEMMA LostStep ==
    ASSUME IInv, CodeLost
    PROVE  IInv'
<1>1. UNCHANGED <<kind, password, live, entry, run, held, flow, latest, given, proved>>
  BY DEF CodeLost, past
<1>2. flow.step = "code" /\ verified' = verified \cup {<<flow.input.user, flow.device>>}
  BY DEF CodeLost
<1>3. verified' \subseteq Users \X Devices
  BY <1>2, CodeDevice DEF IInv, TypeOK
<1>4. TypeOK'
  BY <1>1, <1>3 DEF IInv, TypeOK
<1>5. PairsKept' /\ StepsSettled'
  BY <1>1 DEF IInv, PairsKept, StepsSettled
<1>6. DeviceKept'
  BY <1>1, <1>2 DEF IInv, DeviceKept, ProvedOn
<1> QED BY <1>4, <1>5, <1>6 DEF IInv

\* A flow that is given up, and a restart, which takes the flow with it.
LEMMA CloseStep ==
    ASSUME IInv, CloseFlow
    PROVE  IInv'
<1>1. flow'.step = "none" /\ flow'.input = NoInput /\ flow'.device = None
  BY DEF CloseFlow, NoFlow
<1>2. /\ given' = None
      /\ proved' = IF entry = None THEN {} ELSE proved
      /\ verified' = IF entry = None THEN {} ELSE verified
      /\ UNCHANGED <<kind, password, live, entry, run, held, latest>>
  BY DEF CloseFlow
<1>3. TypeOK'
  BY <1>1, <1>2, NoInputTyped DEF IInv, TypeOK
<1>4. PairsKept' /\ StepsSettled'
  BY <1>1, <1>2 DEF IInv, PairsKept, StepsSettled
<1>5. DeviceKept'
  BY <1>1, <1>2 DEF IInv, DeviceKept, ProvedOn
<1> QED BY <1>3, <1>4, <1>5 DEF IInv

LEMMA RestartStep ==
    ASSUME IInv, Reload \/ Restart
    PROVE  IInv'
<1>1. /\ run' = "trying" /\ held' = None /\ entry # None
      /\ UNCHANGED <<kind, password, live, verified, entry, latest, proved>>
  BY DEF Reload, Restart, server, past, IInv, TypeOK
<1>2. \/ flow' = flow /\ given' = given
      \/ /\ flow'.step = "none" /\ flow'.input = NoInput /\ flow'.device = None
         /\ given' = None
  BY DEF Reload, Restart, past, NoFlow
<1>3. TypeOK'
  BY <1>1, <1>2, NoInputTyped DEF IInv, TypeOK
<1>4. PairsKept' /\ StepsSettled'
  BY <1>1, <1>2 DEF IInv, PairsKept, StepsSettled
<1>5. DeviceKept'
  BY <1>1, <1>2 DEF IInv, DeviceKept, ProvedOn
<1> QED BY <1>3, <1>4, <1>5 DEF IInv

\* The entry with another pair.
LEMMA Persisted ==
    ASSUME IInv, entry # None, NEW pair \in Pairs, Persist(pair)
    PROVE  /\ entry' \in Input /\ entry' # None
           /\ entry'.user = entry.user /\ entry'.device = entry.device /\ entry'.pair = pair
<1>1. entry \in Input /\ entry' = [entry EXCEPT !.pair = pair]
  BY DEF IInv, TypeOK, Persist
<1>2. /\ entry' \in Input
      /\ entry'.user = entry.user /\ entry'.device = entry.device /\ entry'.pair = pair
  BY <1>1 DEF Input
<1> QED BY <1>2, NoneApart

\* The controller's login, at the setup or when its token runs out.
LEMMA SetupStep ==
    ASSUME IInv, SetupEntry
    PROVE  IInv' /\ (Refused => latest \notin live)
<1>1. run = "trying" /\ entry # None /\ entry \in Input /\ entry.user \in Users
  BY DEF SetupEntry, IInv, TypeOK, Input
<1>2. held = None /\ latest = entry.pair
  BY <1>1 DEF IInv, PairsKept
<1>3. PICK result \in {Login(entry), Down(entry)} :
        /\ LoggedIn(result)
        /\ latest' = IF result.says = "ok" THEN result.pair ELSE latest
        /\ IF result.says = "ok" /\ result.pair # entry.pair
           THEN Persist(result.pair) ELSE UNCHANGED entry
        /\ \/ /\ result.says = "ok"
              /\ run' = "up" /\ held' = result.pair /\ UNCHANGED flow
           \/ /\ result.says \in {"ok", "down"}
              /\ run' \in {"trying", "error"} /\ UNCHANGED <<held, flow>>
           \/ /\ result.says \in {"wrong", "code"}
              /\ run' = "failed" /\ UNCHANGED held
              /\ flow' = IF flow.step = "none"
                         THEN [NoFlow EXCEPT !.step = "reauth", !.input = entry]
                         ELSE flow
  BY DEF SetupEntry, FailedSetup
<1>4. /\ result.says = "ok" => result.pair \in Pairs
      /\ live' \subseteq Pairs
      /\ result.says \in {"wrong", "code"} => entry.pair \notin live
  BY <1>1, <1>3, Results
<1>5. UNCHANGED <<kind, password, verified, given, proved>>
  BY DEF SetupEntry
<1>6. /\ entry' \in Input /\ entry' # None
      /\ entry'.user = entry.user /\ entry'.device = entry.device
      /\ entry'.pair = latest' /\ latest' \in Pairs \cup {None}
  <2>1. CASE result.says = "ok" /\ result.pair # entry.pair
    BY <1>1, <1>3, <1>4, <2>1, Persisted
  <2>2. CASE ~(result.says = "ok" /\ result.pair # entry.pair)
    BY <1>1, <1>2, <1>3, <1>4, <2>2 DEF IInv, TypeOK
  <2> QED BY <2>1, <2>2
<1>7. \/ run' = "up" /\ held' = latest' /\ held' \in Pairs
      \/ run' \in {"trying", "failed", "error"} /\ held' = None
  BY <1>1, <1>2, <1>3, <1>4
<1>8. \/ flow' = flow
      \/ /\ flow.step = "none" /\ flow'.step = "reauth" /\ entry' = entry
         /\ flow'.input = entry /\ flow'.device = None
  BY <1>3 DEF NoFlow
<1>9. TypeOK'
  BY <1>1, <1>4, <1>5, <1>6, <1>7, <1>8, NoneApart DEF IInv, TypeOK
<1>10. PairsKept'
  BY <1>5, <1>6, <1>7, <1>8 DEF IInv, PairsKept
<1>11. StepsSettled'
  BY <1>1, <1>6, <1>8, NoneApart DEF IInv, StepsSettled
<1>12. DeviceKept'
  BY <1>1, <1>5, <1>6, <1>8 DEF IInv, DeviceKept, ProvedOn
<1>13. Refused => latest \notin live
  BY <1>1, <1>2, <1>3, <1>4 DEF Refused
<1> QED BY <1>9, <1>10, <1>11, <1>12, <1>13 DEF IInv

LEMMA RenewStep ==
    ASSUME IInv, Renew
    PROVE  IInv'
<1>1. run = "up" /\ entry # None /\ entry \in Input /\ entry.user \in Users
  BY DEF Renew, IInv, TypeOK, Input
<1>2. PICK a \in Input : a = [entry EXCEPT !.pair = held]
  BY <1>1 DEF IInv, TypeOK, Input
<1>3. a.user = entry.user
  BY <1>1, <1>2 DEF Input
<1>4. PICK result \in {Login(a), Down(a)} :
          /\ result.says = "ok" /\ LoggedIn(result)
          /\ latest' = result.pair /\ held' = result.pair /\ Persist(result.pair)
  BY <1>2 DEF Renew
<1>5. result.pair \in Pairs /\ live' \subseteq Pairs
  BY <1>1, <1>3, <1>4, Results
<1>6. UNCHANGED <<kind, password, verified, run, flow, given, proved>>
  BY DEF Renew
<1>7. /\ entry' \in Input /\ entry' # None
      /\ entry'.user = entry.user /\ entry'.device = entry.device /\ entry'.pair = result.pair
  BY <1>1, <1>4, <1>5, Persisted
<1>8. TypeOK'
  BY <1>1, <1>4, <1>5, <1>6, <1>7 DEF IInv, TypeOK
<1>9. PairsKept' /\ StepsSettled'
  BY <1>1, <1>4, <1>6, <1>7 DEF IInv, PairsKept, StepsSettled
<1>10. DeviceKept'
  BY <1>1, <1>6, <1>7 DEF IInv, DeviceKept, ProvedOn
<1> QED BY <1>8, <1>9, <1>10 DEF IInv

LEMMA StutterStep == IInv /\ UNCHANGED vars => IInv'
BY DEF vars, server, past, IInv, TypeOK, PairsKept, StepsSettled, DeviceKept, ProvedOn

LEMMA NextInv == IInv /\ [Next]_vars => IInv'
<1> SUFFICES ASSUME IInv, [Next]_vars PROVE IInv'
  OBVIOUS
<1>1. CASE \/ \E u \in Users, typed \in Passwords : SubmitAuth(u, typed)
           \/ \E typed \in Passwords : SubmitReauth(typed)
  BY <1>1, SubmitStep, ValidateStep
<1> QED BY <1>1, VendorStep, StartStep, CodeStep, LostStep, CloseStep, RestartStep,
           SetupStep, RenewStep, StutterStep DEF Next

-------------------------------------------------------------------------------
(* What the user is asked.                                                  *)

\* A form asks for a code only after the login has: the pair was tried first.
LEMMA FormAsks ==
    ASSUME IInv, flow.step \in {"auth", "reauth"},
           NEW input \in Input, input.user \in Users,
           input.device = flow.input.device, input.pair = flow.input.pair,
           Validate(input, flow.step),
           NEW u \in Users, AsksCode(u)
    PROVE  given \notin live /\ (u \in proved => kind[u] = "always")
<1>1. PICK device \in Devices : device = ClientDevice(input)
  BY SameDevice
<1>2. ProvedOn(device)
  BY <1>1, SameDevice
<1>3. PICK a \in Input : a = [input EXCEPT !.device = device]
  BY DEF Input
<1>4. /\ a = Account(input) /\ a.user = input.user /\ a.device = device
      /\ a.pair = flow.input.pair
  BY <1>1, <1>3 DEF Account, Input
<1>5. PICK result \in {Login(a), Down(a)} :
          /\ LoggedIn(result)
          /\ \/ Finish(input, device, result.pair)
             \/ result.says = "code" /\ flow'.input = input
             \/ flow'.step = flow.step
  BY <1>4 DEF Validate
<1>6. result.says = "code" /\ flow'.input = input
  BY <1>5 DEF AsksCode, Finish, NoFlow
<1>7. u = a.user
  BY <1>4, <1>6 DEF AsksCode
<1>8. a.pair \notin live /\ (kind[u] = "always" \/ <<u, device>> \notin verified)
  BY <1>4, <1>5, <1>6, <1>7, Results
<1>9. given \notin live
  BY <1>4, <1>8, NoneApart DEF IInv, TypeOK, PairsKept
<1> QED BY <1>2, <1>8, <1>9 DEF ProvedOn

\* No other step asks for one, and none but the setup is refused.
LEMMA OnlyForms ==
    ASSUME IInv, NEW u \in Users, AsksCode(u), Next
    PROVE  \/ \E v \in Users, typed \in Passwords : SubmitAuth(v, typed)
           \/ \E typed \in Passwords : SubmitReauth(typed)
<1>1. flow'.step = "code" /\ flow' # flow
  BY DEF AsksCode
<1>2. ~StartUser /\ ~CloseFlow /\ ~Restart
  BY <1>1 DEF StartUser, CloseFlow, Restart, NoFlow
<1>3. ~SubmitCode
  BY <1>1 DEF SubmitCode, Finish, NoFlow, Form
<1>4. ~SetupEntry
  BY <1>1 DEF SetupEntry, NoFlow
<1>5. ~Expire /\ ~ChangePassword /\ ~CodeLost /\ ~Renew /\ ~Reload
  BY <1>1 DEF Expire, ChangePassword, CodeLost, Renew, Reload
<1> QED BY <1>2, <1>3, <1>4, <1>5 DEF Next

LEMMA OnlySetup ==
    ASSUME IInv, Refused, Next
    PROVE  SetupEntry
BY DEF Next, Refused, Expire, ChangePassword, StartUser, SubmitAuth, SubmitReauth, Validate,
       SubmitCode, CodeLost, CloseFlow, Renew, Reload, Restart, Finish

LEMMA AsksRightly ==
    ASSUME IInv, [Next]_vars
    PROVE  [/\ Refused => latest \notin live
            /\ \A u \in Users : AsksCode(u) =>
                   /\ ~(given \in live /\ given.user = u)
                   /\ u \in proved => kind[u] = "always"]_vars
<1> SUFFICES ASSUME Next
             PROVE  /\ Refused => latest \notin live
                    /\ \A u \in Users : AsksCode(u) =>
                           /\ ~(given \in live /\ given.user = u)
                           /\ u \in proved => kind[u] = "always"
  OBVIOUS
<1>1. Refused => latest \notin live
  BY OnlySetup, SetupStep
<1>2. ASSUME NEW u \in Users, AsksCode(u)
      PROVE  given \notin live /\ (u \in proved => kind[u] = "always")
  BY <1>2, OnlyForms, SubmitStep, FormAsks
<1> QED BY <1>1, <1>2

-------------------------------------------------------------------------------
(* The theorems.                                                            *)

\* Every variable keeps its type, and an entry has the device ID that the
\* controller reads from it unasked, over every way a form, a code, a setup or a
\* renewal may end.
THEOREM TypeCorrect == Spec => []TypeOK
<1>1. IInv => TypeOK
  BY DEF IInv
<1> QED BY <1>1, InitInv, NextInv, PTL DEF Spec

\* The user is sent to reauthenticate, or asked for another code, only when the
\* pair got last is refused and the password is not enough (issue #21): the
\* flow's carried device and pair, the pair's persisting and the order of pair
\* and password in the authenticator together.
THEOREM AskedRightly == Spec => AskedOnlyWhenNeeded
BY InitInv, NextInv, AsksRightly, PTL DEF Spec, AskedOnlyWhenNeeded

===============================================================================
