--------------------------------- MODULE Login ---------------------------------
(***************************************************************************)
(* Logging in: the config flow (config_flow.py), the config entry it makes *)
(* or updates, its setup by the controller, and the authenticator that     *)
(* prefers the account pair of an earlier login over the password          *)
(* (authentication.py).                                                    *)
(*                                                                         *)
(* An account of kind "device" must verify a client device by an emailed   *)
(* code before its password is accepted there; one of kind "always" is     *)
(* asked for a code at every login by password, verified or not (issue     *)
(* #21).  Only a pair gets such an account past a reload.  Pairs expire,   *)
(* passwords are changed, and any call may fail to connect.                *)
(***************************************************************************)
EXTENDS Naturals

CONSTANTS Users,    \* the accounts the user may type
          Devices,  \* client device IDs
          Ids,      \* what tells the pairs of one account apart
          None

ASSUME DevicesAssumption == Devices # {}

\* Beside two pairs of an account there is always a third that it may get.
ASSUME IdsAssumption == Ids # {} /\ \A i, j \in Ids : \E k \in Ids : k \notin {i, j}

Kinds == {"plain", "device", "always"}
Passwords == 1..2
Pairs == [user : Users, id : Ids]

VARIABLES
    kind,      \* of each account
    password,  \* the account's password, as the vendor has it
    live,      \* the pairs the vendor accepts, those nobody holds left out
    verified,  \* the devices verified for an account, likewise
    entry,     \* the config entry: [user, password, device, pair], or None
    run,       \* of the entry: "off", "trying" to set up, "up", "failed" when it was
               \* refused, or "error": a setup error, which is not tried again
    held,      \* the pair in the controller's authenticator
    flow,      \* the config flow
    latest,    \* history: the pair the entry was given or obtained last
    given,     \* history: the pair a verification gave the flow
    proved     \* history: the accounts verified in the flow or for the entry

server == <<kind, password, live, verified>>
past == <<latest, given, proved>>
vars == <<server, entry, run, held, flow, past>>

\* input is self._input, device the flow's _device_id.  The pair that the flow's
\* authenticator holds is not read again unless the flow is finished with it.
Input == [user : Users \cup {None}, password : Passwords,
          device : Devices \cup {None}, pair : Pairs \cup {None}]
NoInput == [user |-> None, password |-> 1, device |-> None, pair |-> None]

ASSUME NoneAssumption == None \notin Users \cup Devices \cup Pairs \cup Input

NoFlow == [step |-> "none", input |-> NoInput, device |-> None]

Init ==
    /\ kind \in [Users -> Kinds]
    /\ password = 1
    /\ live = {}
    /\ verified = {}
    /\ entry = None
    /\ run = "off"
    /\ held = None
    /\ flow = NoFlow
    /\ latest = None
    /\ given = None
    /\ proved = {}

-------------------------------------------------------------------------------
(* The vendor.                                                              *)

Remembered == {held, latest, given, flow.input.pair}
              \cup {e.pair : e \in {entry} \ {None}}

\* A pair that nobody remembers.
FreshPair(user) ==
    CHOOSE p \in [user : {user}, id : Ids] : p \notin Remembered

Mint(p) == live' = (live \cap Remembered) \cup {p}

\* A login by password: the pair it gives, or what it is refused with.
PasswordLogin(a) ==
    IF a.password # password THEN "wrong"
    ELSE IF \/ kind[a.user] = "plain"
            \/ kind[a.user] = "device" /\ <<a.user, a.device>> \in verified
         THEN "ok"
         ELSE "code"

\* login: by the seeded pair if the vendor accepts it, else by password.
Login(a) ==
    IF a.pair \in live THEN [says |-> "ok", pair |-> a.pair]
    ELSE [says |-> PasswordLogin(a),
          pair |-> IF PasswordLogin(a) = "ok" THEN FreshPair(a.user) ELSE a.pair]

\* What any call may come to instead: the authenticator keeps its pair.
Down(a) == [says |-> "down", pair |-> a.pair]

\* The vendor's side of a login.
LoggedIn(result) ==
    IF result.says = "ok" /\ result.pair \notin live
    THEN Mint(result.pair) ELSE UNCHANGED live

Expire ==
    /\ \E p \in live : live' = live \ {p}
    /\ UNCHANGED <<kind, password, verified, entry, run, held, flow, past>>

ChangePassword ==
    /\ password = 1
    /\ password' = 2
    /\ UNCHANGED <<kind, live, verified, entry, run, held, flow, past>>

-------------------------------------------------------------------------------
(* The config flow.                                                         *)

StartUser ==
    /\ flow.step = "none"
    /\ entry = None
    /\ flow' = [NoFlow EXCEPT !.step = "auth"]
    /\ UNCHANGED <<server, entry, run, held, past>>

\* A new client device ID, unless the input has one.
ClientDevice(input) ==
    IF input.device # None THEN input.device
    ELSE CHOOSE d \in Devices : \A u \in Users : <<u, d>> \notin verified

\* Mutated form: the device verified in this flow is forgotten.
FinishWithoutDevice(input, device, auth) ==
    /\ entry' = [input EXCEPT !.pair = IF auth = None THEN @ ELSE auth]
    /\ run' = "trying"
    /\ held' = None
    /\ flow' = NoFlow
    /\ latest' = entry'.pair
    /\ given' = None

\* _finish_flow: what the login used and got becomes the entry, which is set up.
Finish(input, device, auth) ==
    /\ entry' = [input EXCEPT !.device = device,
                              !.pair = IF auth = None THEN @ ELSE auth]
    /\ run' = "trying"
    /\ held' = None
    /\ flow' = NoFlow
    /\ latest' = entry'.pair
    /\ given' = None

\* _async_set_input: what the authenticator is built from.  The input itself
\* does not learn of a new device ID.
Account(input) == [input EXCEPT !.device = ClientDevice(input)]

\* _validate_input and what follows it: the login, then the MQTT connection, or
\* the request for a code.
Validate(input, form) ==
    LET a == Account(input)
        device == a.device
    IN  \E result \in {Login(a), Down(a)} :
            /\ LoggedIn(result)
            /\ LET shown(step) ==
                     /\ flow' = [step |-> step, input |-> input, device |-> device]
                     /\ UNCHANGED <<entry, run, held, latest, given>>
               IN  \/ result.says = "ok" /\ Finish(input, device, result.pair)
                   \/ result.says = "code" /\ shown("code")
                   \/ shown(form)

\* Mutated form: the pair of this flow is not carried to the next try.
CarriedDeviceOnly(user, typed) ==
    [user |-> user, password |-> typed, device |-> flow.input.device, pair |-> None]

\* async_step_auth: what a verification in this flow has given is carried over.
Carried(user, typed) ==
    [user |-> user, password |-> typed, device |-> flow.input.device,
     pair |-> flow.input.pair]

SubmitAuth(user, typed) ==
    /\ flow.step = "auth"
    /\ Validate(Carried(user, typed), "auth")
    /\ UNCHANGED <<kind, password, verified, proved>>

\* async_step_reauth_confirm: the entry's data with the typed password.
SubmitReauth(typed) ==
    /\ flow.step = "reauth"
    /\ Validate([flow.input EXCEPT !.password = typed], "reauth")
    /\ UNCHANGED <<kind, password, verified, proved>>

\* The form the user is sent back to.
Form == IF entry = None THEN "auth" ELSE "reauth"

\* async_step_device_verification with the right code: the device and the pair
\* go into the input before the MQTT connection is tried.
SubmitCode ==
    /\ flow.step = "code"
    /\ LET pair == FreshPair(flow.input.user)
           input == [flow.input EXCEPT !.device = flow.device, !.pair = pair]
       IN  /\ verified' = verified \cup {<<input.user, flow.device>>}
           /\ Mint(pair)
           /\ proved' = proved \cup {input.user}
           /\ \/ Finish(input, flow.device, pair)
              \/ /\ flow' = [step |-> Form, input |-> input, device |-> flow.device]
                 /\ given' = pair
                 /\ UNCHANGED <<entry, run, held, latest>>
    /\ UNCHANGED <<kind, password>>

\* The code was right, but the login after it did not go through: the device is
\* verified, and nothing of it is known here.
CodeLost ==
    /\ flow.step = "code"
    /\ verified' = verified \cup {<<flow.input.user, flow.device>>}
    /\ UNCHANGED <<kind, password, live, entry, run, held, flow, past>>

\* async_remove: a flow given up.  What it had got was stored nowhere.
CloseFlow ==
    /\ flow.step # "none"
    /\ flow' = NoFlow
    /\ given' = None
    /\ proved' = IF entry = None THEN {} ELSE proved
    /\ verified' = IF entry = None THEN {} ELSE verified
    /\ UNCHANGED <<kind, password, live, entry, run, held, latest>>

-------------------------------------------------------------------------------
(* The entry.                                                               *)

\* Mutated form: a replaced pair stays in memory.
PersistNothing(pair) == UNCHANGED entry

\* _persist_account_credentials, called with a pair other than the held one.
Persist(pair) == entry' = [entry EXCEPT !.pair = pair]

\* What becomes of a setup that fails to connect: initialize makes the library's
\* own errors into ConfigEntryNotReady, which is tried again; a connection error of
\* aiohttp or a timeout it lets through, and Home Assistant tries no more.
FailedSetup == {"trying", "error"}

\* async_setup_entry and the controller's initialize.  What is refused starts a
\* reauthentication.
SetupEntry ==
    /\ run = "trying"
    /\ \E result \in {Login(entry), Down(entry)} :
        /\ LoggedIn(result)
        /\ latest' = IF result.says = "ok" THEN result.pair ELSE latest
        /\ IF result.says = "ok" /\ result.pair # entry.pair
           THEN Persist(result.pair) ELSE UNCHANGED entry
        /\ \/ /\ result.says = "ok"
              /\ run' = "up" /\ held' = result.pair /\ UNCHANGED flow
           \/ /\ result.says \in {"ok", "down"}
              /\ run' \in FailedSetup /\ UNCHANGED <<held, flow>>
           \/ /\ result.says \in {"wrong", "code"}
              /\ run' = "failed" /\ UNCHANGED held
              /\ flow' = IF flow.step = "none"
                         THEN [NoFlow EXCEPT !.step = "reauth", !.input = entry]
                         ELSE flow
    /\ UNCHANGED <<kind, password, verified, given, proved>>

\* The authenticator logs in again when its token runs out.  One that is
\* refused is tried again with the next request.
Renew ==
    /\ run = "up"
    /\ \E result \in {Login([entry EXCEPT !.pair = held])} :
        /\ result.says = "ok" /\ result.pair # held
        /\ LoggedIn(result)
        /\ latest' = result.pair
        /\ held' = result.pair
        /\ Persist(result.pair)
    /\ UNCHANGED <<kind, password, verified, run, flow, given, proved>>

\* The entry is reloaded.
Reload ==
    /\ run \in {"up", "failed", "error"}
    /\ run' = "trying"
    /\ held' = None
    /\ UNCHANGED <<server, entry, flow, past>>

\* Home Assistant restarts: what is not in the entry is gone.
Restart ==
    /\ entry # None
    /\ run' = "trying"
    /\ held' = None
    /\ flow' = NoFlow
    /\ given' = None
    /\ UNCHANGED <<server, entry, latest, proved>>

Next ==
    \/ Expire
    \/ ChangePassword
    \/ StartUser
    \/ \E u \in Users, typed \in Passwords : SubmitAuth(u, typed)
    \/ \E typed \in Passwords : SubmitReauth(typed)
    \/ SubmitCode
    \/ CodeLost
    \/ CloseFlow
    \/ SetupEntry
    \/ Renew
    \/ Reload
    \/ Restart

\* Home Assistant retries a setup that is not ready, and the vendor can be reached
\* again and again: no setup is retried for ever.
Fairness == SF_vars(SetupEntry /\ run' # "trying")

Spec == Init /\ [][Next]_vars /\ Fairness

-------------------------------------------------------------------------------
(* Properties.                                                              *)

\* Every variable has its type, and an entry has a device ID, which the
\* controller reads unasked.
TypeOK ==
    /\ kind \in [Users -> Kinds]
    /\ password \in Passwords
    /\ live \subseteq Pairs
    /\ verified \subseteq Users \X Devices
    /\ entry # None => entry \in Input /\ entry.user # None /\ entry.device # None
    /\ run \in {"off", "trying", "up", "failed", "error"} /\ (run = "off" <=> entry = None)
    /\ {held, latest, given} \subseteq Pairs \cup {None}
    /\ flow.step \in {"none", "auth", "reauth", "code"}
    /\ flow.input \in Input
    /\ flow.device \in Devices \cup {None}
    /\ proved \subseteq Users

\* The account a step begins to ask a code of, and whether the setup is refused.
AsksCode(u) == flow'.step = "code" /\ flow.step # "code" /\ flow'.input.user = u
Refused == run' = "failed" /\ run # "failed"

\* The user is asked to reauthenticate, or for another code, only if the pair
\* that the entry or a verification got last is no longer accepted, whatever
\* failed or restarted since; and an account that passed verification is asked
\* for a second code only if it is one that always is (the loop of issue #21).
AskedOnlyWhenNeeded ==
    [][/\ Refused => latest \notin live
       /\ \A u \in Users : AsksCode(u) =>
              /\ ~(given \in live /\ given.user = u)
              /\ u \in proved => kind[u] = "always"]_vars

\* An entry whose last pair is accepted comes up without the user, or stops at a
\* connection error that Home Assistant does not retry; it never ends in a
\* reauthentication, whatever calls failed, pairs were replaced and restarts came.
VerifiedComesUp ==
    (run = "trying" /\ latest \in live) ~> (run \in {"up", "error"} \/ latest \notin live)

-------------------------------------------------------------------------------
(* What the comments and tests say and the code does not do.                *)

\* "Never with credentials for a username the user is newly typing here": the
\* pair of an entry is of the account it was made for.
StoredPairIsOwn == entry # None /\ entry.pair # None => entry.pair.user = entry.user

===============================================================================
