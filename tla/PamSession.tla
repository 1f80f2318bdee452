----------------------------- MODULE PamSession -----------------------------
(***************************************************************************)
(* The PAM conversation and session of src/src/session/auth.c: auth_begin  *)
(* behind auth_login and auth_autologin, auth_close_session, and the       *)
(* conversation function, one action for each call into PAM.  PAM and its  *)
(* modules are outside: ledger is what they hold for this process, and a   *)
(* module may fail any call and ask questions during it.                   *)
(*                                                                         *)
(* The caller may call in any order, as auth.h allows; Login has the order *)
(* in which xlogin does.                                                   *)
(***************************************************************************)
EXTENDS Naturals

CONSTANTS
    Users,          \* what a caller passes as a user name
    Accounts,       \* those getpwnam() finds
    Roots,          \* those whose uid is 0
    None,           \* no name: an empty string
    OpeningStyles,  \* what modules ask while a session is being opened
    ClosingStyles   \* what modules ask while it is being closed

Styles == {"secret", "name", "info", "other"}

ASSUME UsersAssumption == /\ Accounts \subseteq Users
                          /\ Roots \subseteq Accounts
                          /\ None \notin Users
ASSUME StylesAssumption == /\ OpeningStyles \subseteq Styles
                           /\ ClosingStyles \subseteq Styles

VARIABLES
    step,       \* which call into PAM auth.c makes next; "idle" is none
    service,    \* the stack that auth_begin names
    user,       \* its user argument
    secret,     \* its password argument: "right", "wrong" or "none"
    pamh,       \* g_pamh is not NULL
    cred,       \* g_cred_established
    opened,     \* the caller was told that its session is open
    ledger,     \* PAM: the handle in use, and what hangs on it or the last
    heard,      \* PAM: the last answer to a question for a password
    refused     \* history: what PAM failed to take back from that handle

vars == <<step, service, user, secret, pamh, cred, opened, ledger, heard,
          refused>>
call == <<service, user, secret>>

Opening == {"start", "authenticate", "account", "establish", "open",
            "undo", "endfail"}
Closing == {"close", "delete", "end"}
Secrets == {"right", "wrong", "none"}

LedgerType == ledger \in [handles : 0 .. 1, creds : 0 .. 1,
                          sessions : 0 .. 1]

TypeOK == /\ step \in {"idle"} \cup Opening \cup Closing
          /\ service \in {"xlogin", "xlogin-autologin"}
          /\ user \in Users \cup {None}
          /\ secret \in Secrets
          /\ pamh \in BOOLEAN /\ cred \in BOOLEAN /\ opened \in BOOLEAN
          /\ LedgerType
          /\ heard \in Secrets \cup {"garbage"}
          /\ refused \subseteq {"session", "credentials"}

Held(h, c, s) == [handles |-> h, creds |-> c, sessions |-> s]

Init == /\ step = "idle" /\ service = "xlogin" /\ user = None
        /\ secret = "none"
        /\ pamh = FALSE /\ cred = FALSE /\ opened = FALSE
        /\ ledger = Held(0, 0, 0) /\ heard = "none" /\ refused = {}

-----------------------------------------------------------------------------
(* The calls of auth.h.                                                    *)

\* Fault: a second login while a session is open is let through.
FaultyBegins(u) == u # None

\* The tests before pam_start: something to ask for, and no open session.
Begins(u) == u # None /\ ~pamh

Begin(srv, u, s) ==
    /\ step = "idle"
    /\ Begins(u)
    /\ step' = "start" /\ service' = srv /\ user' = u /\ secret' = s
    /\ heard' = "none"
    /\ UNCHANGED <<pamh, cred, opened, ledger, refused>>

\* auth_login(); a NULL password is refused like an empty name.
Login(u, s) == s # "none" /\ Begin("xlogin", u, s)

\* Fault: the account's uid is not looked at.
FaultyMayEnter(u) == u \in Accounts

\* The account tests of auth_autologin().
MayEnter(u) == u \in Accounts \ Roots

\* auth_autologin(); there is no password to answer with.
Autologin(u) == MayEnter(u) /\ Begin("xlogin-autologin", u, "none")

\* auth_close_session(), a no-op when nothing is open.
Close ==
    /\ step = "idle" /\ pamh
    /\ step' = "close"
    /\ UNCHANGED <<call, pamh, cred, opened, ledger, heard, refused>>

-----------------------------------------------------------------------------
(* auth_begin(): each step is a call into PAM, which may fail.             *)

StartReturns == \E ok \in BOOLEAN :
    /\ step = "start"
    /\ pamh' = ok
    /\ IF ok THEN ledger' = Held(1, 0, 0) /\ refused' = {}
             ELSE UNCHANGED <<ledger, refused>>
    /\ step' = IF ~ok THEN "idle"
               ELSE IF service = "xlogin" THEN "authenticate" ELSE "account"
    /\ UNCHANGED <<call, cred, opened, heard>>

\* Fault: the failure path is the same for every step, with no memory of
\* what was established.
FaultyAfterFailure == "endfail"

\* The label fail: credentials that were established are deleted first.
AfterFailure == IF cred THEN "undo" ELSE "endfail"

\* A stack that authenticates by password passes only who has given it.
AuthenticateReturns ==
    /\ step = "authenticate"
    /\ \/ heard = "right" /\ step' = "account"
       \/ step' = AfterFailure
    /\ UNCHANGED <<call, pamh, cred, opened, ledger, heard, refused>>

AccountReturns ==
    /\ step = "account"
    /\ step' \in {"establish", AfterFailure}
    /\ UNCHANGED <<call, pamh, cred, opened, ledger, heard, refused>>

EstablishReturns == \E ok \in BOOLEAN :
    /\ step = "establish"
    /\ cred' = (cred \/ ok)
    /\ ledger' = IF ok THEN [ledger EXCEPT !.creds = @ + 1] ELSE ledger
    /\ step' = IF ok THEN "open" ELSE AfterFailure
    /\ UNCHANGED <<call, pamh, opened, heard, refused>>

OpenReturns == \E ok \in BOOLEAN :
    /\ step = "open"
    /\ opened' = ok
    /\ ledger' = IF ok THEN [ledger EXCEPT !.sessions = @ + 1] ELSE ledger
    /\ step' = IF ok THEN "idle" ELSE AfterFailure
    /\ UNCHANGED <<call, pamh, cred, heard, refused>>

-----------------------------------------------------------------------------
(* Taking it down again.  These calls may fail too; auth.c ignores their   *)
(* results, goes on, and ends the handle whatever is still on it.          *)

\* PAM takes something back, or keeps it and says so to nobody.
TakesBack(field, what) ==
    \/ ledger' = [ledger EXCEPT ![field] = 0] /\ UNCHANGED refused
    \/ refused' = refused \cup {what} /\ UNCHANGED ledger

CloseReturns ==
    /\ step = "close"
    /\ TakesBack("sessions", "session")
    /\ step' = IF cred THEN "delete" ELSE "end"
    /\ UNCHANGED <<call, pamh, cred, opened, heard>>

\* Fault: the flag is left set for the next login.
FaultyForget == UNCHANGED cred

Forget == cred' = FALSE

DeleteReturns ==
    /\ step \in {"undo", "delete"}
    /\ TakesBack("creds", "credentials")
    /\ Forget
    /\ step' = IF step = "undo" THEN "endfail" ELSE "end"
    /\ UNCHANGED <<call, pamh, opened, heard>>

EndReturns ==
    /\ step \in {"endfail", "end"}
    /\ ledger' = [ledger EXCEPT !.handles = 0]
    /\ pamh' = FALSE /\ opened' = FALSE
    /\ step' = "idle"
    /\ UNCHANGED <<call, cred, heard, refused>>

-----------------------------------------------------------------------------
(* The conversation: what a module's question for a password is answered.  *)

\* Fault: no password is answered with an empty one.
FaultyAnswer == IF secret = "none" THEN "wrong" ELSE secret

\* conversation(): no password is a conversation error, not an empty string.
Answer == secret

\* A module asks while auth_begin() waits for PAM.  A name or a message
\* changes nothing here, and another question fails.
AskOpening(style) ==
    /\ step \in Opening \ {"start"}
    /\ heard' = IF style = "secret" THEN Answer ELSE heard
    /\ UNCHANGED <<step, call, pamh, cred, opened, ledger, refused>>

\* A module asks while auth_close_session() waits for PAM.  PAM still has
\* the pointer to conv_data, a variable of an auth_begin() that has returned:
\* whatever is at that place is the answer.
AskClosing(style) ==
    /\ step \in Closing
    /\ IF style = "secret" THEN heard' \in {"none", "garbage"}
                           ELSE UNCHANGED heard
    /\ UNCHANGED <<step, call, pamh, cred, opened, ledger, refused>>

-----------------------------------------------------------------------------
Calls == \/ \E u \in Users \cup {None} :
              (\E s \in Secrets : Login(u, s)) \/ Autologin(u)
         \/ Close

Returns == \/ StartReturns \/ AuthenticateReturns \/ AccountReturns
           \/ EstablishReturns \/ OpenReturns \/ CloseReturns
           \/ DeleteReturns \/ EndReturns

Asks == \/ \E s \in OpeningStyles : AskOpening(s)
        \/ \E s \in ClosingStyles : AskClosing(s)

Next == Calls \/ Returns \/ Asks

Spec == Init /\ [][Next]_vars

-----------------------------------------------------------------------------
(* Properties.                                                             *)

\* What is left of the handle is what PAM was asked to take back and did not.
OnlyRefused == /\ ledger.creds = 1 => "credentials" \in refused
               /\ ledger.sessions = 1 => "session" \in refused

\* auth.h's contract, "on failure everything is already torn down and there
\* is nothing to close": between two calls, PAM holds a whole session, or no
\* handle and nothing but what it has failed to take back, and the caller and
\* both globals say which.
LedgerAgrees ==
    step = "idle" =>
        IF opened THEN pamh /\ cred /\ ledger = Held(1, 1, 1)
                  ELSE ~pamh /\ ~cred /\ ledger.handles = 0 /\ OnlyRefused

\* PAM is asked to delete credentials only if it has established some.
DeletesEstablished == step \in {"undo", "delete"} => ledger.creds = 1

\* The contract that is "easy to drop": on whatever path a handle goes away,
\* PAM has been asked for every credential and session on it.  What it failed
\* to give up stays behind, and the program does not notice.
HandleFreedClean == ledger'.handles < ledger.handles => OnlyRefused

EndsClean == [][HandleFreedClean]_vars

\* A module that asks for a password gets the one that was typed, in the
\* login it was typed for, or no answer: auth.c:27, both are "borrowed for
\* the duration of one auth_login() call".
AnswerBorrowed ==
    heard' # heard /\ heard' # "none" =>
        step \in Opening /\ service = "xlogin" /\ heard' = secret

AnswersHonest == [][AnswerBorrowed]_vars

holder == IF ledger.handles = 1 /\ ledger.sessions = 1 THEN user ELSE None

given == IF heard = "right" THEN user ELSE None

Promise == INSTANCE PamPromise

\* The calls into PAM add up to what auth.h promises.
ImplementsPromise == Promise!Spec

\* The inductive invariant: what is held at each step.
HeldAt ==
    /\ step \in {"idle", "start"} =>
          IF pamh THEN ledger = Held(1, 1, 1)
                  ELSE ledger.handles = 0 /\ OnlyRefused
    /\ step = "close" => ledger = Held(1, 1, 1)
    /\ step \in {"open", "undo"} => ledger = Held(1, 1, 0)
    /\ step = "delete" => ledger.creds = 1
    /\ step \in {"authenticate", "account", "establish"} =>
          ledger = Held(1, 0, 0)
    /\ step \in {"delete", "end", "endfail"} =>
          /\ ledger.handles = 1
          /\ ledger.sessions = 1 => "session" \in refused /\ opened
    /\ step \in {"end", "endfail"} =>
          (ledger.creds = 1 => "credentials" \in refused)

IInv == /\ HeldAt
        /\ pamh <=> ledger.handles = 1
        /\ cred <=> \/ step \in {"open", "undo", "close", "delete"}
                    \/ step = "idle" /\ pamh
        /\ opened <=> step \in Closing \/ (step = "idle" /\ pamh)
        /\ step # "idle" \/ pamh => user # None
        /\ step = "start" => ~pamh
        /\ service = "xlogin-autologin" => /\ secret = "none"
                                           /\ user \notin Roots
        /\ step \in Opening => heard \in {"none", secret}
        /\ service = "xlogin" /\ step \in {"account", "establish", "open"} =>
              heard = "right"
=============================================================================
