----------------------------- MODULE PamProofs ------------------------------
(***************************************************************************)
(* Proofs about the PAM session, for any users, accounts and modules.      *)
(***************************************************************************)
EXTENDS PamSession, TLAPS

USE DEF Secrets, Held

\* What PAM holds is of its type when it holds one or nothing of each.
LEMMA HeldType ==
    ASSUME NEW h \in {0, 1}, NEW c \in {0, 1}, NEW s \in {0, 1}
    PROVE  Held(h, c, s) \in [handles : 0 .. 1, creds : 0 .. 1,
                               sessions : 0 .. 1]
  OBVIOUS

LEMMA IInvInit == ASSUME Init PROVE TypeOK /\ IInv
<1>1. TypeOK
  <2>1. LedgerType
    BY DEF Init, LedgerType
  <2> QED BY <2>1 DEF Init, TypeOK
<1>2. HeldAt
  BY DEF Init, HeldAt, OnlyRefused
<1>3. IInv
  BY <1>2, UsersAssumption DEF Init, IInv, Opening, Closing
<1> QED BY <1>1, <1>3

\* One step of the program, of PAM or of a module keeps the invariant.
LEMMA IInvStep ==
    ASSUME TypeOK, IInv, [Next]_vars PROVE TypeOK' /\ IInv'
<1> USE UsersAssumption DEF TypeOK, LedgerType, IInv, HeldAt, OnlyRefused,
        Opening, Closing, call
<1>1. ASSUME NEW u \in Users \cup {None}, NEW s \in Secrets, Login(u, s)
      PROVE  TypeOK' /\ IInv'
  <2>1. /\ step = "idle" /\ step' = "start" /\ service' = "xlogin"
        /\ user' = u /\ u # None /\ secret' = s /\ ~pamh /\ heard' = "none"
        /\ UNCHANGED <<pamh, cred, opened, ledger, refused>>
    BY <1>1 DEF Login, Begin, Begins
  <2>2. TypeOK'
    BY <2>1
  <2>3. IInv'
    BY <2>1
  <2> QED BY <2>2, <2>3
<1>2. ASSUME NEW u \in Users \cup {None}, Autologin(u)
      PROVE  TypeOK' /\ IInv'
  <2>1. /\ step = "idle" /\ step' = "start" /\ service' = "xlogin-autologin"
        /\ user' = u /\ u # None /\ u \notin Roots /\ secret' = "none"
        /\ ~pamh /\ heard' = "none"
        /\ UNCHANGED <<pamh, cred, opened, ledger, refused>>
    BY <1>2 DEF Autologin, MayEnter, Begin, Begins
  <2>2. TypeOK'
    BY <2>1
  <2>3. IInv'
    BY <2>1
  <2> QED BY <2>2, <2>3
<1>3. CASE Close
  BY <1>3 DEF Close
<1>4. CASE StartReturns
  <2>1. CASE pamh' = TRUE /\ ledger' = Held(1, 0, 0) /\ refused' = {}
    <3>1. TypeOK'
      BY <1>4, <2>1, HeldType DEF StartReturns
    <3>2. IInv'
      BY <1>4, <2>1 DEF StartReturns
    <3> QED BY <3>1, <3>2
  <2>2. CASE pamh' = FALSE /\ UNCHANGED <<ledger, refused>>
    BY <1>4, <2>2 DEF StartReturns
  <2> QED BY <1>4, <2>1, <2>2 DEF StartReturns
<1>5. CASE AuthenticateReturns
  BY <1>5 DEF AuthenticateReturns, AfterFailure
<1>6. CASE AccountReturns
  BY <1>6 DEF AccountReturns, AfterFailure
<1>7. CASE EstablishReturns
  BY <1>7 DEF EstablishReturns, AfterFailure
<1>8. CASE OpenReturns
  BY <1>8 DEF OpenReturns, AfterFailure
<1>9. CASE CloseReturns
  <2>1. CASE ledger' = Held(1, 1, 0) /\ UNCHANGED refused
    <3>1. /\ step' \in {"delete", "end"} /\ (step' = "end" => ~cred)
          /\ UNCHANGED <<call, pamh, cred, opened, heard>>
      BY <1>9 DEF CloseReturns
    <3>2. TypeOK'
      BY <2>1, <3>1, HeldType
    <3>3. IInv'
      BY <1>9, <2>1, <3>1 DEF CloseReturns
    <3> QED BY <3>2, <3>3
  <2>2. CASE UNCHANGED ledger /\ refused' = refused \cup {"session"}
    BY <1>9, <2>2 DEF CloseReturns
  <2> QED BY <1>9, <2>1, <2>2 DEF CloseReturns, TakesBack
<1>10. CASE DeleteReturns
  <2>1. /\ step \in {"undo", "delete"}
        /\ step' = IF step = "undo" THEN "endfail" ELSE "end"
        /\ cred' = FALSE
        /\ UNCHANGED <<call, pamh, opened, heard>>
    BY <1>10 DEF DeleteReturns, Forget
  <2>2. ledger.handles = 1 /\ (ledger.sessions = 1 => "session" \in refused /\ opened)
    BY <2>1
  <2>3. CASE ledger' = [ledger EXCEPT !.creds = 0] /\ UNCHANGED refused
    <3>1. LedgerType' /\ ledger'.handles = 1 /\ ledger'.creds = 0
          /\ ledger'.sessions = ledger.sessions
      BY <2>2, <2>3
    <3>2. TypeOK'
      <4> HIDE DEF LedgerType
      <4> QED BY <2>1, <2>3, <3>1
    <3>3. IInv'
      BY <2>1, <2>2, <2>3, <3>1
    <3> QED BY <3>2, <3>3
  <2>4. CASE UNCHANGED ledger /\ refused' = refused \cup {"credentials"}
    <3>1. TypeOK'
      BY <2>1, <2>4
    <3>2. IInv'
      BY <2>1, <2>2, <2>4
    <3> QED BY <3>1, <3>2
  <2> QED BY <1>10, <2>3, <2>4 DEF DeleteReturns, TakesBack
<1>11. CASE EndReturns
  <2>1. /\ step \in {"endfail", "end"} /\ step' = "idle"
        /\ pamh' = FALSE /\ opened' = FALSE
        /\ UNCHANGED <<call, cred, heard, refused>>
    BY <1>11 DEF EndReturns
  <2>2. LedgerType' /\ ledger'.handles = 0 /\ ledger'.creds = ledger.creds
        /\ ledger'.sessions = ledger.sessions
    BY <1>11 DEF EndReturns
  <2>3. TypeOK'
    <3> HIDE DEF LedgerType
    <3> QED BY <2>1, <2>2
  <2>4. IInv'
    BY <2>1, <2>2
  <2> QED BY <2>3, <2>4
<1>12. ASSUME NEW s \in OpeningStyles, AskOpening(s) PROVE TypeOK' /\ IInv'
  BY <1>12 DEF AskOpening, Answer
<1>13. ASSUME NEW s \in ClosingStyles, AskClosing(s) PROVE TypeOK' /\ IInv'
  BY <1>13 DEF AskClosing
<1>14. CASE UNCHANGED vars
  BY <1>14 DEF vars
<1> QED
  BY <1>1, <1>2, <1>3, <1>4, <1>5, <1>6, <1>7, <1>8, <1>9, <1>10, <1>11,
     <1>12, <1>13, <1>14 DEF Next, Calls, Returns, Asks

\* The inductive invariant of the PAM session.
THEOREM Invariance == Spec => [](TypeOK /\ IInv)
  BY IInvInit, IInvStep, PTL DEF Spec

\* The types of the ledger and of the globals.
THEOREM TypeCorrect == Spec => []TypeOK
BY Invariance, PTL

\* Between two calls PAM holds a whole session, or no handle and nothing that
\* it was not asked to take back, and g_pamh, g_cred_established and the caller
\* agree about which, whatever calls of the opening or the teardown fail.
THEOREM Contract == Spec => []LedgerAgrees
<1>1. TypeOK /\ IInv => LedgerAgrees
  BY DEF TypeOK, IInv, HeldAt, LedgerAgrees, OnlyRefused, Opening, Closing
<1> QED BY <1>1, Invariance, PTL

\* PAM_DELETE_CRED is only ever asked for credentials that exist.
THEOREM DeletesOnlyEstablished == Spec => []DeletesEstablished
<1>1. TypeOK /\ IInv => DeletesEstablished
  BY DEF TypeOK, IInv, HeldAt, DeletesEstablished, Opening, Closing
<1> QED BY <1>1, Invariance, PTL

\* pam_end() comes after PAM has been asked to close the session and to delete
\* the credentials on the handle, and has done so unless that call failed.
THEOREM FreedClean == Spec => EndsClean
<1>1. TypeOK /\ IInv /\ [Next]_vars => [HandleFreedClean]_vars
  <2> SUFFICES ASSUME TypeOK, IInv, Next, ledger'.handles < ledger.handles
               PROVE  OnlyRefused
    BY DEF HandleFreedClean, vars
  <2>1. EndReturns
    BY DEF TypeOK, LedgerType, IInv, HeldAt, Next, Calls, Returns, Asks,
           Login, Autologin, Begin, Close, StartReturns,
           AuthenticateReturns, AccountReturns, EstablishReturns,
           OpenReturns, CloseReturns, DeleteReturns, TakesBack, AskOpening,
           AskClosing
  <2> QED BY <2>1 DEF EndReturns, IInv, HeldAt, OnlyRefused
<1> QED BY <1>1, Invariance, PTL DEF Spec, EndsClean

\* Where no module asks for a password while it closes a session, a password
\* is answered only in the login it was typed for.  pam_late shows that the
\* hypothesis cannot go: conv_data is dead by then.
THEOREM BorrowedForOneLogin ==
    ASSUME "secret" \notin ClosingStyles PROVE Spec => AnswersHonest
<1>1. TypeOK /\ IInv /\ [Next]_vars => [AnswerBorrowed]_vars
  <2> SUFFICES ASSUME TypeOK, IInv, Next, heard' # heard, heard' # "none"
               PROVE  step \in Opening /\ service = "xlogin" /\ heard' = secret
    BY DEF AnswerBorrowed
  <2>1. PICK s \in OpeningStyles : AskOpening(s) /\ s = "secret"
    BY DEF Next, Calls, Returns, Asks, Login, Autologin, Begin, Close,
           StartReturns, AuthenticateReturns, AccountReturns,
           EstablishReturns, OpenReturns, CloseReturns, DeleteReturns,
           EndReturns, AskOpening, AskClosing
  <2>2. step \in Opening /\ heard' = secret
    BY <2>1 DEF AskOpening, Answer
  <2>3. service = "xlogin"
    BY <2>2 DEF TypeOK, IInv
  <2> QED BY <2>2, <2>3
<1> QED BY <1>1, Invariance, PTL DEF Spec, AnswersHonest

-----------------------------------------------------------------------------
(* auth.c implements the promise of auth.h.                                *)

LEMMA PromiseInit == ASSUME Init PROVE Promise!Init
  BY DEF Init, Promise!Init, holder, given

LEMMA PromiseStep ==
    ASSUME TypeOK, IInv, [Next]_vars PROVE [Promise!Next]_(Promise!vars)
<1> USE UsersAssumption DEF TypeOK, LedgerType, IInv, HeldAt, OnlyRefused,
        Opening, Closing, call, holder, given, Promise!vars
<1>1. ASSUME NEW u \in Users \cup {None}, NEW s \in Secrets, Login(u, s)
      PROVE  [Promise!Next]_(Promise!vars)
  BY <1>1 DEF Login, Begin, Begins, Promise!Next, Promise!Give
<1>2. ASSUME NEW u \in Users \cup {None}, Autologin(u)
      PROVE  [Promise!Next]_(Promise!vars)
  BY <1>2 DEF Autologin, MayEnter, Begin, Begins, Promise!Next, Promise!Give
<1>3. CASE Close
  BY <1>3 DEF Close
<1>4. CASE StartReturns
  BY <1>4 DEF StartReturns
<1>5. CASE AuthenticateReturns
  BY <1>5 DEF AuthenticateReturns, AfterFailure
<1>6. CASE AccountReturns
  BY <1>6 DEF AccountReturns, AfterFailure
<1>7. CASE EstablishReturns
  BY <1>7 DEF EstablishReturns, AfterFailure
<1>8. CASE OpenReturns
  <2>1. CASE opened'
    <3>1. holder = None /\ holder' = user /\ UNCHANGED given
      BY <1>8, <2>1 DEF OpenReturns
    <3>2. CASE given = user
      BY <3>1, <3>2 DEF Promise!Next, Promise!OpenWithPassword
    <3>3. CASE given # user
      <4>1. service = "xlogin-autologin" /\ user \notin Roots
        BY <1>8, <3>3 DEF OpenReturns
      <4> QED BY <3>1, <4>1, <1>8 DEF Promise!Next, Promise!OpenAutomatically,
                                      OpenReturns
    <3> QED BY <3>2, <3>3
  <2>2. CASE ~opened'
    BY <1>8, <2>2 DEF OpenReturns
  <2> QED BY <2>1, <2>2
<1>9. CASE CloseReturns
  BY <1>9 DEF CloseReturns, TakesBack, Promise!Next, Promise!Close
<1>10. CASE DeleteReturns
  BY <1>10 DEF DeleteReturns, TakesBack, Forget
<1>11. CASE EndReturns
  BY <1>11 DEF EndReturns, Promise!Next, Promise!Close
<1>12. ASSUME NEW s \in OpeningStyles, AskOpening(s)
       PROVE  [Promise!Next]_(Promise!vars)
  BY <1>12 DEF AskOpening, Answer, Promise!Next, Promise!Give
<1>13. ASSUME NEW s \in ClosingStyles, AskClosing(s)
       PROVE  [Promise!Next]_(Promise!vars)
  BY <1>13 DEF AskClosing, Promise!Next, Promise!Give
<1>14. CASE UNCHANGED vars
  BY <1>14 DEF vars
<1> QED
  BY <1>1, <1>2, <1>3, <1>4, <1>5, <1>6, <1>7, <1>8, <1>9, <1>10, <1>11,
     <1>12, <1>13, <1>14 DEF Next, Calls, Returns, Asks

\* The calls into PAM, in their order and with their failures, amount to one
\* session at a time that a password or an automatic login opened.
THEOREM Implementation == Spec => ImplementsPromise
  BY Invariance, PromiseInit, PromiseStep, PTL
     DEF Spec, ImplementsPromise, Promise!Spec
=============================================================================
