---------------------------- MODULE LoginProofs ----------------------------
(***************************************************************************)
(* Theorems about the login state machine, for every set of names, pids    *)
(* and inputs and every bound: the types, the safety properties of         *)
(* LoginProperties, and that the program implements Seat.                  *)
(***************************************************************************)
EXTENDS LoginProperties, TLAPS

-----------------------------------------------------------------------------
(* Types, one group of variables at a time.                                *)

\* What may be found in the file has the types of its three variables.
LEMMA FileTypes ==
    \A f \in Files : /\ f.name \in Names \cup {None}
                     /\ f.trusted \in BOOLEAN /\ f.exact \in BOOLEAN
  BY FilesAssumption

\* A step keeps the types of the flags that drive the thread.
LEMMA ControlTypeStep == TypeOK /\ [Next]_vars => ControlType'
<1> SUFFICES ASSUME TypeOK, [Next]_vars PROVE ControlType'
  OBVIOUS
<1> USE DEF TypeOK, ControlType, Resting, Blocked, app, panel, window, disk,
         file, history
<1>1. CASE Start
  BY <1>1 DEF Start, Loaded, Arms, Grab, Allowed
<1>2. CASE HandleEvent
  BY <1>2 DEF HandleEvent, HandleUnseen, HandleDropped, CancelAutologin,
           HandleSwallowed, HandleNoMenu, HandleType, HandleToggle, SubmitEmpty, Submit, HandleOptions, HandleConsole,
           HandleBackground, HandlePower, Reset, StopCountdown, Writes
<1>3. CASE PamReturns
  BY <1>3 DEF PamReturns, AuthFails, AuthPasses, AutoauthFails,
           AutoauthPasses, Reset, Grab, Writes
<1>4. CASE Proceed
  BY <1>4 DEF Proceed, StartFails, StartForks, AssignPid, CleanupDone,
           ClosePam, ShowSaved, Hide, Launched, Reset, Grab
<1>5. CASE Tick \/ TickAutologin
  BY <1>5 DEF Tick, TickAutologin, StopCountdown, Grab
<1>6. CASE HandleSignals
  BY <1>6 DEF HandleSignals, BeginDrain, DrainStop, DrainOtherChild,
           DrainSession, EndDrain, Exit, KeepsRunning, Reap, ClosePam, Gone,
           NoChildren
<1>7. CASE World
  BY <1>7 DEF World, Input, StraySignal, ChildExits, EditSaved, OtherClient,
           ClockPasses, LoopFails, Crash, Reboot, Gone, NoChildren
<1>8. CASE UNCHANGED vars
  BY <1>8 DEF vars
<1> QED
  BY <1>1, <1>2, <1>3, <1>4, <1>5, <1>6, <1>7, <1>8 DEF Next

\* A step keeps the types of the pids and of the children.
LEMMA PidTypeStep == TypeOK /\ [Next]_vars => PidType'
<1> SUFFICES ASSUME TypeOK, [Next]_vars PROVE PidType'
  OBVIOUS
<1> USE PidsAssumption
<1> USE DEF TypeOK, PidType, app, panel, window, disk, file, history
<1>1. CASE Start
  BY <1>1 DEF Start, Loaded, Arms, Grab, Allowed
<1>2. CASE HandleEvent
  BY <1>2 DEF HandleEvent, HandleUnseen, HandleDropped, CancelAutologin,
           HandleSwallowed, HandleNoMenu, HandleType, HandleToggle, SubmitEmpty, Submit, HandleOptions, HandleConsole,
           HandleBackground, HandlePower, Reset, StopCountdown, Writes
<1>3. CASE PamReturns
  BY <1>3 DEF PamReturns, AuthFails, AuthPasses, AutoauthFails,
           AutoauthPasses, Reset, Grab, Writes
<1>4. CASE Proceed
  BY <1>4 DEF Proceed, StartFails, StartForks, AssignPid, CleanupDone,
           ClosePam, ShowSaved, Hide, Launched, Reset, Grab
<1>5. CASE Tick \/ TickAutologin
  BY <1>5 DEF Tick, TickAutologin, StopCountdown, Grab
<1>6. CASE HandleSignals
  BY <1>6 DEF HandleSignals, BeginDrain, DrainStop, DrainOtherChild,
           DrainSession, EndDrain, Exit, KeepsRunning, Reap, ClosePam, Gone,
           NoChildren
<1>7. CASE World
  BY <1>7 DEF World, Input, StraySignal, ChildExits, EditSaved, OtherClient,
           ClockPasses, LoopFails, Crash, Reboot, Gone, NoChildren
<1>8. CASE UNCHANGED vars
  BY <1>8 DEF vars
<1> QED
  BY <1>1, <1>2, <1>3, <1>4, <1>5, <1>6, <1>7, <1>8 DEF Next

\* A step keeps the types of the variables that hold a name.
LEMMA NameTypeStep == TypeOK /\ [Next]_vars => NameType'
<1> SUFFICES ASSUME TypeOK, [Next]_vars PROVE NameType'
  OBVIOUS
<1> USE NamesAssumption
<1> USE DEF TypeOK, NameType, app, panel, window, disk, file, history
<1>1. CASE Start
  BY <1>1 DEF Start, Loaded, Arms, Grab, Allowed
<1>2. CASE HandleEvent
  BY <1>2 DEF HandleEvent, HandleUnseen, HandleDropped, CancelAutologin,
           HandleSwallowed, HandleNoMenu, HandleType, HandleToggle, SubmitEmpty, Submit, HandleOptions, HandleConsole,
           HandleBackground, HandlePower, Reset, StopCountdown, Writes
<1>3. CASE PamReturns
  BY <1>3 DEF PamReturns, AuthFails, AuthPasses, AutoauthFails,
           AutoauthPasses, Reset, Grab, Writes
<1>4. CASE Proceed
  BY <1>4 DEF Proceed, StartFails, StartForks, AssignPid, CleanupDone,
           ClosePam, ShowSaved, Hide, Launched, Reset, Grab
<1>5. CASE Tick \/ TickAutologin
  BY <1>5 DEF Tick, TickAutologin, StopCountdown, Grab
<1>6. CASE HandleSignals
  BY <1>6 DEF HandleSignals, BeginDrain, DrainStop, DrainOtherChild,
           DrainSession, EndDrain, Exit, KeepsRunning, Reap, ClosePam, Gone,
           NoChildren
<1>7. CASE World
  <2>1. CASE EditSaved
    BY <2>1, FileTypes DEF EditSaved
  <2>2. CASE World /\ ~EditSaved
    BY <2>2 DEF World, Input, StraySignal, ChildExits, OtherClient,
         ClockPasses, LoopFails, Crash, Reboot, Gone, NoChildren
  <2> QED
    BY <1>7, <2>1, <2>2
<1>8. CASE UNCHANGED vars
  BY <1>8 DEF vars
<1> QED
  BY <1>1, <1>2, <1>3, <1>4, <1>5, <1>6, <1>7, <1>8 DEF Next

\* A step keeps the types of the panel and the window.
LEMMA ScreenTypeStep == TypeOK /\ [Next]_vars => ScreenType'
<1> SUFFICES ASSUME TypeOK, [Next]_vars PROVE ScreenType'
  OBVIOUS
<1> USE DEF TypeOK, ScreenType, app, panel, window, disk, file, history
<1>1. CASE Start
  BY <1>1 DEF Start, Loaded, Arms, Grab, Allowed
<1>2. CASE HandleEvent
  <2>1. CASE HandleToggle
    BY <2>1 DEF HandleToggle
  <2>2. CASE HandleConsole
    BY <2>2 DEF HandleConsole
  <2>3. CASE HandleEvent /\ ~HandleToggle /\ ~HandleConsole
    BY <2>3 DEF HandleEvent, HandleUnseen, HandleDropped, CancelAutologin,
         HandleSwallowed, HandleNoMenu, HandleType, SubmitEmpty, Submit,
         HandleOptions, HandleBackground, HandlePower, Reset
  <2> QED
    BY <1>2, <2>1, <2>2, <2>3
<1>3. CASE PamReturns
  BY <1>3 DEF PamReturns, AuthFails, AuthPasses, AutoauthFails,
           AutoauthPasses, Reset, Grab, Writes
<1>4. CASE Proceed
  BY <1>4 DEF Proceed, StartFails, StartForks, AssignPid, CleanupDone,
           ClosePam, ShowSaved, Hide, Launched, Reset, Grab
<1>5. CASE Tick \/ TickAutologin
  BY <1>5 DEF Tick, TickAutologin, StopCountdown, Grab
<1>6. CASE HandleSignals
  BY <1>6 DEF HandleSignals, BeginDrain, DrainStop, DrainOtherChild,
           DrainSession, EndDrain, Exit, KeepsRunning, Reap, ClosePam, Gone,
           NoChildren
<1>7. CASE World
  BY <1>7 DEF World, Input, StraySignal, ChildExits, EditSaved, OtherClient,
           ClockPasses, LoopFails, Crash, Reboot, Gone, NoChildren
<1>8. CASE UNCHANGED vars
  BY <1>8 DEF vars
<1> QED
  BY <1>1, <1>2, <1>3, <1>4, <1>5, <1>6, <1>7, <1>8 DEF Next

\* A step keeps the types of the marker and of what this boot has seen.
LEMMA HistoryTypeStep == TypeOK /\ [Next]_vars => HistoryType'
<1> SUFFICES ASSUME TypeOK, [Next]_vars PROVE HistoryType'
  OBVIOUS
<1> USE DEF TypeOK, HistoryType, app, panel, window, disk, file, history
<1>1. CASE Start
  BY <1>1 DEF Start, Loaded, Arms, Grab, Allowed
<1>2. CASE HandleEvent
  BY <1>2 DEF HandleEvent, HandleUnseen, HandleDropped, CancelAutologin,
           HandleSwallowed, HandleNoMenu, HandleType, HandleToggle, SubmitEmpty, Submit, HandleOptions, HandleConsole,
           HandleBackground, HandlePower, Reset, StopCountdown, Writes
<1>3. CASE PamReturns
  BY <1>3 DEF PamReturns, AuthFails, AuthPasses, AutoauthFails,
           AutoauthPasses, Reset, Grab, Writes
<1>4. CASE Proceed
  BY <1>4 DEF Proceed, StartFails, StartForks, AssignPid, CleanupDone,
           ClosePam, ShowSaved, Hide, Launched, Reset, Grab
<1>5. CASE Tick \/ TickAutologin
  BY <1>5 DEF Tick, TickAutologin, StopCountdown, Grab
<1>6. CASE HandleSignals
  BY <1>6 DEF HandleSignals, BeginDrain, DrainStop, DrainOtherChild,
           DrainSession, EndDrain, Exit, KeepsRunning, Reap, ClosePam, Gone,
           NoChildren
<1>7. CASE World
  <2>1. CASE Reboot
    BY <2>1 DEF Reboot
  <2>2. ASSUME World, ~Reboot PROVE UNCHANGED <<marker, autologins, cancelled, touched>>
    BY <2>2 DEF World, Input, StraySignal, ChildExits, EditSaved, OtherClient,
         ClockPasses, LoopFails, Crash
  <2>3. CASE EditSaved
    BY <2>3, FileTypes DEF EditSaved
  <2>4. ASSUME World, ~Reboot, ~EditSaved
        PROVE  UNCHANGED <<trusted, exact, foreign>>
    BY <2>4 DEF World, Input, StraySignal, ChildExits, OtherClient,
         ClockPasses, LoopFails, Crash
  <2> QED
    BY <1>7, <2>1, <2>2, <2>3, <2>4
<1>8. CASE UNCHANGED vars
  BY <1>8 DEF vars
<1> QED
  BY <1>1, <1>2, <1>3, <1>4, <1>5, <1>6, <1>7, <1>8 DEF Next

\* The tail of a sequence over S is one.
LEMMA TailType ==
  ASSUME NEW S, NEW q \in Seq(S), q # <<>>
  PROVE  Tail(q) \in Seq(S)
  OBVIOUS

\* So is a sequence over S with one more element of S.
LEMMA AppendType ==
  ASSUME NEW S, NEW q \in Seq(S), NEW x \in S
  PROVE  Append(q, x) \in Seq(S)
  OBVIOUS

\* onSignal() leaves only signal numbers in the pipe.
LEMMA PostType ==
  ASSUME pipe \in Seq(Signals), NEW s \in Signals, Post(s)
  PROVE  pipe' \in Seq(Signals)
  BY AppendType DEF Post

\* A step keeps the types of the two queues.
LEMMA QueueTypeStep == TypeOK /\ [Next]_vars => QueueType'
<1> SUFFICES ASSUME TypeOK, [Next]_vars PROVE QueueType'
  OBVIOUS
<1> USE DEF TypeOK, QueueType
<1>a. "CHLD" \in Signals /\ <<>> \in Seq(InputKinds) /\ <<>> \in Seq(Signals)
  BY DEF Signals
<1>1. CASE Start \/ UNCHANGED vars
  BY <1>1 DEF Start, vars
<1>2. CASE HandleEvent
  <2>1. events' \in Seq(InputKinds)
    BY <1>2, TailType DEF HandleEvent, HandleUnseen, HandleDropped,
         CancelAutologin, HandleSwallowed, HandleNoMenu, HandleType,
         HandleToggle, SubmitEmpty, Submit, HandleOptions,
         HandleConsole, HandleBackground, HandlePower, FormGets, Take
  <2>2. pipe' = pipe \/ Post("CHLD")
    BY <1>2 DEF HandleEvent, HandleUnseen, HandleDropped, CancelAutologin,
         HandleSwallowed, HandleNoMenu, HandleType, HandleToggle, SubmitEmpty, Submit, HandleOptions, HandleConsole,
         HandleBackground, HandlePower
  <2> QED
    BY <1>a, <2>1, <2>2, PostType
<1>3. CASE PamReturns \/ Proceed \/ Tick \/ TickAutologin
  BY <1>3 DEF PamReturns, AuthFails, AuthPasses, AutoauthFails,
       AutoauthPasses, Proceed, StartFails, StartForks, AssignPid,
       CleanupDone, Tick, TickAutologin
<1>4. CASE HandleSignals
  BY <1>a, <1>4, TailType DEF HandleSignals, BeginDrain, DrainStop,
       DrainOtherChild, DrainSession, EndDrain, Exit, NextByte, Gone
<1>5. ASSUME NEW e \in Inputs, Input(e) PROVE QueueType'
  BY <1>5, AppendType, InputsAssumption DEF Input
<1>6. ASSUME NEW s \in Signals, StraySignal(s) PROVE QueueType'
  BY <1>6, PostType DEF StraySignal
<1>7. ASSUME NEW p \in Pids, ChildExits(p) PROVE QueueType'
  BY <1>a, <1>7, PostType DEF ChildExits
<1>8. CASE EditSaved \/ OtherClient \/ ClockPasses \/ LoopFails \/ Crash \/ Reboot
  BY <1>a, <1>8 DEF EditSaved, OtherClient, ClockPasses, LoopFails, Crash, Reboot, Gone
<1> QED
  BY <1>1, <1>2, <1>3, <1>4, <1>5, <1>6, <1>7, <1>8 DEF Next, World


-----------------------------------------------------------------------------
(* The inductive invariant.                                                *)

\* It holds when the machine has booted.
LEMMA IInvInit == Init => TypeOK /\ IInv
<1> SUFFICES ASSUME Init PROVE TypeOK /\ IInv
  OBVIOUS
<1> USE NamesAssumption, PidsAssumption DEF Init
<1>1. ControlType /\ PidType /\ NameType
  BY FilesAssumption DEF ControlType, PidType, NameType, NoChildren, Resting,
     Blocked
<1>2. ScreenType /\ HistoryType
  BY FilesAssumption DEF ScreenType, HistoryType
<1>3. QueueType
  BY DEF QueueType
<1>4. IInv
  BY DEF IInv, PlaceInv, BootInv, BoxInv, NobodyIn, Session, Resting, Blocked
<1> QED
  BY <1>1, <1>2, <1>3, <1>4 DEF TypeOK

\* Every step keeps it: one step of the proof for each action.
LEMMA IInvStep == TypeOK /\ IInv /\ [Next]_vars => IInv'
<1> SUFFICES ASSUME TypeOK, IInv, [Next]_vars PROVE IInv'
  OBVIOUS
<1> USE NamesAssumption, PidsAssumption
<1> USE DEF TypeOK, ControlType, PidType, NameType, IInv, PlaceInv, BootInv,
     BoxInv, NobodyIn, SomebodyIn, Session, Resting, Blocked, app, panel,
     window, disk, file, history
<1>1. CASE Start
  <2>1. PlaceInv'
    BY <1>1 DEF Start, Loaded, Arms, Grab, Allowed
  <2>2. BootInv'
    BY <1>1 DEF HistoryType, Start, Loaded, Arms
  <2>3. BoxInv'
    <3>1. ~foreign' => exact /\ saved = Loaded
      BY <1>1 DEF Start
    <3>2. /\ cfg' = Loaded /\ (box' <=> cfg' # None)
          /\ UNCHANGED <<saved, exact>>
      BY <1>1 DEF Start
    <3> QED BY <3>1, <3>2
  <2> QED
    BY <2>1, <2>2, <2>3
<1>2. ASSUME NEW e \in Inputs, HandleUnseen(e) PROVE IInv'
  BY <1>2 DEF HandleUnseen, Take
<1>3. ASSUME NEW e \in Inputs, HandleDropped(e) PROVE IInv'
  BY <1>3 DEF HandleDropped, Take
<1>4. ASSUME NEW e \in Inputs, CancelAutologin(e) PROVE IInv'
  BY <1>4 DEF CancelAutologin, Take, StopCountdown, Reset
<1>5. ASSUME NEW e \in Inputs, HandleSwallowed(e) PROVE IInv'
  BY <1>5 DEF HandleSwallowed, Take, Listening
<1>6. ASSUME NEW e \in Inputs, HandleNoMenu(e) PROVE IInv'
  BY <1>6 DEF HandleNoMenu, Take, Listening
<1>7. CASE HandleType
  BY <1>7 DEF HandleType, FormGets, Take, Listening
<1>8. CASE HandleBackground
  BY <1>8 DEF HandleBackground, Take, Listening, Writes
<1>9. CASE HandleToggle
  BY <1>9 DEF HandleToggle, FormGets, Take, Listening, Writes
<1>10. CASE SubmitEmpty
  BY <1>10 DEF SubmitEmpty, FormGets, Take, Listening
<1>11. CASE Submit
  BY <1>11 DEF Submit, FormGets, Take, Listening
<1>12. CASE HandleOptions
  BY <1>12 DEF HandleOptions, Take, Listening
<1>13. CASE HandleConsole
  BY <1>13 DEF HandleConsole, Take, Listening
<1>14. CASE HandlePower
  BY <1>14 DEF HandlePower, Take, Listening
<1>15. CASE AuthFails
  BY <1>15 DEF AuthFails
<1>16. CASE AuthPasses
  BY <1>16 DEF AuthPasses, Saves, Writes
<1>17. CASE AutoauthFails
  BY <1>17 DEF AutoauthFails, Reset, Grab
<1>18. CASE AutoauthPasses
  BY <1>18 DEF AutoauthPasses, Allowed
<1>19. CASE StartFails
  BY <1>19 DEF StartFails, ClosePam, ShowSaved
<1>20. CASE StartForks
  BY <1>20 DEF StartForks, Hide
<1>21. CASE AssignPid
  BY <1>21 DEF AssignPid, Launched
<1>22. CASE CleanupDone
  BY <1>22 DEF CleanupDone, Grab, Reset, ShowSaved
<1>23. CASE Tick
  BY <1>23 DEF Tick, Idle, WantsKeyboard, Grab
<1>24. CASE TickAutologin
  BY <1>24 DEF TickAutologin, Idle, StopCountdown
<1>25. CASE BeginDrain
  BY <1>25 DEF BeginDrain
<1>26. CASE DrainStop
  BY <1>26 DEF DrainStop, NextByte, KeepsRunning
<1>27. CASE DrainOtherChild
  BY <1>27 DEF DrainOtherChild, NextByte, Reap
<1>28. CASE DrainSession
  BY <1>28 DEF DrainSession, NextByte, Reap, ClosePam
<1>29. CASE EndDrain
  BY <1>29 DEF EndDrain
<1>30. CASE Exit
  BY <1>30 DEF Exit, Gone, NoChildren
<1>31. ASSUME NEW e \in Inputs, Input(e) PROVE IInv'
  BY <1>31 DEF Input
<1>32. ASSUME NEW s \in Signals, StraySignal(s) PROVE IInv'
  BY <1>32 DEF StraySignal
<1>33. ASSUME NEW p \in Pids, ChildExits(p) PROVE IInv'
  BY <1>33 DEF ChildExits
<1>34. CASE EditSaved
  BY <1>34 DEF EditSaved
<1>35. CASE ClockPasses
  BY <1>35 DEF ClockPasses
<1>36. CASE LoopFails
  BY <1>36 DEF LoopFails, Gone, NoChildren
<1>37. CASE Crash
  BY <1>37 DEF Crash, Gone, NoChildren
<1>38. CASE Reboot
  BY <1>38 DEF Reboot, Gone, NoChildren
<1>39. CASE UNCHANGED vars
  BY <1>39 DEF vars
<1>40. CASE OtherClient
  BY <1>40 DEF OtherClient
<1> QED
  BY <1>1, <1>2, <1>3, <1>4, <1>5, <1>6, <1>7, <1>8, <1>9, <1>10, <1>11,
       <1>12, <1>13, <1>14, <1>15, <1>16, <1>17, <1>18, <1>19, <1>20, <1>21,
       <1>22, <1>23, <1>24, <1>25, <1>26, <1>27, <1>28, <1>29, <1>30, <1>31,
       <1>32, <1>33, <1>34, <1>35, <1>36, <1>37, <1>38, <1>39, <1>40 DEF Next,
       HandleEvent, PamReturns, Proceed, HandleSignals, World

\* The types and the inductive invariant hold of every reachable state.
THEOREM Invariance == Spec => [](TypeOK /\ IInv)
<1>1. TypeOK /\ IInv /\ [Next]_vars => (TypeOK /\ IInv)'
  BY ControlTypeStep, PidTypeStep, NameTypeStep, ScreenTypeStep,
     HistoryTypeStep, QueueTypeStep, IInvStep DEF TypeOK
<1> QED
  BY IInvInit, <1>1, PTL DEF Spec

-----------------------------------------------------------------------------
(* What follows from it.                                                   *)

\* Every variable keeps its type in every reachable state.
THEOREM TypeCorrect == Spec => []TypeOK
  BY Invariance, PTL

\* The pid in App, the handle in auth.c and the saved name always agree.
THEOREM SessionsArePaired == Spec => []SessionPaired
<1>1. IInv => SessionPaired
  BY DEF IInv, PlaceInv, SessionPaired, NobodyIn, SomebodyIn
<1> QED
  BY Invariance, <1>1, PTL

\* Whenever nobody's session runs, somebody can log in.
THEOREM ScreenIsUsable == Spec => []ScreenUsable
<1>1. IInv => ScreenUsable
  BY DEF IInv, PlaceInv, ScreenUsable
<1> QED
  BY Invariance, <1>1, PTL

\* The login window never covers a session nor holds its keyboard.
THEOREM SessionIsUnobstructed == Spec => []SessionUnobstructed
<1>1. TypeOK /\ IInv => SessionUnobstructed
  BY DEF TypeOK, ControlType, IInv, PlaceInv, SessionUnobstructed, NobodyIn,
         SomebodyIn, Session, Resting, Blocked
<1> QED
  BY Invariance, <1>1, PTL

\* At most one automatic login per boot, and none after a cancelled one.
THEOREM AutologinOnce == Spec => [](OncePerBoot /\ CancelHolds)
<1>1. IInv => OncePerBoot /\ CancelHolds
  BY DEF IInv, BootInv, OncePerBoot, CancelHolds
<1> QED
  BY Invariance, <1>1, PTL

\* A cancelled countdown stays cancelled.
THEOREM CancelIsFinal == Spec => []CancelHolds
BY AutologinOnce, PTL

\* The box does not misstate what the file says.
THEOREM BoxIsTruthful == Spec => []BoxTruthful
<1>1. IInv => BoxTruthful
  BY DEF IInv, BoxInv, BoxTruthful, Resting
<1> QED
  BY Invariance, <1>1, PTL

\* A stop signal never takes a session down.
THEOREM StopsOnlyIdle == Spec => []StopOnlyIdle
<1>1. IInv => StopOnlyIdle
  BY DEF IInv, PlaceInv, StopOnlyIdle, NobodyIn, Resting
<1> QED
  BY Invariance, <1>1, PTL

\* The file gets a name only from a password just accepted, never root's.
THEOREM AutologinIsEarned == Spec => AutologinEarned
<1>1. ASSUME TypeOK, [Next]_vars PROVE [SavesEarned]_vars
  <2>1. CASE HandleToggle
    BY <2>1 DEF HandleToggle, Writes, SavesEarned, file
  <2>2. CASE HandleBackground
    BY <2>2 DEF HandleBackground, Writes, SavesEarned, file
  <2>3. CASE AuthPasses
    BY <2>3 DEF AuthPasses, Saves, Allowed, Writes, SavesEarned, file
  <2>4. CASE EditSaved
    BY <2>4 DEF SavesEarned
  <2>5. CASE ~(HandleToggle \/ HandleBackground \/ AuthPasses \/ EditSaved)
    <3>1. UNCHANGED saved
      BY <1>1, <2>5 DEF Next, HandleEvent, PamReturns, Proceed,
         HandleSignals, World, vars, disk, file, Start, HandleUnseen,
         HandleDropped, CancelAutologin, HandleSwallowed, HandleNoMenu,
         HandleType, SubmitEmpty, Submit, HandleOptions, HandleConsole,
         HandlePower, AuthFails, AutoauthFails, AutoauthPasses, StartFails,
         StartForks, AssignPid, CleanupDone, Tick, TickAutologin, BeginDrain,
         DrainStop, DrainOtherChild, DrainSession, EndDrain, Exit, Input,
         StraySignal, ChildExits, OtherClient, ClockPasses, LoopFails, Crash,
         Reboot
    <3> QED BY <3>1 DEF SavesEarned
  <2> QED BY <2>1, <2>2, <2>3, <2>4, <2>5
<1> QED
  BY <1>1, TypeCorrect, PTL DEF Spec, AutologinEarned

\* A session is opened by password or once per boot, uncancelled, not for root.
THEOREM SessionIsEarned == Spec => SessionEarned
<1>1. TypeOK /\ IInv /\ [Next]_vars => [OpensEarned]_vars
  BY DEF OpensEarned, Next, HandleEvent, PamReturns, Proceed, HandleSignals, World, vars,
       app, panel, window, disk, file, history, Allowed, Gone, ClosePam, IInv,
       BootInv, Start, HandleUnseen, HandleDropped, CancelAutologin,
       HandleSwallowed, HandleNoMenu, HandleType, HandleToggle,
       SubmitEmpty, Submit, HandleOptions, HandleConsole, HandleBackground, HandlePower,
       AuthFails, AuthPasses, AutoauthFails, AutoauthPasses, StartFails,
       StartForks, AssignPid, CleanupDone, Tick, TickAutologin, BeginDrain,
       DrainStop, DrainOtherChild, DrainSession, EndDrain, Exit, Input,
       StraySignal, ChildExits, EditSaved, OtherClient, ClockPasses, LoopFails, Crash,
       Reboot
<1> QED
  BY <1>1, Invariance, PTL DEF Spec, SessionEarned

-----------------------------------------------------------------------------
(* The program implements Seat.                                            *)

\* A machine that has just booted shows nobody a form.
LEMMA SeatInit == Init => Promise!Init
  BY DEF Init, Promise!Init, phase, who, Resting

\* Every step of the program is a step of Seat or leaves the seat alone.
LEMMA SeatStep == TypeOK /\ IInv /\ [Next]_vars => [Promise!Next]_(Promise!vars)
<1> SUFFICES ASSUME TypeOK, IInv, [Next]_vars PROVE [Promise!Next]_(Promise!vars)
  OBVIOUS
<1> USE NamesAssumption, PidsAssumption
<1> USE DEF TypeOK, ControlType, PidType, NameType, IInv, PlaceInv, BootInv,
     NobodyIn, SomebodyIn, Session, Resting, Blocked, app, panel, window,
     disk, file, history, phase, who, Promise!Next, Promise!vars, Promise!Open,
     Promise!Ask, Promise!Refuse, Promise!Admit, Promise!Abort,
     Promise!Begin, Promise!End, Promise!Return, Promise!Off
<1>1. CASE Start
  BY <1>1 DEF Start, Loaded, Arms, Grab, Allowed
<1>2. ASSUME NEW e \in Inputs, HandleUnseen(e) PROVE [Promise!Next]_(Promise!vars)
  BY <1>2 DEF HandleUnseen, Take
<1>3. ASSUME NEW e \in Inputs, HandleDropped(e) PROVE [Promise!Next]_(Promise!vars)
  BY <1>3 DEF HandleDropped, Take
<1>4. ASSUME NEW e \in Inputs, CancelAutologin(e) PROVE [Promise!Next]_(Promise!vars)
  BY <1>4 DEF CancelAutologin, Take, StopCountdown, Reset
<1>5. ASSUME NEW e \in Inputs, HandleSwallowed(e) PROVE [Promise!Next]_(Promise!vars)
  BY <1>5 DEF HandleSwallowed, Take, Listening
<1>6. ASSUME NEW e \in Inputs, HandleNoMenu(e) PROVE [Promise!Next]_(Promise!vars)
  BY <1>6 DEF HandleNoMenu, Take, Listening
<1>7. CASE HandleType
  BY <1>7 DEF HandleType, FormGets, Take, Listening
<1>8. CASE HandleBackground
  BY <1>8 DEF HandleBackground, Take, Listening
<1>9. CASE HandleToggle
  BY <1>9 DEF HandleToggle, FormGets, Take, Listening
<1>10. CASE SubmitEmpty
  BY <1>10 DEF SubmitEmpty, FormGets, Take, Listening
<1>11. CASE Submit
  BY <1>11 DEF Submit, FormGets, Take, Listening
<1>12. CASE HandleOptions
  BY <1>12 DEF HandleOptions, Take, Listening
<1>13. CASE HandleConsole
  BY <1>13 DEF HandleConsole, Take, Listening
<1>14. CASE HandlePower
  BY <1>14 DEF HandlePower, Take, Listening
<1>15. CASE AuthFails
  BY <1>15 DEF AuthFails
<1>16. CASE AuthPasses
  BY <1>16 DEF AuthPasses, Saves
<1>17. CASE AutoauthFails
  BY <1>17 DEF AutoauthFails, Reset, Grab
<1>18. CASE AutoauthPasses
  BY <1>18 DEF AutoauthPasses, Allowed
<1>19. CASE StartFails
  BY <1>19 DEF StartFails, ClosePam, ShowSaved
<1>20. CASE StartForks
  BY <1>20 DEF StartForks, Hide
<1>21. CASE AssignPid
  BY <1>21 DEF AssignPid, Launched
<1>22. CASE CleanupDone
  BY <1>22 DEF CleanupDone, Grab, Reset, ShowSaved
<1>23. CASE Tick
  BY <1>23 DEF Tick, Idle, WantsKeyboard, Grab
<1>24. CASE TickAutologin
  BY <1>24 DEF TickAutologin, Idle, StopCountdown
<1>25. CASE BeginDrain
  BY <1>25 DEF BeginDrain
<1>26. CASE DrainStop
  BY <1>26 DEF DrainStop, NextByte, KeepsRunning
<1>27. CASE DrainOtherChild
  BY <1>27 DEF DrainOtherChild, NextByte, Reap
<1>28. CASE DrainSession
  BY <1>28 DEF DrainSession, NextByte, Reap, ClosePam
<1>29. CASE EndDrain
  BY <1>29 DEF EndDrain
<1>30. CASE Exit
  BY <1>30 DEF Exit, Gone, NoChildren
<1>31. ASSUME NEW e \in Inputs, Input(e) PROVE [Promise!Next]_(Promise!vars)
  BY <1>31 DEF Input
<1>32. ASSUME NEW s \in Signals, StraySignal(s) PROVE [Promise!Next]_(Promise!vars)
  BY <1>32 DEF StraySignal
<1>33. ASSUME NEW p \in Pids, ChildExits(p) PROVE [Promise!Next]_(Promise!vars)
  BY <1>33 DEF ChildExits
<1>34. CASE EditSaved
  BY <1>34 DEF EditSaved
<1>35. CASE ClockPasses
  BY <1>35 DEF ClockPasses
<1>36. CASE LoopFails
  BY <1>36 DEF LoopFails, Gone, NoChildren
<1>37. CASE Crash
  BY <1>37 DEF Crash, Gone, NoChildren
<1>38. CASE Reboot
  BY <1>38 DEF Reboot, Gone, NoChildren
<1>39. CASE UNCHANGED vars
  BY <1>39 DEF vars
<1>40. CASE OtherClient
  BY <1>40 DEF OtherClient
<1> QED
  BY <1>1, <1>2, <1>3, <1>4, <1>5, <1>6, <1>7, <1>8, <1>9, <1>10, <1>11,
       <1>12, <1>13, <1>14, <1>15, <1>16, <1>17, <1>18, <1>19, <1>20, <1>21,
       <1>22, <1>23, <1>24, <1>25, <1>26, <1>27, <1>28, <1>29, <1>30, <1>31,
       <1>32, <1>33, <1>34, <1>35, <1>36, <1>37, <1>38, <1>39, <1>40 DEF Next,
       HandleEvent, PamReturns, Proceed, HandleSignals, World

\* What the program does is what a login screen promises.
THEOREM Implementation == Spec => ImplementsSeat
<1>1. TypeOK /\ IInv /\ [Next]_vars => [Promise!Next]_(Promise!vars)
  BY SeatStep
<1> QED
  BY SeatInit, <1>1, Invariance, PTL DEF Spec, ImplementsSeat, Promise!Spec

-----------------------------------------------------------------------------
(* The self-pipe.  Stray signals come only while the pipe is shorter than  *)
(* StrayLimit, so whatever is further back is a child's, and a pipe that   *)
(* is full holds such a byte.                                              *)

PipeInv == /\ Len(pipe) <= PipeCap
           /\ \A i \in 1 .. Len(pipe) : i > StrayLimit => pipe[i] = "CHLD"

Waiting == \E i \in 1 .. Len(pipe) : pipe[i] = "CHLD"

\* A signal handler's write, lost or not, leaves a SIGCHLD in the pipe if one
\* was there or this is one.
LEMMA PostStep ==
    ASSUME pipe \in Seq(Signals), PipeInv, NEW sig \in Signals, Post(sig),
           sig = "CHLD" \/ Len(pipe) < StrayLimit
    PROVE  PipeInv' /\ (Waiting \/ sig = "CHLD" => Waiting')
<1> USE BoundsAssumption
<1>1. CASE Len(pipe) < PipeCap
  <2>1. pipe' = Append(pipe, sig) /\ Len(pipe') = Len(pipe) + 1 /\ Len(pipe) \in Nat
    BY <1>1 DEF Post
  <2>2. /\ \A i \in 1 .. Len(pipe) : pipe'[i] = pipe[i]
        /\ pipe'[Len(pipe) + 1] = sig
    BY <2>1
  <2>3. PipeInv'
    BY <1>1, <2>1, <2>2 DEF PipeInv
  <2>4. Waiting \/ sig = "CHLD" => Waiting'
    BY <2>1, <2>2 DEF Waiting
  <2> QED BY <2>3, <2>4
<1>2. CASE Len(pipe) >= PipeCap
  <2>1. UNCHANGED pipe /\ Len(pipe) = PipeCap
    BY <1>2 DEF Post, PipeInv
  <2>2. PipeCap \in 1 .. Len(pipe) /\ pipe[PipeCap] = "CHLD"
    BY <2>1 DEF PipeInv
  <2> QED BY <2>1, <2>2 DEF PipeInv, Waiting
<1>3. Len(pipe) \in Nat
  OBVIOUS
<1> QED BY <1>1, <1>2, <1>3

\* A byte that is read moves the others up.
LEMMA NextByteStep ==
    ASSUME pipe \in Seq(Signals), PipeInv, NEW sigs, NextByte(sigs)
    PROVE  PipeInv' /\ (Waiting /\ "CHLD" \notin sigs => Waiting')
<1> USE BoundsAssumption
<1>1. /\ pipe' = Tail(pipe) /\ pipe # <<>> /\ pipe[1] \in sigs
      /\ Len(pipe) \in Nat \ {0}
  BY DEF NextByte
<1>2. /\ Len(pipe') = Len(pipe) - 1
      /\ \A i \in 1 .. Len(pipe) - 1 : pipe'[i] = pipe[i + 1]
  BY <1>1
<1>3. PipeInv'
  BY <1>1, <1>2 DEF PipeInv
<1>4. ASSUME Waiting, "CHLD" \notin sigs PROVE Waiting'
  <2>1. PICK i \in 1 .. Len(pipe) : pipe[i] = "CHLD"
    BY <1>4 DEF Waiting
  <2>2. i # 1
    BY <1>1, <1>4, <2>1
  <2>3. PICK j \in 1 .. Len(pipe) - 1 : i = j + 1
    BY <1>1, <2>2
  <2> QED BY <1>2, <2>1, <2>3 DEF Waiting
<1> QED BY <1>3, <1>4

\* Only a child's end makes a zombie, and every reading of a SIGCHLD takes
\* all of them.
LEMMA NoticedStep ==
    ASSUME TypeOK, PipeInv, ChildDeathNoticed, [Next]_vars
    PROVE  PipeInv' /\ ChildDeathNoticed'
<1> USE DEF TypeOK, PidType, QueueType, app, panel, window, disk, file, history
<1>1. CASE Start
  BY <1>1 DEF Start, PipeInv, ChildDeathNoticed
<1>2. ASSUME NEW e \in Inputs, HandleUnseen(e) PROVE PipeInv' /\ ChildDeathNoticed'
  BY <1>2 DEF HandleUnseen, PipeInv, ChildDeathNoticed
<1>3. ASSUME NEW e \in Inputs, HandleDropped(e) PROVE PipeInv' /\ ChildDeathNoticed'
  BY <1>3 DEF HandleDropped, PipeInv, ChildDeathNoticed
<1>4. ASSUME NEW e \in Inputs, CancelAutologin(e) PROVE PipeInv' /\ ChildDeathNoticed'
  BY <1>4 DEF CancelAutologin, PipeInv, ChildDeathNoticed
<1>5. ASSUME NEW e \in Inputs, HandleSwallowed(e) PROVE PipeInv' /\ ChildDeathNoticed'
  BY <1>5 DEF HandleSwallowed, PipeInv, ChildDeathNoticed
<1>6. ASSUME NEW e \in Inputs, HandleNoMenu(e) PROVE PipeInv' /\ ChildDeathNoticed'
  BY <1>6 DEF HandleNoMenu, PipeInv, ChildDeathNoticed
<1>7. CASE HandleType
  BY <1>7 DEF HandleType, PipeInv, ChildDeathNoticed
<1>8. CASE HandleBackground
  BY <1>8 DEF HandleBackground, PipeInv, ChildDeathNoticed
<1>9. CASE HandleToggle
  BY <1>9 DEF HandleToggle, PipeInv, ChildDeathNoticed
<1>10. CASE SubmitEmpty
  BY <1>10 DEF SubmitEmpty, PipeInv, ChildDeathNoticed
<1>11. CASE Submit
  BY <1>11 DEF Submit, PipeInv, ChildDeathNoticed
<1>12. CASE HandleOptions
  BY <1>12 DEF HandleOptions, PipeInv, ChildDeathNoticed
<1>13. CASE HandleConsole
  BY <1>13 DEF HandleConsole, PipeInv, ChildDeathNoticed
<1>14. CASE AuthFails
  BY <1>14 DEF AuthFails, PipeInv, ChildDeathNoticed
<1>15. CASE AuthPasses
  BY <1>15 DEF AuthPasses, PipeInv, ChildDeathNoticed
<1>16. CASE AutoauthFails
  BY <1>16 DEF AutoauthFails, PipeInv, ChildDeathNoticed
<1>17. CASE AutoauthPasses
  BY <1>17 DEF AutoauthPasses, PipeInv, ChildDeathNoticed
<1>18. CASE StartFails
  BY <1>18 DEF StartFails, PipeInv, ChildDeathNoticed
<1>19. CASE AssignPid
  BY <1>19 DEF AssignPid, PipeInv, ChildDeathNoticed
<1>20. CASE CleanupDone
  BY <1>20 DEF CleanupDone, PipeInv, ChildDeathNoticed
<1>21. CASE Tick
  BY <1>21 DEF Tick, PipeInv, ChildDeathNoticed
<1>22. CASE TickAutologin
  BY <1>22 DEF TickAutologin, PipeInv, ChildDeathNoticed
<1>23. CASE BeginDrain
  BY <1>23 DEF BeginDrain, PipeInv, ChildDeathNoticed
<1>24. CASE EndDrain
  BY <1>24 DEF EndDrain, PipeInv, ChildDeathNoticed
<1>25. CASE EditSaved
  BY <1>25 DEF EditSaved, PipeInv, ChildDeathNoticed
<1>26. CASE ClockPasses
  BY <1>26 DEF ClockPasses, PipeInv, ChildDeathNoticed
<1>27. CASE Exit
  BY <1>27, BoundsAssumption DEF Exit, Gone, NoChildren, PipeInv,
     ChildDeathNoticed
<1>28. CASE LoopFails
  BY <1>28, BoundsAssumption DEF LoopFails, Gone, NoChildren, PipeInv,
     ChildDeathNoticed
<1>29. CASE Crash
  BY <1>29, BoundsAssumption DEF Crash, Gone, NoChildren, PipeInv,
     ChildDeathNoticed
<1>30. CASE Reboot
  BY <1>30, BoundsAssumption DEF Reboot, Gone, NoChildren, PipeInv,
     ChildDeathNoticed
<1>31. ASSUME NEW e \in Inputs, Input(e) PROVE PipeInv' /\ ChildDeathNoticed'
  BY <1>31 DEF Input, PipeInv, ChildDeathNoticed
<1>32. ASSUME NEW s \in Signals, StraySignal(s)
      PROVE  PipeInv' /\ ChildDeathNoticed'
  <2>1. PipeInv' /\ (Waiting => Waiting')
    BY <1>32, PostStep DEF StraySignal
  <2> QED BY <1>32, <2>1 DEF StraySignal, ChildDeathNoticed, Waiting
<1>33. ASSUME NEW p \in Pids, ChildExits(p) PROVE PipeInv' /\ ChildDeathNoticed'
  <2>1. PipeInv' /\ Waiting'
    BY <1>33, PostStep DEF ChildExits, Signals
  <2> QED BY <2>1 DEF ChildDeathNoticed, Waiting
<1>34. CASE StartForks
  BY <1>34 DEF StartForks, PipeInv, ChildDeathNoticed
<1>35. CASE HandlePower
  <2>1. CASE UNCHANGED <<child, pipe>>
    BY <2>1 DEF PipeInv, ChildDeathNoticed
  <2>2. ASSUME NEW p \in Pids, child' = [child EXCEPT ![p] = "running"],
               UNCHANGED pipe
        PROVE  PipeInv' /\ ChildDeathNoticed'
    BY <2>2 DEF PipeInv, ChildDeathNoticed
  <2>3. CASE UNCHANGED child /\ Post("CHLD")
    <3>1. PipeInv' /\ Waiting'
      BY <2>3, PostStep DEF Signals
    <3> QED BY <3>1 DEF ChildDeathNoticed, Waiting
  <2> QED BY <1>35, <2>1, <2>2, <2>3 DEF HandlePower
<1>36. CASE DrainStop
  <2>1. PipeInv' /\ (Waiting => Waiting') /\ child' = child
    BY <1>36, NextByteStep DEF DrainStop, StopSignals
  <2> QED BY <2>1 DEF ChildDeathNoticed, Waiting
<1>37. CASE DrainOtherChild
  <2>1. PipeInv'
    BY <1>37, NextByteStep DEF DrainOtherChild
  <2>2. \A p \in Pids : child'[p] # "zombie"
    BY <1>37 DEF DrainOtherChild, Reap
  <2> QED BY <2>1, <2>2 DEF ChildDeathNoticed
<1>38. CASE DrainSession
  <2>1. PipeInv'
    BY <1>38, NextByteStep DEF DrainSession
  <2>2. \A p \in Pids : child'[p] # "zombie"
    BY <1>38 DEF DrainSession, Reap
  <2> QED BY <2>1, <2>2 DEF ChildDeathNoticed
<1>39. CASE UNCHANGED vars
  BY <1>39 DEF vars, PipeInv, ChildDeathNoticed
<1>40. CASE OtherClient
  BY <1>40 DEF OtherClient, PipeInv, ChildDeathNoticed
<1> QED
  BY <1>1, <1>2, <1>3, <1>4, <1>5, <1>6, <1>7, <1>8, <1>9, <1>10, <1>11,
     <1>12, <1>13, <1>14, <1>15, <1>16, <1>17, <1>18, <1>19, <1>20, <1>21,
     <1>22, <1>23, <1>24, <1>25, <1>26, <1>27, <1>28, <1>29, <1>30, <1>31,
     <1>32, <1>33, <1>34, <1>35, <1>36, <1>37, <1>38, <1>39, <1>40 DEF Next,
     HandleEvent, PamReturns, Proceed, HandleSignals, World

\* The end of a session cannot be missed: while there is a zombie there is a
\* byte in the pipe that makes the loop wait for it.
THEOREM ChildDeathIsNoticed == Spec => []ChildDeathNoticed
<1>1. Init => PipeInv /\ ChildDeathNoticed
  BY BoundsAssumption DEF Init, PipeInv, ChildDeathNoticed, NoChildren
<1>2. TypeOK /\ PipeInv /\ ChildDeathNoticed /\ [Next]_vars
        => PipeInv' /\ ChildDeathNoticed'
  BY NoticedStep
<1> QED
  BY <1>1, <1>2, TypeCorrect, PTL DEF Spec
=============================================================================
