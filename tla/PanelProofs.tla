---------------------------- MODULE PanelProofs -----------------------------
(***************************************************************************)
(* Proofs about the form and the Options menu, for any places of the       *)
(* pointer and any images.                                                 *)
(***************************************************************************)
EXTENDS PanelProperties, SequenceTheorems, TLAPS

LEMMA EntryType == \A a \in MenuActions : Entry(a) \in Item
  BY DEF Entry, Item

\* Both menus are sequences of entries and have a first row.
LEMMA MainMenuType == MainMenu \in Seq(Item) /\ Len(MainMenu) = 5
<1>1. /\ Entry("console") \in Item /\ Entry("backgrounds") \in Item
      /\ Entry("restart") \in Item /\ Entry("shutdown") \in Item
      /\ Entry("dismiss") \in Item
  BY EntryType DEF MenuActions, Destructive
<1> QED BY <1>1 DEF MainMenu

LEMMA BackgroundMenuType ==
    ASSUME NEW list \in ImageLists
    PROVE  /\ BackgroundMenu(list) \in Seq(Item)
           /\ BackgroundMenu(list) # <<>> /\ Len(BackgroundMenu(list)) >= 1
<1> DEFINE head == <<Entry("main"), Entry("background")>>
           tail == IF list = <<>> THEN <<Entry("nothing")>>
                   ELSE [i \in 1 .. Len(list) |->
                            [action |-> "background", value |-> list[i]]]
<1>1. head \in Seq(Item) /\ Len(head) = 2
  <2>1. Entry("main") \in Item /\ Entry("background") \in Item
    BY EntryType DEF MenuActions, Destructive
  <2> QED BY <2>1
<1>2. tail \in Seq(Item)
  <2>1. list \in Seq(Images)
    BY ImagesAssumption
  <2>2. CASE list = <<>>
    <3>1. Entry("nothing") \in Item
      BY EntryType DEF MenuActions, Destructive
    <3> QED BY <2>2, <3>1
  <2>3. CASE list # <<>>
    <3>1. \A i \in 1 .. Len(list) :
             [action |-> "background", value |-> list[i]] \in Item
      BY <2>1 DEF Item, MenuActions
    <3>2. Len(list) \in Nat
      BY <2>1
    <3> QED BY <2>3, <3>1, <3>2
  <2> QED BY <2>2, <2>3
<1>3. BackgroundMenu(list) = head \o tail
  BY DEF BackgroundMenu
<1> HIDE DEF head, tail
<1>4. head \o tail \in Seq(Item) /\ Len(head \o tail) = Len(head) + Len(tail)
  BY <1>1, <1>2, ConcatProperties
<1>5. Len(tail) \in Nat
  BY <1>2
<1> QED BY <1>1, <1>3, <1>4, <1>5

-----------------------------------------------------------------------------
(* What the pointer is over.                                               *)

LEMMA Hit ==
    ASSUME TypeOK, NEW pt \in Points
    PROVE  /\ RowAt(pt) \in Nat
           /\ RowAt(pt) # 0 => open /\ RowAt(pt) \in Rows
           /\ TargetAt(pt) \in Targets
           /\ open => TargetAt(pt) \in {"MenuRow", "MenuOutside"}
           /\ ~open => TargetAt(pt) \in Controls \cup {"Nothing"}
<1>1. pt.under \in Controls \cup {"Nothing"} /\ pt.below \in Nat
  BY PointsAssumption
<1>2. Len(items) \in Nat
  BY DEF TypeOK, MenuType
<1>3. /\ RowAt(pt) \in Nat
      /\ RowAt(pt) # 0 => open /\ RowAt(pt) \in Rows
  BY <1>1, <1>2 DEF RowAt, Rows
<1>4. open => TargetAt(pt) \in {"MenuRow", "MenuOutside"}
  BY DEF TargetAt
<1>5. ~open => TargetAt(pt) \in Controls \cup {"Nothing"}
  BY <1>1 DEF TargetAt
<1> QED BY <1>3, <1>4, <1>5 DEF Targets

-----------------------------------------------------------------------------
(* The menu's invariant, over the operations it is made of.                *)

Inv == TypeOK /\ MenuCoherent

LEMMA MenuInit == ASSUME Init PROVE Inv
<1>1. FormType
  BY DEF Init, FormType, Controls
<1>2. MenuType
  <2>1. items \in Seq(Item)
    BY DEF Init
  <2>2. open \in BOOLEAN
    BY DEF Init
  <2>3. highlight \in Nat \ {0} /\ armed \in Nat
    BY DEF Init
  <2> QED BY <2>1, <2>2, <2>3 DEF MenuType
<1>3. PressType
  BY EntryType DEF Init, PressType, Targets, MenuActions
<1>4. GroundType
  BY DEF Init, GroundType
<1>5. MenuCoherent
  BY DEF Init, MenuCoherent
<1> QED BY <1>1, <1>2, <1>3, <1>4, <1>5 DEF TypeOK, Inv

\* A menu that is shown starts over, with nothing armed.
LEMMA ShownMenu ==
    ASSUME MenuType, NEW list \in Seq(Item), Len(list) >= 1,
           ShowMenu(list), mode' = "form"
    PROVE  MenuType' /\ MenuCoherent'
<1>1. MenuType'
  BY DEF ShowMenu, MenuType
<1>2. MenuCoherent'
  <2>1. Len(list) \in Nat /\ list # <<>>
    OBVIOUS
  <2> QED BY <2>1 DEF ShowMenu, MenuCoherent, Rows
<1> QED BY <1>1, <1>2

LEMMA ClosedMenu ==
    ASSUME MenuType, CloseMenu
    PROVE  MenuType' /\ MenuCoherent'
<1>1. MenuType'
  BY DEF CloseMenu, MenuType
<1>2. MenuCoherent'
  BY DEF CloseMenu, MenuCoherent
<1> QED BY <1>1, <1>2

\* While it is closed, nothing is armed and whatever happens to the form
\* does not matter.
LEMMA StillClosed ==
    ASSUME Inv, ~open, UNCHANGED menu
    PROVE  MenuType' /\ MenuCoherent'
<1>1. MenuType'
  BY DEF Inv, TypeOK, MenuType, menu
<1>2. MenuCoherent'
  BY DEF Inv, MenuCoherent, menu
<1> QED BY <1>1, <1>2

LEMMA StillOpen ==
    ASSUME Inv, UNCHANGED <<mode, focus, menu>>
    PROVE  MenuType' /\ MenuCoherent'
<1>1. MenuType'
  BY DEF Inv, TypeOK, MenuType, menu
<1>2. MenuCoherent'
  BY DEF Inv, MenuCoherent, menu, Rows
<1> QED BY <1>1, <1>2

\* The highlight moves to a row, and a confirmation is left alone or dropped.
LEMMA Moved ==
    ASSUME Inv, open, highlight' \in Rows, armed' \in {0, armed},
           UNCHANGED <<mode, focus, open, items>>
    PROVE  MenuType' /\ MenuCoherent'
<1>1. MenuType'
  BY DEF Inv, TypeOK, MenuType, Rows
<1>2. MenuCoherent'
  BY DEF Inv, MenuCoherent, Rows
<1> QED BY <1>1, <1>2

-----------------------------------------------------------------------------
(* Activation of a row, in its three outcomes.                             *)

LEMMA ActivateMenu ==
    ASSUME Inv, InMenu, NEW row, Activate(row)
    PROVE  MenuType' /\ MenuCoherent' /\ mode' = "form" /\ focus' = "Options"
<1>1. mode' = "form" /\ row \in Rows /\ row \in Nat
  BY DEF Activate, InMenu, form, Inv, TypeOK, MenuType, Rows
<1>2. focus = "Options"
  BY DEF Inv, MenuCoherent, InMenu
<1>3. CASE /\ NeedsConfirm(row) /\ armed' = row
           /\ UNCHANGED <<open, items, highlight, focus>>
  <2>1. MenuType'
    BY <1>1, <1>3 DEF Inv, TypeOK, MenuType
  <2>2. MenuCoherent'
    BY <1>1, <1>3 DEF Inv, MenuCoherent, NeedsConfirm, Rows, InMenu
  <2> QED BY <1>1, <1>2, <1>3, <2>1, <2>2
<1>4. CASE ActStays(items[row])
  <2>1. CASE armed' = 0 /\ UNCHANGED <<open, items, highlight, focus>>
    <3>1. MenuType'
      BY <2>1 DEF Inv, TypeOK, MenuType
    <3>2. MenuCoherent'
      BY <1>1, <2>1 DEF Inv, MenuCoherent, Rows
    <3> QED BY <1>1, <1>2, <2>1, <3>1, <3>2
  <2>2. CASE \E list \in ImageLists : ShowMenu(BackgroundMenu(list))
    <3>1. PICK list \in ImageLists : ShowMenu(BackgroundMenu(list))
      BY <2>2
    <3>2. MenuType' /\ MenuCoherent'
      BY <1>1, <3>1, BackgroundMenuType, ShownMenu DEF Inv, TypeOK
    <3> QED BY <1>1, <3>1, <3>2 DEF ShowMenu
  <2>3. CASE ShowMenu(MainMenu)
    <3>1. MenuType' /\ MenuCoherent'
      BY <1>1, <2>3, MainMenuType, ShownMenu DEF Inv, TypeOK
    <3> QED BY <1>1, <2>3, <3>1 DEF ShowMenu
  <2> QED BY <1>4, <2>1, <2>2, <2>3 DEF ActStays
<1>5. CASE ActCloses(items[row])
  BY <1>1, <1>2, <1>5, ClosedMenu DEF ActCloses, Inv, TypeOK
<1> QED BY <1>3, <1>4, <1>5 DEF Activate

LEMMA ActivateGround ==
    ASSUME TypeOK, NEW row, Activate(row)
    PROVE  GroundType'
<1>1. items[row] \in Item
  BY DEF Activate, Rows, TypeOK, MenuType
<1>2. items[row].value \in Images \cup {None}
  BY <1>1 DEF Item
<1>3. CASE UNCHANGED ground /\ Quiet
  BY <1>3 DEF TypeOK, GroundType, ground, Quiet
<1>4. CASE UNCHANGED ground /\ power' \in Destructive
  BY <1>4 DEF TypeOK, GroundType, ground
<1>5. CASE SetBackground(items[row].value) /\ Quiet
  BY <1>2, <1>5 DEF SetBackground, Save, TypeOK, GroundType, Quiet
<1>6. \/ UNCHANGED ground /\ Quiet
      \/ UNCHANGED ground /\ power' \in Destructive
      \/ SetBackground(items[row].value) /\ Quiet
  BY DEF Activate, ActStays, ActCloses
<1> QED BY <1>3, <1>4, <1>5, <1>6

\* The pointer can only let go of a row of an open menu.
LEMMA RowReleased ==
    ASSUME Inv, NEW pt \in Points, ReleaseRow(pt)
    PROVE  InMenu /\ Activate(RowAt(pt))
<1>1. TargetAt(pt) = "MenuRow"
  BY DEF ReleaseRow
<1>2. open
  BY <1>1, Hit DEF Inv, Controls
<1> QED BY <1>2 DEF ReleaseRow, LetGo, InMenu

-----------------------------------------------------------------------------
(* Every step keeps the invariant: the menu, then what is around it.       *)

LEMMA MenuStep ==
    ASSUME Inv, Next
    PROVE  MenuType' /\ MenuCoherent'
<1>1. CASE MenuArrow
  <2>1. InMenu /\ highlight' \in Rows /\ armed' \in {0, armed}
    BY <1>1 DEF MenuArrow, InMenu, Above, Below, Rows, Inv, TypeOK, MenuType,
                MenuCoherent
  <2> QED BY <1>1, <2>1, Moved DEF MenuArrow, InMenu, form
<1>2. CASE MenuHomeEnd
  <2>1. InMenu /\ highlight' \in Rows /\ armed' = 0
    BY <1>2 DEF MenuHomeEnd, InMenu, Rows, Inv, TypeOK, MenuType, MenuCoherent
  <2> QED BY <1>2, <2>1, Moved DEF MenuHomeEnd, InMenu, form
<1>3. CASE MenuEnter
  BY <1>3, ActivateMenu DEF MenuEnter
<1>4. CASE MenuEscape
  <2>1. CASE CloseMenu
    BY <2>1, ClosedMenu DEF Inv, TypeOK
  <2>2. CASE armed' = 0 /\ UNCHANGED <<open, items, highlight>>
    <3>1. highlight \in Rows /\ UNCHANGED <<mode, focus>>
      BY <1>4 DEF MenuEscape, InMenu, Inv, MenuCoherent, form
    <3> QED BY <1>4, <2>2, <3>1, Moved DEF MenuEscape, InMenu
  <2> QED BY <1>4, <2>1, <2>2 DEF MenuEscape
<1>5. CASE FormKeys
  <2>1. InForm
    BY <1>5 DEF FormKeys, TypeName, TypePass, KeySpace, KeyTab, KeyArrow,
                KeyEnter, KeyEscape
  <2>2. CASE ShowMenu(MainMenu) /\ UNCHANGED form
    BY <2>1, <2>2, MainMenuType, ShownMenu DEF InForm, form, Inv, TypeOK
  <2>3. CASE UNCHANGED menu
    BY <2>1, <2>3, StillClosed DEF InForm
  <2> QED
    BY <1>5, <2>2, <2>3
    DEF FormKeys, TypeName, TypePass, KeySpace, KeyTab, KeyArrow, KeyEnter,
        KeyEscape
<1>6. ASSUME NEW pt \in Points, Press(pt) \/ ReleaseAway(pt)
      PROVE  MenuType' /\ MenuCoherent'
  BY <1>6, StillOpen DEF Press, ReleaseAway, form
<1>7. ASSUME NEW pt \in Points, ReleaseOutside(pt)
      PROVE  MenuType' /\ MenuCoherent'
  BY <1>7, ClosedMenu DEF ReleaseOutside, Inv, TypeOK
<1>8. ASSUME NEW pt \in Points, ReleaseRow(pt)
      PROVE  MenuType' /\ MenuCoherent'
  BY <1>8, RowReleased, ActivateMenu
<1>9. ASSUME NEW pt \in Points, ReleaseControl(pt)
      PROVE  MenuType' /\ MenuCoherent'
  <2>1. ~open /\ mode = "form"
    <3>1. TargetAt(pt) \in {"Options", "Login", "User", "Pass", "Autologin"}
      BY <1>9 DEF ReleaseControl
    <3> QED BY <1>9, <3>1, Hit DEF ReleaseControl, LetGo, Inv
  <2>2. CASE ShowMenu(MainMenu) /\ UNCHANGED form
    BY <2>1, <2>2, MainMenuType, ShownMenu DEF form, Inv, TypeOK
  <2>3. CASE UNCHANGED menu
    BY <2>1, <2>3, StillClosed
  <2> QED BY <1>9, <2>2, <2>3 DEF ReleaseControl
<1>10. ASSUME NEW pt \in Points, Motion(pt)
       PROVE  MenuType' /\ MenuCoherent'
  <2>1. open /\ highlight' \in Rows
    BY <1>10, Hit DEF Motion, Inv
  <2> QED BY <1>10, <2>1, Moved DEF Motion, form
<1>11. CASE Relayout
  <2>1. open /\ 1 \in Rows
    BY <1>11 DEF Relayout, Inv, TypeOK, MenuType, MenuCoherent, Rows
  <2> QED BY <1>11, <2>1, Moved DEF Relayout, form
<1>12. CASE CountdownStops \/ SessionEnds
  BY <1>12, ClosedMenu DEF CountdownStops, SessionEnds, Reset, Inv, TypeOK
<1>13. CASE CountdownEnds
  <2>1. ~open
    BY <1>13 DEF CountdownEnds, Inv, MenuCoherent
  <2> QED BY <1>13, <2>1, StillClosed DEF CountdownEnds
<1> QED
  BY <1>1, <1>2, <1>3, <1>4, <1>5, <1>6, <1>7, <1>8, <1>9, <1>10, <1>11,
     <1>12, <1>13
  DEF Next, MenuKeys, Pointer

LEMMA GroundStep ==
    ASSUME Inv, Next
    PROVE  GroundType'
<1>1. CASE UNCHANGED ground /\ Quiet
  BY <1>1 DEF Inv, TypeOK, GroundType, ground, Quiet
<1>2. CASE \E row : Activate(row)
  BY <1>2, ActivateGround DEF Inv
<1>3. CASE MenuKeys
  BY <1>1, <1>2, <1>3 DEF MenuKeys, MenuArrow, MenuHomeEnd, MenuEnter, MenuEscape
<1>4. CASE FormKeys
  BY <1>1, <1>4 DEF FormKeys, TypeName, TypePass, KeySpace, KeyTab, KeyArrow,
                    KeyEnter, KeyEscape
<1>5. CASE Pointer
  BY <1>1, <1>2, <1>5 DEF Pointer, Press, ReleaseAway, ReleaseOutside, ReleaseRow,
                          ReleaseControl, Motion
<1>6. CASE Relayout \/ CountdownStops \/ CountdownEnds \/ SessionEnds
  BY <1>1, <1>6 DEF Relayout, CountdownStops, CountdownEnds, SessionEnds
<1> QED BY <1>3, <1>4, <1>5, <1>6 DEF Next

LEMMA PressStep ==
    ASSUME Inv, Next
    PROVE  PressType'
<1>1. CASE UNCHANGED press
  BY <1>1 DEF Inv, TypeOK, PressType, press
<1>2. CASE LetGo
  BY <1>2 DEF LetGo, Inv, TypeOK, PressType, Targets
<1>3. ASSUME NEW pt \in Points, Press(pt)
      PROVE  PressType'
  <2>1. TargetAt(pt) \in Targets /\ RowAt(pt) \in Nat
    BY Hit DEF Inv
  <2> QED BY <1>3, <2>1 DEF Press, PressType
<1>4. CASE MenuKeys
  BY <1>1, <1>4 DEF MenuKeys, MenuArrow, MenuHomeEnd, MenuEnter, MenuEscape
<1>5. CASE FormKeys
  BY <1>1, <1>5 DEF FormKeys, TypeName, TypePass, KeySpace, KeyTab, KeyArrow,
                    KeyEnter, KeyEscape
<1>6. CASE Pointer
  BY <1>1, <1>2, <1>3, <1>6 DEF Pointer, ReleaseAway, ReleaseOutside,
                                ReleaseRow, ReleaseControl, Motion
<1>7. CASE Relayout \/ CountdownStops \/ CountdownEnds \/ SessionEnds
  BY <1>1, <1>7 DEF Relayout, CountdownStops, CountdownEnds, SessionEnds
<1> QED BY <1>4, <1>5, <1>6, <1>7 DEF Next

LEMMA SubmitForm ==
    ASSUME FormType, Submit, mode = "form", focus' \in Controls
    PROVE  FormType'
BY DEF Submit, FormType

LEMMA ToggleForm ==
    ASSUME FormType, Toggle, focus' \in Controls
    PROVE  FormType'
BY DEF Toggle, FormType

LEMMA ResetForm ==
    ASSUME FormType, Reset, mode' = "form", box' \in BOOLEAN
    PROVE  FormType'
BY DEF Reset, FormType, Controls

LEMMA FormStep ==
    ASSUME Inv, Next
    PROVE  FormType'
<1>1. FormType
  BY DEF Inv, TypeOK
<1>2. CASE UNCHANGED form /\ focus' \in Controls
  BY <1>1, <1>2 DEF FormType, form
<1>3. focus \in Controls /\ {"User", "Pass", "Autologin", "Options", "Login"} = Controls
  BY <1>1 DEF FormType, Controls
<1>4. CASE MenuKeys
  <2>1. CASE MenuEnter
    BY <1>2, <1>3, <2>1, ActivateMenu DEF MenuEnter, Activate
  <2>2. CASE MenuArrow \/ MenuHomeEnd \/ MenuEscape
    BY <1>2, <1>3, <2>2 DEF MenuArrow, MenuHomeEnd, MenuEscape
  <2> QED BY <1>4, <2>1, <2>2 DEF MenuKeys
<1>5. CASE TypeName \/ TypePass \/ KeyEscape
  BY <1>1, <1>3, <1>5 DEF TypeName, TypePass, KeyEscape, FormType
<1>6. CASE KeySpace
  BY <1>1, <1>3, <1>6, ToggleForm DEF KeySpace
<1>7. CASE KeyTab
  <2>1. \A i \in 1 .. 5 : /\ Ring[1 + (i % 5)] \in Controls
                          /\ Ring[1 + ((i + 3) % 5)] \in Controls
    <3>1. \A i \in 1 .. 5 : 1 + (i % 5) \in 1 .. 5 /\ 1 + ((i + 3) % 5) \in 1 .. 5
      OBVIOUS
    <3>2. \A i \in 1 .. 5 : Ring[i] \in Controls
      BY DEF Ring, Controls
    <3> QED BY <3>1, <3>2
  <2> QED BY <1>2, <1>7, <2>1 DEF KeyTab
<1>8. CASE KeyArrow
  BY <1>2, <1>3, <1>8 DEF KeyArrow
<1>9. CASE KeyEnter
  BY <1>1, <1>2, <1>3, <1>9, SubmitForm DEF KeyEnter, InForm, ShowMenu
<1>10. ASSUME NEW pt \in Points, Press(pt) \/ ReleaseAway(pt) \/ ReleaseOutside(pt)
       PROVE  FormType'
  BY <1>2, <1>3, <1>10 DEF Press, ReleaseAway, ReleaseOutside
<1>11. ASSUME NEW pt \in Points, ReleaseRow(pt)
       PROVE  FormType'
  BY <1>2, <1>3, <1>11, RowReleased, ActivateMenu DEF Activate
<1>12. ASSUME NEW pt \in Points, ReleaseControl(pt)
       PROVE  FormType'
  BY <1>1, <1>2, <1>3, <1>12, SubmitForm, ToggleForm
  DEF ReleaseControl, LetGo, ShowMenu
<1>13. ASSUME NEW pt \in Points, Motion(pt)
       PROVE  FormType'
  BY <1>2, <1>3, <1>13 DEF Motion
<1>14. CASE Relayout
  BY <1>2, <1>3, <1>14 DEF Relayout
<1>15. CASE CountdownStops \/ SessionEnds
  BY <1>1, <1>15, ResetForm DEF CountdownStops, SessionEnds, FormType
<1>16. CASE CountdownEnds
  BY <1>1, <1>16 DEF CountdownEnds, FormType
<1> QED
  BY <1>4, <1>5, <1>6, <1>7, <1>8, <1>9, <1>10, <1>11, <1>12, <1>13, <1>14,
     <1>15, <1>16
  DEF Next, FormKeys, Pointer

LEMMA InvStep == ASSUME Inv, [Next]_vars PROVE Inv'
<1>1. CASE Next
  BY <1>1, MenuStep, GroundStep, PressStep, FormStep DEF Inv, TypeOK
<1>2. CASE UNCHANGED vars
  <2>1. FormType'
    BY <1>2 DEF vars, form, Inv, TypeOK, FormType
  <2>2. MenuType' /\ MenuCoherent'
    BY <1>2, StillOpen DEF vars, form
  <2>3. PressType' /\ GroundType'
    BY <1>2 DEF vars, press, ground, Inv, TypeOK, PressType, GroundType
  <2> QED BY <2>1, <2>2, <2>3 DEF Inv, TypeOK
<1> QED BY <1>1, <1>2

\* Every variable stays in its type, for all places of the pointer, images and
\* orders of events.
THEOREM TypeCorrect == Spec => []TypeOK
<1>1. Init => Inv
  BY MenuInit
<1>2. Inv /\ [Next]_vars => Inv'
  BY InvStep
<1> QED BY <1>1, <1>2, PTL DEF Spec, Inv

\* A waiting confirmation is always that of a destructive row of the menu on
\* the screen, and an open menu has the keyboard's position on a row of it.
THEOREM MenuAlwaysCoherent == Spec => []MenuCoherent
<1>1. Init => Inv
  BY MenuInit
<1>2. Inv /\ [Next]_vars => Inv'
  BY InvStep
<1> QED BY <1>1, <1>2, PTL DEF Spec, Inv

-----------------------------------------------------------------------------
(* The form behind the menu, and the background in the file.               *)

\* Nothing that is done while the menu is open reaches the form.
THEOREM FormIsBehindMenu == Spec => FormBehindMenu
<1>1. Init => Inv
  BY MenuInit
<1>2. Inv /\ [Next]_vars => Inv'
  BY InvStep
<1>3. Inv /\ [Next]_vars => [Modal]_vars
  <2> SUFFICES ASSUME Inv, Next, open PROVE UNCHANGED form
    BY DEF Modal, form, vars
  <2>1. CASE MenuKeys
    BY <2>1 DEF MenuKeys, MenuArrow, MenuHomeEnd, MenuEnter, MenuEscape, Activate
  <2>2. CASE FormKeys
    BY <2>2 DEF FormKeys, TypeName, TypePass, KeySpace, KeyTab, KeyArrow,
                KeyEnter, KeyEscape, InForm
  <2>3. ASSUME NEW pt \in Points, ReleaseControl(pt)
        PROVE  FALSE
    <3>1. TargetAt(pt) \in {"Options", "Login", "User", "Pass", "Autologin"}
      BY <2>3 DEF ReleaseControl
    <3> QED BY <3>1, Hit DEF Inv
  <2>4. CASE Pointer
    BY <2>3, <2>4 DEF Pointer, Press, ReleaseAway, ReleaseOutside, ReleaseRow,
                      Motion, Activate
  <2>5. CASE Relayout
    BY <2>5 DEF Relayout
  <2>6. CASE CountdownStops \/ CountdownEnds \/ SessionEnds
    BY <2>6 DEF CountdownStops, CountdownEnds, SessionEnds, Inv, MenuCoherent
  <2> QED BY <2>1, <2>2, <2>4, <2>5, <2>6 DEF Next
<1> QED BY <1>1, <1>2, <1>3, PTL DEF Spec, FormBehindMenu

\* The file is only ever given a background that is on the screen.
THEOREM SavedIsShown == Spec => BackgroundWorks
<1>1. [Next]_vars => [SavesShown]_vars
  <2> SUFFICES ASSUME Next PROVE SavesShown
    BY DEF vars
  <2>1. CASE UNCHANGED ground
    BY <2>1 DEF SavesShown, ground
  <2>2. ASSUME NEW value, SetBackground(value) PROVE SavesShown
    BY <2>2 DEF SetBackground, Save, SavesShown
  <2>3. ASSUME NEW row, Activate(row) PROVE SavesShown
    BY <2>1, <2>2, <2>3 DEF Activate, ActStays, ActCloses
  <2>4. CASE MenuKeys
    BY <2>1, <2>3, <2>4 DEF MenuKeys, MenuArrow, MenuHomeEnd, MenuEnter, MenuEscape
  <2>5. CASE FormKeys
    BY <2>1, <2>5 DEF FormKeys, TypeName, TypePass, KeySpace, KeyTab, KeyArrow,
                      KeyEnter, KeyEscape
  <2>6. CASE Pointer
    BY <2>1, <2>3, <2>6 DEF Pointer, Press, ReleaseAway, ReleaseOutside,
                            ReleaseRow, ReleaseControl, Motion
  <2>7. CASE Relayout \/ CountdownStops \/ CountdownEnds \/ SessionEnds
    BY <2>1, <2>7 DEF Relayout, CountdownStops, CountdownEnds, SessionEnds
  <2> QED BY <2>4, <2>5, <2>6, <2>7 DEF Next
<1> QED BY <1>1, PTL DEF Spec, BackgroundWorks

-----------------------------------------------------------------------------
(* The menu implements the confirmation.                                   *)

\* The entry that is armed, as the refinement sees it.
Armed == IF armed # 0 THEN items[armed].action ELSE "none"

\* A step that does nothing final, and keeps the question or takes it back.
LEMMA Harmless ==
    ASSUME Quiet, armed' = 0 \/ UNCHANGED <<items, armed>>
    PROVE  power' = "none" /\ Armed' \in {Armed, "none"}
BY DEF Armed, Quiet

LEMMA ActivateAsks ==
    ASSUME Inv, NEW row, Activate(row)
    PROVE  \/ power' = "none" /\ Armed' = "none"
           \/ power' = "none" /\ Armed' \in Destructive
           \/ power' \in Destructive /\ Armed = power' /\ Armed' = "none"
<1>1. row # 0
  BY DEF Activate, Rows, Inv, TypeOK, MenuType
<1>2. CASE /\ NeedsConfirm(row) /\ armed' = row /\ Quiet
           /\ UNCHANGED <<open, items, highlight, focus, ground>>
  BY <1>1, <1>2 DEF NeedsConfirm, Armed, Quiet
<1>3. CASE ActStays(items[row])
  BY <1>3 DEF ActStays, ShowMenu, Armed, Quiet
<1>4. CASE ~NeedsConfirm(row) /\ ActCloses(items[row])
  <2>1. armed' = 0
    BY <1>4 DEF ActCloses, CloseMenu
  <2>2. CASE Quiet
    BY <2>1, <2>2 DEF Armed, Quiet
  <2>3. CASE items[row].action \in Destructive /\ power' = items[row].action
    BY <1>1, <1>4, <2>1, <2>3 DEF NeedsConfirm, Armed
  <2> QED BY <1>4, <2>2, <2>3 DEF ActCloses
<1> QED BY <1>2, <1>3, <1>4 DEF Activate

\* The machine goes down only on the second of two activations of the same
\* entry that nothing came between, whatever the menus and the pointer do.
THEOREM Implementation == Spec => ImplementsConfirm
<1>1. Init => Inv
  BY MenuInit
<1>2. Inv /\ [Next]_vars => Inv'
  BY InvStep
<1>3. Init => Question!Init
  BY DEF Init, Question!Init
<1>4. Inv /\ [Next]_vars => [Question!Next \/ Question!Other]_(Question!vars)
  <2> SUFFICES ASSUME Inv, [Next]_vars
               PROVE  [Question!Next \/ Question!Other]_(Question!vars)
    OBVIOUS
  <2>1. ASSUME power' = "none", Armed' \in {Armed, "none"}
        PROVE  Question!Next \/ Question!Other
    BY <2>1 DEF Armed, Question!Next, Question!Cancel, Question!Other
  <2>2. ASSUME NEW row, Activate(row)
        PROVE  Question!Next
    BY <2>2, ActivateAsks
    DEF Armed, Question!Next, Question!Cancel, Question!Ask, Question!Confirmed
  <2>3. CASE MenuArrow \/ MenuHomeEnd \/ MenuEscape
    BY <2>1, <2>3, Harmless DEF MenuArrow, MenuHomeEnd, MenuEscape, CloseMenu
  <2>4. CASE MenuEnter
    BY <2>2, <2>4 DEF MenuEnter
  <2>5. CASE FormKeys
    BY <2>1, <2>5, Harmless
    DEF FormKeys, TypeName, TypePass, KeySpace, KeyTab, KeyArrow, KeyEnter,
        KeyEscape, ShowMenu, menu
  <2>6. CASE \E pt \in Points : ReleaseRow(pt)
    BY <2>2, <2>6 DEF ReleaseRow
  <2>7. CASE \E pt \in Points : \/ Press(pt) \/ ReleaseAway(pt) \/ ReleaseOutside(pt)
                                \/ ReleaseControl(pt) \/ Motion(pt)
    BY <2>1, <2>7, Harmless
    DEF Press, ReleaseAway, ReleaseOutside, ReleaseControl, Motion, CloseMenu,
        ShowMenu, menu
  <2>8. CASE Relayout \/ CountdownStops \/ CountdownEnds \/ SessionEnds
    BY <2>1, <2>8, Harmless
    DEF Relayout, CountdownStops, CountdownEnds, SessionEnds, Reset, CloseMenu,
        menu
  <2>9. CASE UNCHANGED vars
    BY <2>9 DEF vars, menu, Question!vars
  <2> QED
    BY <2>3, <2>4, <2>5, <2>6, <2>7, <2>8, <2>9 DEF Next, MenuKeys, Pointer
<1> QED
  BY <1>1, <1>2, <1>3, <1>4, PTL DEF Spec, ImplementsConfirm, Question!Spec
=============================================================================
