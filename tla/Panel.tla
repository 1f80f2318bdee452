------------------------------- MODULE Panel --------------------------------
(***************************************************************************)
(* The form and the Options menu: class Panel (src/src/ui/panel.cpp) and   *)
(* class Menu (src/src/gfx/menu.cpp), with the callbacks of App            *)
(* (src/src/main.cpp) they end in.  One action is one X event handled, its *)
(* callback included, since all of it runs in the one thread.  An event    *)
(* that changes nothing is a stuttering step and has no action.            *)
(*                                                                         *)
(* Rows count from 1, and 0 is the code's -1.  A text field is only empty  *)
(* or not.  A point of the screen is a control that is there when the menu *)
(* is closed, and the place the open menu has over it: the menu is placed  *)
(* above the Options button, so a row is known by the rows below it.       *)
(***************************************************************************)
EXTENDS Naturals, Sequences

CONSTANTS
    Points,      \* where the pointer can be
    Images,      \* names of background images
    ImageLists,  \* what listBackgroundImages() may return
    None         \* no background: an empty string

Controls == {"User", "Pass", "Autologin", "Options", "Login"}

ASSUME PointsAssumption ==
    Points \subseteq [under : Controls \cup {"Nothing"},
                      zone  : {"out", "pad", "row"}, below : Nat]
ASSUME ImagesAssumption == ImageLists \subseteq Seq(Images)

VARIABLES
    mode,        \* "countdown", "form" or "session": who gets the events
    name,        \* the username field is not empty
    pass,        \* the password field is not empty
    box,         \* mAuto.checked
    focus,       \* mFocus
    open,        \* Menu::mOpen
    items,       \* Menu::mItems
    highlight,   \* Menu::mHighlight
    armed,       \* Menu::mArmed
    pressTarget, \* mPressTarget
    pressRow,    \* mPressRow
    background,  \* mCfg.background
    shown,       \* mBackground: the image on the screen
    saved,       \* XLOGIN_BACKGROUND in the file
    power        \* what this step asked shutdown(8) for

form   == <<mode, name, pass, box>>
menu   == <<open, items, highlight, armed>>
press  == <<pressTarget, pressRow>>
ground == <<background, shown, saved>>
vars   == <<form, focus, menu, press, ground, power>>

Destructive == {"restart", "shutdown"}
MenuActions == Destructive \cup {"nothing", "dismiss", "backgrounds", "main",
                                 "background", "console"}
Item == [action : MenuActions, value : Images \cup {None}]
Entry(a) == [action |-> a, value |-> None]

\* showMainMenu().
MainMenu == <<Entry("console"), Entry("backgrounds"), Entry("restart"),
              Entry("shutdown"), Entry("dismiss")>>

\* showBackgroundMenu(), for the images of the directory.
BackgroundMenu(list) ==
    <<Entry("main"), Entry("background")>> \o
    IF list = <<>> THEN <<Entry("nothing")>>
    ELSE [i \in 1 .. Len(list) |->
             [action |-> "background", value |-> list[i]]]

Targets == Controls \cup {"Nothing", "MenuOutside", "MenuRow"}

FormType   == /\ mode \in {"countdown", "form", "session"}
              /\ name \in BOOLEAN /\ pass \in BOOLEAN /\ box \in BOOLEAN
              /\ focus \in Controls
MenuType   == /\ open \in BOOLEAN /\ items \in Seq(Item)
              /\ highlight \in Nat \ {0} /\ armed \in Nat
PressType  == /\ pressTarget \in Targets /\ pressRow \in Nat
GroundType == /\ {background, shown, saved} \subseteq Images \cup {None}
              /\ power \in Destructive \cup {"none"}

TypeOK == FormType /\ MenuType /\ PressType /\ GroundType

Quiet == power' = "none"
Rows  == 1 .. Len(items)

Init ==
    /\ mode \in {"form", "countdown"} /\ name = (mode = "countdown")
    /\ pass = FALSE /\ box \in BOOLEAN /\ focus = "User"
    /\ open = FALSE /\ items = <<>> /\ highlight = 1 /\ armed = 0
    /\ pressTarget = "Nothing" /\ pressRow = 0
    /\ saved \in Images \cup {None} /\ background = saved
    /\ shown \in {saved, None}
    /\ power = "none"

-----------------------------------------------------------------------------
(* The menu.                                                               *)

\* setItems() and open(), which puts the focus on Options.
ShowMenu(list) ==
    /\ open' = TRUE /\ items' = list /\ highlight' = 1 /\ armed' = 0
    /\ focus' = "Options"

\* Fault: the confirmation survives the menu.
FaultyCloseMenu == open' = FALSE /\ UNCHANGED <<items, highlight, armed>>

\* Menu::close().
CloseMenu == open' = FALSE /\ armed' = 0 /\ UNCHANGED <<items, highlight>>

\* Fault: any armed row will do.
FaultyNeedsConfirm(row) == items[row].action \in Destructive /\ armed = 0

\* The test in activateRow().
NeedsConfirm(row) == items[row].action \in Destructive /\ armed # row

\* Fault: the setting is written before the image is tried.
FaultySave(value) == saved' \in {saved, value}

\* What setBackground() writes: nothing for an image that does not load.
Save(value) == IF value # None /\ shown' = None THEN saved' = saved
                                                ELSE saved' \in {saved, value}

\* setBackground(): the image may fail to load, and the file to be written.
SetBackground(value) ==
    /\ background' = value
    /\ shown' \in {value, None}
    /\ Save(value)

\* menuAction() for the entries that leave the menu up, or change it.
ActStays(item) ==
    /\ \/ item.action = "nothing" /\ armed' = 0
          /\ UNCHANGED <<open, items, highlight, focus>>
       \/ item.action = "backgrounds"
          /\ \E list \in ImageLists : ShowMenu(BackgroundMenu(list))
       \/ item.action = "main" /\ ShowMenu(MainMenu)
    /\ Quiet
    /\ UNCHANGED ground

\* menuAction() for the entries that close it.
ActCloses(item) ==
    /\ CloseMenu
    /\ UNCHANGED focus
    /\ \/ item.action \in {"dismiss", "console"} /\ Quiet
          /\ UNCHANGED ground
       \/ item.action = "background" /\ SetBackground(item.value) /\ Quiet
       \/ item.action \in Destructive /\ power' = item.action
          /\ UNCHANGED ground

\* activateRow(): the first activation of a destructive row arms it.
Activate(row) ==
    /\ row \in Rows
    /\ \/ /\ NeedsConfirm(row)
          /\ armed' = row
          /\ Quiet
          /\ UNCHANGED <<open, items, highlight, focus, ground>>
       \/ ~NeedsConfirm(row) /\ ActStays(items[row])
       \/ ~NeedsConfirm(row) /\ ActCloses(items[row])
    /\ UNCHANGED form

InMenu == mode = "form" /\ open

\* Fault: the highlight is not wrapped round.
FaultyAbove == highlight - 1

\* Up and Down wrap round, and take the confirmation off the row they leave.
Above == IF highlight = 1 THEN Len(items) ELSE highlight - 1
Below == IF highlight = Len(items) THEN 1 ELSE highlight + 1

MenuArrow ==
    /\ InMenu
    /\ highlight' \in {Above, Below}
    /\ armed' = IF armed = highlight' THEN armed ELSE 0
    /\ Quiet
    /\ UNCHANGED <<form, focus, open, items, press, ground>>

MenuHomeEnd ==
    /\ InMenu
    /\ highlight' \in {1, Len(items)} /\ armed' = 0
    /\ Quiet
    /\ UNCHANGED <<form, focus, open, items, press, ground>>

MenuEnter == InMenu /\ Activate(highlight) /\ UNCHANGED press

\* Escape takes back a confirmation first, and only then closes the menu.
MenuEscape ==
    /\ InMenu
    /\ IF armed # 0 THEN armed' = 0 /\ UNCHANGED <<open, items, highlight>>
                    ELSE CloseMenu
    /\ Quiet
    /\ UNCHANGED <<form, focus, press, ground>>

-----------------------------------------------------------------------------
(* The form, with the menu closed.                                         *)

InForm == mode = "form" /\ ~open

\* submit(): both fields are needed; PAM or the launch fails, or there is a
\* session.  The box is set to what is saved if it came as far as that.
Submit ==
    /\ UNCHANGED name
    /\ IF name /\ pass
         THEN /\ pass' = FALSE
              /\ \/ mode' = "form" /\ box' \in BOOLEAN
                 \/ mode' = "session" /\ UNCHANGED box
         ELSE UNCHANGED <<mode, pass, box>>

\* toggleAutologin(): the tick comes back if the file cannot be written.
Toggle == /\ box' \in IF box THEN BOOLEAN ELSE {TRUE}
          /\ UNCHANGED <<mode, name, pass>>

\* A character or Backspace, in the field that has the focus.
TypeName == /\ InForm /\ focus = "User"
            /\ name' \in BOOLEAN
            /\ Quiet
            /\ UNCHANGED <<mode, pass, box, focus, menu, press, ground>>

TypePass == /\ InForm /\ focus = "Pass"
            /\ pass' \in BOOLEAN
            /\ Quiet
            /\ UNCHANGED <<mode, name, box, focus, menu, press, ground>>

\* Space on the box.
KeySpace == /\ InForm /\ focus = "Autologin"
            /\ Toggle
            /\ Quiet
            /\ UNCHANGED <<focus, menu, press, ground>>

Ring == <<"User", "Pass", "Autologin", "Options", "Login">>

\* focusNext(): Tab and BackTab; every control of a live form is usable.
KeyTab == /\ InForm
          /\ \E i \in 1 .. 5 :
                /\ focus = Ring[i]
                /\ focus' \in {Ring[1 + (i % 5)], Ring[1 + ((i + 3) % 5)]}
          /\ Quiet
          /\ UNCHANGED <<form, menu, press, ground>>

\* Up and Down go between the two fields only.
KeyArrow == /\ InForm
            /\ \/ focus = "Pass" /\ focus' = "User"
               \/ focus = "User" /\ focus' = "Pass"
            /\ Quiet
            /\ UNCHANGED <<form, menu, press, ground>>

KeyEnter ==
    /\ InForm
    /\ \/ focus = "Options" /\ ShowMenu(MainMenu) /\ UNCHANGED form
       \/ focus = "User" /\ ~pass /\ focus' = "Pass" /\ UNCHANGED <<form, menu>>
       \/ ~(focus = "Options" \/ (focus = "User" /\ ~pass))
          /\ Submit /\ UNCHANGED <<focus, menu>>
    /\ Quiet
    /\ UNCHANGED <<press, ground>>

KeyEscape == /\ InForm
             /\ name' = FALSE /\ pass' = FALSE /\ focus' = "User"
             /\ Quiet
             /\ UNCHANGED <<mode, box, menu, press, ground>>

-----------------------------------------------------------------------------
(* The pointer.                                                            *)

\* Menu::rowAt().
RowAt(pt) == IF open /\ pt.zone = "row" /\ pt.below < Len(items)
               THEN Len(items) - pt.below ELSE 0

\* Fault: what is behind the menu gets the click.
FaultyTargetAt(pt) == IF RowAt(pt) # 0 THEN "MenuRow" ELSE pt.under

\* targetAt(): an open menu hides the form from the pointer.
TargetAt(pt) == IF ~open THEN pt.under
                ELSE IF RowAt(pt) # 0 \/ pt.zone = "pad" THEN "MenuRow"
                ELSE "MenuOutside"

\* Panel::click() with the button down: remember, and do nothing else.
Press(pt) ==
    /\ mode = "form"
    /\ pressTarget' = TargetAt(pt) /\ pressRow' = RowAt(pt)
    /\ Quiet
    /\ UNCHANGED <<form, focus, menu, ground>>

\* Panel::click() with the button up: act if it is over the same target.
LetGo == /\ mode = "form"
         /\ pressTarget' = "Nothing" /\ pressRow' = 0

\* Up over something else, over nothing, or over another row.
ReleaseAway(pt) ==
    /\ LetGo
    /\ \/ TargetAt(pt) # pressTarget
       \/ TargetAt(pt) = "Nothing"
       \/ TargetAt(pt) = "MenuRow" /\ RowAt(pt) \notin {pressRow} \cap Rows
    /\ Quiet
    /\ UNCHANGED <<form, focus, menu, ground>>

\* A click outside an open menu closes it and is swallowed.
ReleaseOutside(pt) ==
    /\ LetGo
    /\ TargetAt(pt) = "MenuOutside" /\ pressTarget = "MenuOutside"
    /\ CloseMenu
    /\ Quiet
    /\ UNCHANGED <<form, focus, ground>>

ReleaseRow(pt) ==
    /\ LetGo
    /\ TargetAt(pt) = "MenuRow" /\ pressTarget = "MenuRow"
    /\ RowAt(pt) = pressRow
    /\ Activate(pressRow)

ReleaseControl(pt) ==
    /\ LetGo
    /\ TargetAt(pt) = pressTarget
    /\ \/ /\ pressTarget = "Options"
          /\ ShowMenu(MainMenu) /\ UNCHANGED form
       \/ /\ pressTarget = "Login"
          /\ Submit /\ UNCHANGED <<focus, menu>>
       \/ /\ pressTarget \in {"User", "Pass"}
          /\ focus' = pressTarget /\ UNCHANGED <<form, menu>>
       \/ /\ pressTarget = "Autologin"
          /\ focus' = "Autologin" /\ Toggle /\ UNCHANGED menu
    /\ Quiet
    /\ UNCHANGED ground

\* Menu::motion(): over a row, the highlight follows the pointer.
Motion(pt) ==
    /\ open /\ RowAt(pt) # 0
    /\ highlight' = RowAt(pt)
    /\ Quiet
    /\ UNCHANGED <<form, focus, open, items, armed, press, ground>>

-----------------------------------------------------------------------------
(* Panel::layout() and App.                                                *)

\* The screen changed: an open menu is opened again where it belongs now.
Relayout ==
    /\ open
    /\ highlight' = 1 /\ armed' = 0
    /\ Quiet
    /\ UNCHANGED <<form, focus, open, items, press, ground>>

\* Panel::reset().
Reset == /\ pass' = FALSE
         /\ CloseMenu
         /\ focus' = IF name THEN "Pass" ELSE "User"
         /\ UNCHANGED name

\* A key or a press cancels the countdown, or the automatic login fails.
CountdownStops ==
    /\ mode = "countdown" /\ mode' = "form"
    /\ Reset
    /\ Quiet
    /\ UNCHANGED <<box, press, ground>>

\* The automatic login succeeds, and its session starts or does not.
CountdownEnds ==
    /\ mode = "countdown"
    /\ \/ mode' = "session" /\ UNCHANGED box
       \/ mode' = "form" /\ box' \in BOOLEAN
    /\ Quiet
    /\ UNCHANGED <<name, pass, focus, menu, press, ground>>

\* The session ends: the box shows what is saved.
SessionEnds ==
    /\ mode = "session" /\ mode' = "form"
    /\ Reset
    /\ box' \in BOOLEAN
    /\ Quiet
    /\ UNCHANGED <<press, ground>>

-----------------------------------------------------------------------------
MenuKeys == MenuArrow \/ MenuHomeEnd \/ MenuEnter \/ MenuEscape

FormKeys == \/ TypeName \/ TypePass \/ KeySpace \/ KeyTab \/ KeyArrow
            \/ KeyEnter \/ KeyEscape

Pointer == \E pt \in Points :
    \/ Press(pt) \/ ReleaseAway(pt) \/ ReleaseOutside(pt) \/ ReleaseRow(pt)
    \/ ReleaseControl(pt) \/ Motion(pt)

Next == \/ MenuKeys \/ FormKeys \/ Pointer \/ Relayout
        \/ CountdownStops \/ CountdownEnds \/ SessionEnds

Spec == Init /\ [][Next]_vars
=============================================================================
