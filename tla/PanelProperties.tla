--------------------------- MODULE PanelProperties ---------------------------
(***************************************************************************)
(* The properties of the form and its Options menu.                        *)
(***************************************************************************)
EXTENDS Panel

\* A waiting confirmation belongs to a destructive row of the menu on the
\* screen, the keyboard's position is a row of it, and the focus is on the
\* Options button as long as the menu is open: whichever of the ways to open,
\* swap, place again and close the menu were taken.
MenuCoherent ==
    /\ open => /\ mode = "form" /\ focus = "Options"
               /\ items # <<>> /\ highlight \in Rows
    /\ armed # 0 => /\ open /\ armed \in Rows
                    /\ items[armed].action \in Destructive

\* menu.h, "Shutdown and Restart need a second click": the machine goes down
\* only on an activation of the entry that was asked for before, with no
\* other activation, menu, Escape or dismissal in between.
Question == INSTANCE Confirm WITH
    Final <- Destructive, Quiet <- "none", done <- power,
    asked <- IF armed # 0 THEN items[armed].action ELSE "none"

ImplementsConfirm == Question!Spec

\* Nothing done while the menu is open, and not the click that closes it
\* either, reaches the form behind it.
Modal == open => UNCHANGED <<mode, name, pass, box>>

FormBehindMenu == [][Modal]_vars

\* The file gets only a background that is on the screen at that moment, or
\* none: an image that cannot be loaded is never what the next start finds.
SavesShown == saved' # saved => saved' = shown'

BackgroundWorks == [][SavesShown]_vars
=============================================================================
