------------------------------- MODULE Layout -------------------------------
(***************************************************************************)
(* Where the panel and its menu go on a screen: Panel::layout() (panel.cpp) *)
(* and Menu::open() (menu.cpp) with the measures of geometry.h, and the     *)
(* scale of X11Window::autoScale().                                         *)
(*                                                                          *)
(* Panel and menu are measured in logical units, the screen in pixels, and  *)
(* one unit is a number of quarter pixels, the scale q: a pixel count p is  *)
(* 4p/q units, a fraction that is never formed.  A geometry is a record     *)
(* with the screen's w and h and the primary output's rectangle prim, all   *)
(* in pixels, and the scale.                                                *)
(***************************************************************************)
EXTENDS Integers

kPanelW   == 420
kPanelH   == 320
kMargin   == 16
kButtonH  == 32
kButtonY  == kPanelH - kMargin - kButtonH
kMenuW    == 230
kMenuRowH == 28
kMenuPadY == 6
kMenuGap  == 8

menuHeight(rows) == 2 * kMenuPadY + rows * kMenuRowH

\* The scale for a height in pixels, in quarters and between 1 and 3.
autoScale(pixelH) == CASE pixelH <= 768  -> 4
                       [] pixelH >= 2304 -> 12
                       [] OTHER          -> (pixelH + 96) \div 192

\* n / q to the nearest whole unit, halves up.
snap(n, q) == (2 * n + q) \div (2 * q)

\* Fault: the near edge before the far one, so that what is longer than the
\* screen loses its beginning and not its end.
FaultyClamp(p, long, extent, q) ==
    LET near == IF p < 0 THEN 0 ELSE p
    IN  IF q * (near + long) > 4 * extent THEN snap(4 * extent, q) - long
        ELSE near

\* Along one axis: a thing of that length at p, moved into the screen.
Clamp(p, long, extent, q) ==
    LET far == IF q * (p + long) > 4 * extent THEN snap(4 * extent, q) - long
               ELSE p
    IN  IF far < 0 THEN 0 ELSE far

\* The output the panel is centred on, if it is large enough for it.
On(g) == IF 4 * g.prim.w >= g.scale * kPanelW /\ 4 * g.prim.h >= g.scale * kPanelH
           THEN g.prim
           ELSE [x |-> 0, y |-> 0, w |-> g.w, h |-> g.h]

\* Centred on lo .. lo + length of the output, along one axis.
Centre(lo, length, long, q) == snap(4 * lo + 2 * length, q) - long \div 2

PanelX(g) == Clamp(Centre(On(g).x, On(g).w, kPanelW, g.scale), kPanelW, g.w, g.scale)
PanelY(g) == Clamp(Centre(On(g).y, On(g).h, kPanelH, g.scale), kPanelH, g.h, g.scale)

\* Above the Options button, below it if there is no room, and then clamped.
MenuX(g)       == Clamp(PanelX(g) + kMargin, kMenuW, g.w, g.scale)
MenuY(g, rows) ==
    LET above == PanelY(g) + kButtonY - kMenuGap - menuHeight(rows)
        below == PanelY(g) + kButtonY + kButtonH + kMenuGap
    IN  Clamp(IF above < 0 THEN below ELSE above, menuHeight(rows), g.h, g.scale)

MenuFor(g, rows) == [rows |-> rows, x |-> MenuX(g), y |-> MenuY(g, rows)]
-----------------------------------------------------------------------------
(* What a good place is.  A whole unit can be half a unit off the pixels.  *)

\* On the screen, and all of it if the screen is large enough; if not, its
\* beginning is what can be seen.
Visible(p, long, extent, q) ==
    /\ p >= 0
    /\ IF q * long <= 4 * extent THEN 2 * q * (p + long) <= 8 * extent + q
                                 ELSE p = 0

\* Between lo and lo + length of an output.
Within(p, long, lo, length, q) == /\ 2 * q * p >= 8 * lo - q
                                  /\ 2 * q * (p + long) <= 8 * (lo + length) + q

PanelVisible(g) == /\ Visible(PanelX(g), kPanelW, g.w, g.scale)
                   /\ Visible(PanelY(g), kPanelH, g.h, g.scale)

MenuVisible(m, g) == /\ Visible(m.x, kMenuW, g.w, g.scale)
                     /\ Visible(m.y, menuHeight(m.rows), g.h, g.scale)

\* An output that is on the screen and has room for the panel.
Usable(g) == /\ g.prim.x >= 0 /\ g.prim.x + g.prim.w <= g.w
             /\ g.prim.y >= 0 /\ g.prim.y + g.prim.h <= g.h
             /\ 4 * g.prim.w >= g.scale * kPanelW
             /\ 4 * g.prim.h >= g.scale * kPanelH

PanelOnPrimary(g) ==
    Usable(g) => /\ Within(PanelX(g), kPanelW, g.prim.x, g.prim.w, g.scale)
                 /\ Within(PanelY(g), kPanelH, g.prim.y, g.prim.h, g.scale)
=============================================================================
