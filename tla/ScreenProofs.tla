---------------------------- MODULE ScreenProofs ----------------------------
(***************************************************************************)
(* Proofs about the screen: that whatever is placed on it can be seen, for *)
(* every size of screen, every primary output and every length of menu,    *)
(* and that a window that waits shows the screen there is.                 *)
(***************************************************************************)
EXTENDS Screen, TLAPS

Geometries == [w : Nat, h : Nat, prim : [x : Int, y : Int, w : Nat, h : Nat],
               scale : 4 .. 12]
-----------------------------------------------------------------------------
(* Placement.  The scale is one of nine numbers, and for each of them all  *)
(* of this is linear.                                                      *)

LEMMA NineScales ==
    ASSUME NEW q \in 4 .. 12
    PROVE  \/ q = 4 \/ q = 5 \/ q = 6 \/ q = 7 \/ q = 8 \/ q = 9 \/ q = 10
           \/ q = 11 \/ q = 12
OBVIOUS

\* autoScale() gives nothing else.
LEMMA AutoScaleRange == \A h \in Nat : autoScale(h) \in 4 .. 12
BY DEF autoScale

\* snap() is off by at most half a unit.
LEMMA SnapBounds ==
    ASSUME NEW q \in 4 .. 12, NEW n \in Int
    PROVE  /\ snap(n, q) \in Int
           /\ 2 * q * snap(n, q) <= 2 * n + q
           /\ 2 * n + q < 2 * q * snap(n, q) + 2 * q
BY NineScales DEF snap

\* What was clamped can be seen.
LEMMA ClampVisible ==
    ASSUME NEW q \in 4 .. 12, NEW p \in Int, NEW long \in Nat, NEW extent \in Nat
    PROVE  /\ Clamp(p, long, extent, q) \in Int
           /\ Visible(Clamp(p, long, extent, q), long, extent, q)
<1>. DEFINE edge == snap(4 * extent, q)
           far  == IF q * (p + long) > 4 * extent THEN edge - long ELSE p
<1>1. /\ edge \in Int
      /\ 2 * q * edge <= 8 * extent + q
      /\ 8 * extent + q < 2 * q * edge + 2 * q
  <2>1. 4 * extent \in Int /\ 2 * (4 * extent) = 8 * extent
    OBVIOUS
  <2>2. /\ edge \in Int
        /\ 2 * q * edge <= 2 * (4 * extent) + q
        /\ 2 * (4 * extent) + q < 2 * q * edge + 2 * q
    BY <2>1, SnapBounds
  <2>. QED BY <2>1, <2>2
<1>2. Clamp(p, long, extent, q) = IF far < 0 THEN 0 ELSE far
  BY DEF Clamp
<1>. HIDE DEF edge
<1>3. ASSUME NEW c \in Int, c = (IF far < 0 THEN 0 ELSE far)
      PROVE  Visible(c, long, extent, q)
  <2>1. CASE q * long <= 4 * extent
    <3>1. 2 * q * (c + long) <= 8 * extent + q
      BY <1>1, <1>3, <2>1, NineScales
    <3>. QED BY <3>1, <2>1, <1>3 DEF Visible
  <2>2. CASE q * long > 4 * extent
    <3>1. c = 0
      BY <1>1, <1>3, <2>2, NineScales
    <3>. QED BY <3>1, <2>2 DEF Visible
  <2>. QED BY <2>1, <2>2
<1>4. far \in Int
  BY <1>1
<1>. QED BY <1>2, <1>3, <1>4

\* Centred on an output with room for it, and clamped into a screen that has
\* the output on it, a thing is within the output.
LEMMA CentreWithin ==
    ASSUME NEW q \in 4 .. 12, NEW half \in Nat, NEW long \in Nat, long = 2 * half,
           NEW extent \in Nat, NEW lo \in Nat, NEW length \in Nat,
           lo + length <= extent, q * long <= 4 * length
    PROVE  Within(Clamp(Centre(lo, length, long, q), long, extent, q),
                  long, lo, length, q)
<1>. DEFINE mid  == snap(4 * lo + 2 * length, q)
            edge == snap(4 * extent, q)
            c    == mid - half
            far  == IF q * (c + long) > 4 * extent THEN edge - long ELSE c
<1>1. /\ mid \in Int
      /\ 2 * q * mid <= 8 * lo + 4 * length + q
      /\ 8 * lo + 4 * length + q < 2 * q * mid + 2 * q
  <2>1. /\ 4 * lo + 2 * length \in Int
        /\ 2 * (4 * lo + 2 * length) = 8 * lo + 4 * length
    OBVIOUS
  <2>2. /\ mid \in Int
        /\ 2 * q * mid <= 2 * (4 * lo + 2 * length) + q
        /\ 2 * (4 * lo + 2 * length) + q < 2 * q * mid + 2 * q
    BY <2>1, SnapBounds
  <2>. QED BY <2>1, <2>2
<1>2. /\ edge \in Int
      /\ 2 * q * edge <= 8 * extent + q
      /\ 8 * extent + q < 2 * q * edge + 2 * q
  <2>1. 4 * extent \in Int /\ 2 * (4 * extent) = 8 * extent
    OBVIOUS
  <2>2. /\ edge \in Int
        /\ 2 * q * edge <= 2 * (4 * extent) + q
        /\ 2 * (4 * extent) + q < 2 * q * edge + 2 * q
    BY <2>1, SnapBounds
  <2>. QED BY <2>1, <2>2
<1>3. Centre(lo, length, long, q) = c
  <2>1. long \div 2 = half
    OBVIOUS
  <2>. QED BY <2>1 DEF Centre
<1>4. Clamp(c, long, extent, q) = IF far < 0 THEN 0 ELSE far
  BY DEF Clamp
<1>. HIDE DEF mid, edge
<1>5. /\ 2 * q * c >= 8 * lo - q
      /\ 2 * q * (c + long) <= 8 * (lo + length) + q
      /\ c \in Int
  BY <1>1, NineScales
<1>. HIDE DEF c
<1>6. /\ far \in Int
      /\ 2 * q * far >= 8 * lo - q
      /\ 2 * q * (far + long) <= 8 * (lo + length) + q
  BY <1>2, <1>5, NineScales
<1>7. far >= 0
  BY <1>6, NineScales
<1>. QED BY <1>3, <1>4, <1>6, <1>7 DEF Within
-----------------------------------------------------------------------------
(* The panel and the menu, on every geometry.                              *)

LEMMA Measures == /\ kPanelW = 420 /\ kPanelH = 320 /\ kMargin = 16
                  /\ kButtonY = 272 /\ kButtonH = 32 /\ kMenuGap = 8
                  /\ kMenuW = 230
                  /\ \A n \in Nat : menuHeight(n) = 12 + n * 28
BY DEF kPanelW, kPanelH, kMargin, kButtonY, kButtonH, kMenuGap, kMenuW,
       kMenuPadY, kMenuRowH, menuHeight

LEMMA OutputTyped ==
    ASSUME NEW g \in Geometries
    PROVE  On(g) \in [x : Int, y : Int, w : Nat, h : Nat]
BY DEF On, Geometries

LEMMA CentreTyped ==
    ASSUME NEW q \in 4 .. 12, NEW lo \in Int, NEW length \in Nat, NEW long \in Nat
    PROVE  Centre(lo, length, long, q) \in Int
<1>1. 4 * lo + 2 * length \in Int
  OBVIOUS
<1>2. snap(4 * lo + 2 * length, q) \in Int
  BY <1>1, SnapBounds
<1>. QED BY <1>2 DEF Centre

\* A panel laid out for any screen and any output is on the screen, as far
\* as it has room (the clamp of Panel::layout()).
THEOREM PanelAlwaysVisible ==
    ASSUME NEW g \in Geometries
    PROVE  PanelX(g) \in Int /\ PanelY(g) \in Int /\ PanelVisible(g)
<1>1. /\ g.scale \in 4 .. 12 /\ g.w \in Nat /\ g.h \in Nat
      /\ kPanelW \in Nat /\ kPanelH \in Nat
  BY Measures DEF Geometries
<1>2. /\ Centre(On(g).x, On(g).w, kPanelW, g.scale) \in Int
      /\ Centre(On(g).y, On(g).h, kPanelH, g.scale) \in Int
  <2>1. /\ On(g).x \in Int /\ On(g).y \in Int
        /\ On(g).w \in Nat /\ On(g).h \in Nat
    BY OutputTyped
  <2>. QED BY <1>1, <2>1, CentreTyped
<1>3. PanelX(g) \in Int /\ Visible(PanelX(g), kPanelW, g.w, g.scale)
  BY <1>1, <1>2, ClampVisible DEF PanelX
<1>4. PanelY(g) \in Int /\ Visible(PanelY(g), kPanelH, g.h, g.scale)
  BY <1>1, <1>2, ClampVisible DEF PanelY
<1>. QED BY <1>3, <1>4 DEF PanelVisible

\* It is inside the primary output, if that is on the screen and has room.
THEOREM PanelAlwaysOnPrimary ==
    ASSUME NEW g \in Geometries PROVE PanelOnPrimary(g)
<1>. SUFFICES ASSUME Usable(g)
              PROVE  /\ Within(PanelX(g), kPanelW, g.prim.x, g.prim.w, g.scale)
                     /\ Within(PanelY(g), kPanelH, g.prim.y, g.prim.h, g.scale)
  BY DEF PanelOnPrimary
<1>1. /\ g.scale \in 4 .. 12 /\ g.w \in Nat /\ g.h \in Nat
      /\ g.prim.x \in Nat /\ g.prim.y \in Nat
      /\ g.prim.w \in Nat /\ g.prim.h \in Nat
      /\ g.prim.x + g.prim.w <= g.w /\ g.prim.y + g.prim.h <= g.h
      /\ g.scale * kPanelW <= 4 * g.prim.w /\ g.scale * kPanelH <= 4 * g.prim.h
  BY Measures DEF Geometries, Usable
<1>2. On(g) = g.prim
  BY DEF On, Usable
<1>3. Within(PanelX(g), kPanelW, g.prim.x, g.prim.w, g.scale)
  <2>1. kPanelW \in Nat /\ 210 \in Nat /\ kPanelW = 2 * 210
    BY Measures
  <2>. DEFINE mid == Centre(g.prim.x, g.prim.w, kPanelW, g.scale)
  <2>2. PanelX(g) = Clamp(mid, kPanelW, g.w, g.scale)
    BY <1>2 DEF PanelX
  <2>3. Within(Clamp(mid, kPanelW, g.w, g.scale),
               kPanelW, g.prim.x, g.prim.w, g.scale)
    BY <1>1, <2>1, CentreWithin
  <2>. QED BY <2>2, <2>3
<1>4. Within(PanelY(g), kPanelH, g.prim.y, g.prim.h, g.scale)
  <2>1. kPanelH \in Nat /\ 160 \in Nat /\ kPanelH = 2 * 160
    BY Measures
  <2>. DEFINE mid == Centre(g.prim.y, g.prim.h, kPanelH, g.scale)
  <2>2. PanelY(g) = Clamp(mid, kPanelH, g.h, g.scale)
    BY <1>2 DEF PanelY
  <2>3. Within(Clamp(mid, kPanelH, g.h, g.scale),
               kPanelH, g.prim.y, g.prim.h, g.scale)
    BY <1>1, <2>1, CentreWithin
  <2>. QED BY <2>2, <2>3
<1>. QED BY <1>3, <1>4

\* A menu of any length opened on any geometry is on the screen, or begins
\* there if it is longer (the clamp of Menu::open()).
THEOREM MenuAlwaysVisible ==
    ASSUME NEW g \in Geometries, NEW n \in Nat
    PROVE  MenuVisible(MenuFor(g, n), g)
<1>1. /\ g.scale \in 4 .. 12 /\ g.w \in Nat /\ g.h \in Nat
      /\ kMenuW \in Nat /\ menuHeight(n) \in Nat
  BY Measures DEF Geometries
<1>2. PanelX(g) \in Int /\ PanelY(g) \in Int
  BY PanelAlwaysVisible
<1>3. Visible(MenuX(g), kMenuW, g.w, g.scale)
  <2>1. PanelX(g) + kMargin \in Int
    BY <1>2, Measures
  <2>. QED BY <1>1, <2>1, ClampVisible DEF MenuX
<1>4. Visible(MenuY(g, n), menuHeight(n), g.h, g.scale)
  <2>. DEFINE above == PanelY(g) + kButtonY - kMenuGap - menuHeight(n)
              below == PanelY(g) + kButtonY + kButtonH + kMenuGap
              at    == IF above < 0 THEN below ELSE above
  <2>1. at \in Int
    BY <1>1, <1>2, Measures
  <2>2. MenuY(g, n) = Clamp(at, menuHeight(n), g.h, g.scale)
    BY DEF MenuY
  <2>. HIDE DEF at
  <2>. QED BY <1>1, <2>1, <2>2, ClampVisible
<1>. QED BY <1>3, <1>4 DEF MenuVisible, MenuFor
-----------------------------------------------------------------------------
(* The window in time.  Two of the properties say what holds while the     *)
(* loop sleeps; what leads there has to be said of every step.             *)

\* The layout is that of the geometry, but for the two steps that change it.
LaidOut ==
    /\ pc \in Opening => laid = None
    /\ pc \notin Opening \cup {"resolve"} => laid = Geometry
    /\ laid # None => laid \in Geometries
    /\ menu # None => menu.rows \in Nat /\ menu = MenuFor(laid, menu.rows)

\* The picture is whole, or it will be painted.
Drawn ==
    /\ pc = "select" => ~dirty
    /\ pc \notin Opening \cup {"resolve"} /\ mapped /\ ~dirty /\ "Expose" \notin queue
         => frame = Picture

\* The size is the server's, or the program will look, or cannot know.
SizeKnown ==
    /\ pc = "subscribe" => mapped
    /\ (mapped /\ pc # "connect") \/ pc \in {"resolve", "map"} =>
         missed \/ pixel = Size(scr) \/ "ScreenChange" \in queue \/ pc = "read"

\* The focus is there, or its loss is in the queue.
FocusKnown ==
    mapped /\ pc \notin Opening /\ (pc = "resolve" => laid # None) =>
        focus \/ queue \cap RealLoss # {}

IInv == TypeOK /\ LaidOut /\ Drawn /\ SizeKnown /\ FocusKnown

LEMMA InitIInv == Init => IInv
<1>. SUFFICES ASSUME Init PROVE IInv
  OBVIOUS
<1>1. autoScale(0) = 4
  BY DEF autoScale
<1>2. TypeOK
  <2>1. /\ primary = [x |-> 0, y |-> 0, w |-> 0, h |-> 0]
        /\ pixel = [w |-> 0, h |-> 0] /\ win = pixel /\ surface = pixel
    BY DEF Init, NoSize, Whole
  <2>2. primary.h = 0 /\ scale = 4
    BY <2>1 DEF Init
  <2>3. /\ primary \in [x : Int, y : Int, w : Nat, h : Nat]
        /\ pixel \in [w : Nat, h : Nat]
    BY <2>1
  <2>4. /\ pc \in Places /\ after \in {"drain", "map"} /\ queue \subseteq Kinds
        /\ scr \in Screens /\ dirty \in BOOLEAN /\ randr \in BOOLEAN
        /\ focus \in BOOLEAN /\ mapped \in BOOLEAN /\ missed \in BOOLEAN
        /\ session \in BOOLEAN
    BY DEF Init, Places
  <2>. QED BY <1>1, <2>1, <2>2, <2>3, <2>4 DEF TypeOK
<1>3. LaidOut
  BY DEF Init, LaidOut, Opening
<1>4. Drawn /\ SizeKnown /\ FocusKnown
  BY DEF Init, Drawn, SizeKnown, FocusKnown, Opening
<1>. QED BY <1>2, <1>3, <1>4 DEF IInv

\* Types.
LEMMA TypePreserved ==
    ASSUME TypeOK, [Next]_vars PROVE TypeOK'
<1>1. CASE ChangeScreen
  BY <1>1 DEF TypeOK, Kinds, Places, RealLoss, geometry, form, ChangeScreen,
              Subscribed, Untold, Opening
<1>2. CASE LoseFrame
  BY <1>2 DEF TypeOK, Kinds, Places, RealLoss, geometry, form, LoseFrame
<1>3. CASE StealFocus
  BY <1>3 DEF TypeOK, Kinds, Places, RealLoss, geometry, form, StealFocus
<1>4. CASE Connect
  <2>1. Size(scr) \in [w : Nat, h : Nat]
    BY ScreensAssumption DEF TypeOK, Size
  <2>. QED BY <1>4, <2>1 DEF TypeOK, Connect, Kinds, Places, form
<1>5. CASE Subscribe
  BY <1>5 DEF TypeOK, Kinds, Places, RealLoss, server, geometry, form,
              Subscribe
<1>6. CASE Resolve
  <2>1. /\ scr' \in Screens /\ queue' \subseteq Kinds /\ focus' \in BOOLEAN
        /\ mapped' \in BOOLEAN /\ missed' \in BOOLEAN
        /\ pc' \in Places /\ after' \in {"drain", "map"}
        /\ randr' \in BOOLEAN /\ dirty' \in BOOLEAN /\ session' \in BOOLEAN
    BY <1>6 DEF TypeOK, Resolve, TakeFocus, Places
  <2>2. pixel' \in [w : Nat, h : Nat] /\ win' = pixel' /\ surface' = pixel'
    BY <1>6 DEF TypeOK, Resolve
  <2>3. PICK r \in IF scr.prim = {} THEN {Whole(pixel)} ELSE scr.prim :
            primary' = r /\ scale' = autoScale(r.h)
    BY <1>6 DEF Resolve
  <2>4. r \in [x : Int, y : Int, w : Nat, h : Nat]
    BY <2>3, ScreensAssumption DEF TypeOK, Rectangles, Whole
  <2>. QED BY <2>1, <2>2, <2>3, <2>4 DEF TypeOK
<1>7. ASSUME NEW k \in Kinds, TakeEvent(k) PROVE TypeOK'
  BY <1>7 DEF TypeOK, Kinds, Places, RealLoss, geometry, form, TakeEvent,
              TakeFocus, Refreshing, RealLosses
<1>8. CASE ReadSize
  <2>1. Size(scr) \in [w : Nat, h : Nat]
    BY ScreensAssumption DEF TypeOK, Size
  <2>2. CASE Size(scr) = pixel
    BY <1>8, <2>2 DEF TypeOK, ReadSize, Places, server, geometry, form
  <2>3. CASE Size(scr) # pixel
    BY <1>8, <2>1, <2>3 DEF TypeOK, ReadSize, Kinds, Places, form
  <2>. QED BY <2>2, <2>3
<1>9. CASE Drained
  BY <1>9 DEF TypeOK, Kinds, Places, RealLoss, server, geometry, form, Drained
<1>10. CASE Paint
  BY <1>10 DEF TypeOK, Kinds, Places, RealLoss, geometry, form, Paint, Painted
<1>11. CASE Wake
  BY <1>11 DEF TypeOK, Kinds, Places, RealLoss, server, geometry, form, Wake
<1>12. CASE Tick
  BY <1>12 DEF TypeOK, Kinds, Places, RealLoss, server, geometry, form, Tick
<1>13. CASE Touch
  BY <1>13 DEF TypeOK, Kinds, Places, RealLoss, server, geometry, Touch
<1>14. CASE Submit
  BY <1>14 DEF TypeOK, Kinds, Places, RealLoss, geometry, form, Submit,
               Painted
<1>15. CASE Refused
  BY <1>15 DEF TypeOK, Kinds, Places, RealLoss, server, geometry, form,
               Refused
<1>16. CASE Accepted
  BY <1>16 DEF TypeOK, Kinds, Places, RealLoss, geometry, form, Accepted,
               ShowFrom
<1>17. CASE Reap
  BY <1>17 DEF TypeOK, Kinds, Places, RealLoss, server, geometry, form, Reap,
               ShowFrom
<1>18. CASE Show
  BY <1>18 DEF TypeOK, Kinds, Places, RealLoss, geometry, Show
<1>19. CASE UNCHANGED vars
  BY <1>19 DEF TypeOK, Kinds, Places, RealLoss, server, geometry, form, vars,
               server, geometry, form
<1>. QED
  BY <1>1, <1>2, <1>3, <1>4, <1>5, <1>6, <1>7, <1>8, <1>9, <1>10, <1>11,
     <1>12, <1>13, <1>14, <1>15, <1>16, <1>17, <1>18, <1>19
     DEF Next, World, Events, Program, Person, Pam

\* Whoever changes the geometry goes through the layout.
LEMMA LaidOutPreserved ==
    ASSUME TypeOK, LaidOut, [Next]_vars PROVE LaidOut'
<1>1. CASE ChangeScreen
  BY <1>1 DEF TypeOK, LaidOut, Opening, Geometry, geometry, form,
              ChangeScreen, Subscribed, Untold
<1>2. CASE LoseFrame
  BY <1>2 DEF TypeOK, LaidOut, Opening, Geometry, geometry, form, LoseFrame
<1>3. CASE StealFocus
  BY <1>3 DEF TypeOK, LaidOut, Opening, Geometry, geometry, form, StealFocus
<1>4. CASE Connect
  BY <1>4 DEF TypeOK, LaidOut, Opening, Geometry, form, Connect
<1>5. CASE Subscribe
  BY <1>5 DEF TypeOK, LaidOut, Opening, Geometry, server, geometry, form,
              Subscribe
<1>6. CASE Resolve
  <2>1. PICK r \in IF scr.prim = {} THEN {Whole(pixel)} ELSE scr.prim :
            /\ primary' = r /\ scale' = autoScale(r.h)
            /\ LayOut([w |-> pixel.w, h |-> pixel.h, prim |-> r, scale |-> autoScale(r.h)])
    BY <1>6 DEF Resolve
  <2>. DEFINE g == [w |-> pixel.w, h |-> pixel.h, prim |-> r, scale |-> autoScale(r.h)]
  <2>2. r \in [x : Int, y : Int, w : Nat, h : Nat]
    BY <2>1, ScreensAssumption DEF TypeOK, Rectangles, Whole
  <2>3. autoScale(r.h) \in 4 .. 12
    BY <2>2, AutoScaleRange
  <2>4. g \in Geometries
    BY <2>2, <2>3 DEF TypeOK, Geometries
  <2>5. g = Geometry'
    BY <1>6, <2>1 DEF Resolve, Geometry
  <2>6. laid' = g /\ menu' = (IF menu = None THEN None ELSE MenuFor(g, menu.rows))
    BY <2>1 DEF LayOut
  <2>7. pc' \notin Opening
    BY <1>6 DEF Resolve, TypeOK, Opening
  <2>. HIDE DEF g
  <2>8. menu # None => MenuFor(g, menu.rows).rows = menu.rows
    BY DEF MenuFor
  <2>. QED BY <2>4, <2>5, <2>6, <2>7, <2>8 DEF LaidOut
<1>7. ASSUME NEW k \in Kinds, TakeEvent(k) PROVE LaidOut'
  BY <1>7 DEF TypeOK, LaidOut, Opening, Geometry, geometry, form, TakeEvent,
              TakeFocus, Refreshing, RealLosses
<1>8. CASE ReadSize
  BY <1>8 DEF TypeOK, LaidOut, Opening, Geometry, server, geometry, form,
              ReadSize
<1>9. CASE Drained
  BY <1>9 DEF TypeOK, LaidOut, Opening, Geometry, server, geometry, form,
              Drained
<1>10. CASE Paint
  BY <1>10 DEF TypeOK, LaidOut, Opening, Geometry, geometry, form, Paint,
               Painted
<1>11. CASE Wake
  BY <1>11 DEF TypeOK, LaidOut, Opening, Geometry, server, geometry, form,
               Wake
<1>12. CASE Tick
  BY <1>12 DEF TypeOK, LaidOut, Opening, Geometry, server, geometry, form,
               Tick
<1>13. CASE Touch
  <2>1. /\ pc' = pc /\ pc = "drain" /\ laid' = laid /\ Geometry' = Geometry
    BY <1>13 DEF Touch, geometry, Geometry
  <2>2. ASSUME NEW n \in RowCounts, menu' = MenuFor(laid, n)
        PROVE  menu'.rows \in Nat /\ menu' = MenuFor(laid, menu'.rows)
    <3>1. MenuFor(laid, n).rows = n
      BY DEF MenuFor
    <3>. QED BY <2>2, <3>1, RowsAssumption
  <2>3. menu' # None => menu'.rows \in Nat /\ menu' = MenuFor(laid, menu'.rows)
    BY <1>13, <2>2 DEF Touch, LaidOut
  <2>. QED BY <2>1, <2>3 DEF LaidOut, Opening
<1>14. CASE Submit
  BY <1>14 DEF TypeOK, LaidOut, Opening, Geometry, geometry, form, Submit,
               Painted
<1>15. CASE Refused
  BY <1>15 DEF TypeOK, LaidOut, Opening, Geometry, server, geometry, form,
               Refused
<1>16. CASE Accepted
  BY <1>16 DEF TypeOK, LaidOut, Opening, Geometry, geometry, form, Accepted,
               ShowFrom
<1>17. CASE Reap
  BY <1>17 DEF TypeOK, LaidOut, Opening, Geometry, server, geometry, form,
               Reap, ShowFrom
<1>18. CASE Show
  BY <1>18 DEF TypeOK, LaidOut, Opening, Geometry, geometry, Show
<1>19. CASE UNCHANGED vars
  BY <1>19 DEF TypeOK, LaidOut, Opening, Geometry, server, geometry, form,
               vars, server, geometry, form
<1>. QED
  BY <1>1, <1>2, <1>3, <1>4, <1>5, <1>6, <1>7, <1>8, <1>9, <1>10, <1>11,
     <1>12, <1>13, <1>14, <1>15, <1>16, <1>17, <1>18, <1>19
     DEF Next, World, Events, Program, Person, Pam

\* Whatever changes the picture or the window asks for a paint.
LEMMA DrawnPreserved ==
    ASSUME TypeOK, Drawn, [Next]_vars PROVE Drawn'
<1>1. CASE ChangeScreen
  BY <1>1 DEF TypeOK, Drawn, Opening, Picture, geometry, form, ChangeScreen,
              Subscribed, Untold
<1>2. CASE LoseFrame
  BY <1>2 DEF TypeOK, Drawn, Opening, Picture, geometry, form, LoseFrame
<1>3. CASE StealFocus
  BY <1>3 DEF TypeOK, Drawn, Opening, Picture, geometry, form, StealFocus
<1>4. CASE Connect
  BY <1>4 DEF TypeOK, Drawn, Opening, Picture, form, Connect
<1>5. CASE Subscribe
  BY <1>5 DEF TypeOK, Drawn, Opening, Picture, server, geometry, form,
              Subscribe
<1>6. CASE Resolve
  BY <1>6 DEF TypeOK, Drawn, Opening, Picture, Resolve, TakeFocus, LayOut
<1>7. ASSUME NEW k \in Kinds, TakeEvent(k) PROVE Drawn'
  BY <1>7 DEF TypeOK, Drawn, Opening, Picture, geometry, form, TakeEvent,
              TakeFocus, Refreshing, RealLosses
<1>8. CASE ReadSize
  BY <1>8 DEF TypeOK, Drawn, Opening, Picture, server, geometry, form,
              ReadSize
<1>9. CASE Drained
  BY <1>9 DEF TypeOK, Drawn, Opening, Picture, server, geometry, form, Drained
<1>10. CASE Paint
  BY <1>10 DEF TypeOK, Drawn, Opening, Picture, geometry, form, Paint, Painted
<1>11. CASE Wake
  BY <1>11 DEF TypeOK, Drawn, Opening, Picture, server, geometry, form, Wake
<1>12. CASE Tick
  BY <1>12 DEF TypeOK, Drawn, Opening, Picture, server, geometry, form, Tick
<1>13. CASE Touch
  BY <1>13 DEF TypeOK, Drawn, Opening, Picture, server, geometry, Touch
<1>14. CASE Submit
  BY <1>14 DEF TypeOK, Drawn, Opening, Picture, geometry, form, Submit,
               Painted
<1>15. CASE Refused
  BY <1>15 DEF TypeOK, Drawn, Opening, Picture, server, geometry, form,
               Refused
<1>16. CASE Accepted
  BY <1>16 DEF TypeOK, Drawn, Opening, Picture, geometry, form, Accepted,
               ShowFrom
<1>17. CASE Reap
  BY <1>17 DEF TypeOK, Drawn, Opening, Picture, server, geometry, form, Reap,
               ShowFrom
<1>18. CASE Show
  BY <1>18 DEF TypeOK, Drawn, Opening, Picture, geometry, Show
<1>19. CASE UNCHANGED vars
  BY <1>19 DEF TypeOK, Drawn, Opening, Picture, server, geometry, form, vars,
               server, geometry, form
<1>. QED
  BY <1>1, <1>2, <1>3, <1>4, <1>5, <1>6, <1>7, <1>8, <1>9, <1>10, <1>11,
     <1>12, <1>13, <1>14, <1>15, <1>16, <1>17, <1>18, <1>19
     DEF Next, World, Events, Program, Person, Pam

\* A change is told, read, or out of reach.
LEMMA SizeKnownPreserved ==
    ASSUME TypeOK, SizeKnown, [Next]_vars PROVE SizeKnown'
<1>1. CASE ChangeScreen
  <2>1. PICK s \in Screens \ {scr} :
            /\ scr' = s
            /\ queue' = IF Subscribed THEN queue \cup {"ScreenChange"} ELSE queue
            /\ missed' = (~Subscribed /\ (missed \/ Untold(s)))
    BY <1>1 DEF ChangeScreen
  <2>2. UNCHANGED <<mapped, pc, pixel>>
    BY <1>1 DEF ChangeScreen, geometry
  <2>3. CASE Subscribed
    <3>1. "ScreenChange" \in queue'
      BY <2>1, <2>3
    <3>. QED BY <2>2, <3>1 DEF SizeKnown
  <2>4. CASE ~Subscribed
    <3>1. (missed \/ Untold(s)) => missed'
      BY <2>1, <2>4
    <3>2. queue' = queue
      BY <2>1, <2>4
    <3>3. ~missed' /\ (mapped \/ pc \in {"resolve", "map"}) => Size(scr') = Size(scr)
      BY <2>1, <2>4, <3>1 DEF Untold
    <3>4. missed => missed'
      BY <3>1
    <3>. QED BY <2>2, <3>2, <3>3, <3>4 DEF SizeKnown
  <2>. QED BY <2>3, <2>4
<1>2. CASE LoseFrame
  BY <1>2 DEF TypeOK, SizeKnown, Size, geometry, form, LoseFrame
<1>3. CASE StealFocus
  BY <1>3 DEF TypeOK, SizeKnown, Size, geometry, form, StealFocus
<1>4. CASE Connect
  BY <1>4 DEF TypeOK, SizeKnown, Size, form, Connect
<1>5. CASE Subscribe
  BY <1>5 DEF TypeOK, SizeKnown, Size, server, geometry, form, Subscribe
<1>6. CASE Resolve
  BY <1>6 DEF TypeOK, SizeKnown, Size, Resolve, TakeFocus, LayOut
<1>7. ASSUME NEW k \in Kinds, TakeEvent(k) PROVE SizeKnown'
  BY <1>7 DEF TypeOK, SizeKnown, Size, geometry, form, TakeEvent, TakeFocus,
              Refreshing, RealLosses
<1>8. CASE ReadSize
  BY <1>8 DEF TypeOK, SizeKnown, Size, server, geometry, form, ReadSize
<1>9. CASE Drained
  BY <1>9 DEF TypeOK, SizeKnown, Size, server, geometry, form, Drained
<1>10. CASE Paint
  BY <1>10 DEF TypeOK, SizeKnown, Size, geometry, form, Paint, Painted
<1>11. CASE Wake
  BY <1>11 DEF TypeOK, SizeKnown, Size, server, geometry, form, Wake
<1>12. CASE Tick
  BY <1>12 DEF TypeOK, SizeKnown, Size, server, geometry, form, Tick
<1>13. CASE Touch
  BY <1>13 DEF TypeOK, SizeKnown, Size, server, geometry, Touch
<1>14. CASE Submit
  BY <1>14 DEF TypeOK, SizeKnown, Size, geometry, form, Submit, Painted
<1>15. CASE Refused
  BY <1>15 DEF TypeOK, SizeKnown, Size, server, geometry, form, Refused
<1>16. CASE Accepted
  BY <1>16 DEF TypeOK, SizeKnown, Size, geometry, form, Accepted, ShowFrom
<1>17. CASE Reap
  BY <1>17 DEF TypeOK, SizeKnown, Size, server, geometry, form, Reap, ShowFrom
<1>18. CASE Show
  BY <1>18 DEF TypeOK, SizeKnown, Size, geometry, Show
<1>19. CASE UNCHANGED vars
  BY <1>19 DEF TypeOK, SizeKnown, Size, server, geometry, form, vars, server,
               geometry, form
<1>. QED
  BY <1>1, <1>2, <1>3, <1>4, <1>5, <1>6, <1>7, <1>8, <1>9, <1>10, <1>11,
     <1>12, <1>13, <1>14, <1>15, <1>16, <1>17, <1>18, <1>19
     DEF Next, World, Events, Program, Person, Pam

\* A loss is in the queue until the focus is taken back.
LEMMA FocusKnownPreserved ==
    ASSUME TypeOK, LaidOut, FocusKnown, [Next]_vars PROVE FocusKnown'
<1>1. CASE ChangeScreen
  BY <1>1 DEF TypeOK, LaidOut, FocusKnown, Opening, RealLoss, geometry, form,
              ChangeScreen, Subscribed, Untold
<1>2. CASE LoseFrame
  BY <1>2 DEF TypeOK, LaidOut, FocusKnown, Opening, RealLoss, geometry, form,
              LoseFrame
<1>3. CASE StealFocus
  BY <1>3 DEF TypeOK, LaidOut, FocusKnown, Opening, RealLoss, geometry, form,
              StealFocus
<1>4. CASE Connect
  BY <1>4 DEF TypeOK, LaidOut, FocusKnown, Opening, RealLoss, form, Connect
<1>5. CASE Subscribe
  BY <1>5 DEF TypeOK, LaidOut, FocusKnown, Opening, RealLoss, server,
              geometry, form, Subscribe
<1>6. CASE Resolve
  BY <1>6 DEF TypeOK, LaidOut, FocusKnown, Opening, RealLoss, Resolve,
              TakeFocus, LayOut
<1>7. ASSUME NEW k \in Kinds, TakeEvent(k) PROVE FocusKnown'
  BY <1>7 DEF TypeOK, LaidOut, FocusKnown, Opening, RealLoss, geometry, form,
              TakeEvent, TakeFocus, Refreshing, RealLosses
<1>8. CASE ReadSize
  BY <1>8 DEF TypeOK, LaidOut, FocusKnown, Opening, RealLoss, server,
              geometry, form, ReadSize
<1>9. CASE Drained
  BY <1>9 DEF TypeOK, LaidOut, FocusKnown, Opening, RealLoss, server,
              geometry, form, Drained
<1>10. CASE Paint
  BY <1>10 DEF TypeOK, LaidOut, FocusKnown, Opening, RealLoss, geometry, form,
               Paint, Painted
<1>11. CASE Wake
  BY <1>11 DEF TypeOK, LaidOut, FocusKnown, Opening, RealLoss, server,
               geometry, form, Wake
<1>12. CASE Tick
  BY <1>12 DEF TypeOK, LaidOut, FocusKnown, Opening, RealLoss, server,
               geometry, form, Tick
<1>13. CASE Touch
  BY <1>13 DEF TypeOK, LaidOut, FocusKnown, Opening, RealLoss, server,
               geometry, Touch
<1>14. CASE Submit
  BY <1>14 DEF TypeOK, LaidOut, FocusKnown, Opening, RealLoss, geometry, form,
               Submit, Painted
<1>15. CASE Refused
  BY <1>15 DEF TypeOK, LaidOut, FocusKnown, Opening, RealLoss, server,
               geometry, form, Refused
<1>16. CASE Accepted
  BY <1>16 DEF TypeOK, LaidOut, FocusKnown, Opening, RealLoss, geometry, form,
               Accepted, ShowFrom
<1>17. CASE Reap
  BY <1>17 DEF TypeOK, LaidOut, FocusKnown, Opening, RealLoss, server,
               geometry, form, Reap, ShowFrom
<1>18. CASE Show
  BY <1>18 DEF TypeOK, LaidOut, FocusKnown, Opening, RealLoss, geometry, Show
<1>19. CASE UNCHANGED vars
  BY <1>19 DEF TypeOK, LaidOut, FocusKnown, Opening, RealLoss, server,
               geometry, form, vars, server, geometry, form
<1>. QED
  BY <1>1, <1>2, <1>3, <1>4, <1>5, <1>6, <1>7, <1>8, <1>9, <1>10, <1>11,
     <1>12, <1>13, <1>14, <1>15, <1>16, <1>17, <1>18, <1>19
     DEF Next, World, Events, Program, Person, Pam

LEMMA StepIInv == IInv /\ [Next]_vars => IInv'
BY TypePreserved, LaidOutPreserved, DrawnPreserved, SizeKnownPreserved,
   FocusKnownPreserved
   DEF IInv

LEMMA Inductive == Spec => []IInv
BY InitIInv, StepIInv, PTL DEF Spec
-----------------------------------------------------------------------------
\* Types; and window, surface and geometry have one size in every state.
THEOREM TypeCorrect == Spec => []TypeOK
<1>1. IInv => TypeOK
  BY DEF IInv
<1>. QED BY <1>1, Inductive, PTL

\* A window that waits shows a whole frame of the screen there is, however
\* the screen changed before (run(), syncScreenGeometry(), show()).
THEOREM ScreenIsShown == Spec => []ScreenShown
<1>1. IInv => ScreenShown
  BY DEF IInv, TypeOK, LaidOut, Drawn, SizeKnown, ScreenShown, Settled,
         Opening
<1>. QED BY <1>1, Inductive, PTL

\* For every set of screens and every menu, panel and menu are where they can
\* be seen (Panel::layout(), Menu::open()).
THEOREM IsReachable == Spec => []Reachable
<1>1. IInv => Reachable
  <2>. SUFFICES ASSUME IInv, laid # None
                PROVE  /\ PanelVisible(laid) /\ PanelOnPrimary(laid)
                       /\ menu # None => /\ menu = MenuFor(laid, menu.rows)
                                         /\ MenuVisible(menu, laid)
    BY DEF Reachable
  <2>1. laid \in Geometries
    BY DEF IInv, LaidOut
  <2>2. menu # None => menu.rows \in Nat /\ menu = MenuFor(laid, menu.rows)
    BY DEF IInv, LaidOut
  <2>3. PanelVisible(laid) /\ PanelOnPrimary(laid)
    BY <2>1, PanelAlwaysVisible, PanelAlwaysOnPrimary
  <2>4. menu # None => MenuVisible(menu, laid)
    <3>. SUFFICES ASSUME menu # None PROVE MenuVisible(menu, laid)
      OBVIOUS
    <3>1. MenuVisible(MenuFor(laid, menu.rows), laid)
      BY <2>1, <2>2, MenuAlwaysVisible
    <3>. QED BY <2>2, <3>1
  <2>. QED BY <2>2, <2>3, <2>4
<1>. QED BY <1>1, Inductive, PTL

\* A window that waits has the keyboard, whoever took it before and whatever
\* mode the event had (the case FocusOut of run()).
THEOREM FocusIsKept == Spec => []FocusKept
<1>1. IInv => FocusKept
  BY DEF IInv, FocusKnown, FocusKept, Settled, Opening
<1>. QED BY <1>1, Inductive, PTL
=============================================================================
