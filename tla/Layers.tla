------------------------------- MODULE Layers -------------------------------
(***************************************************************************)
(* The layers of layer.cpp, the mouse of mouse.cpp and what is seen of     *)
(* them on the screen.  A layer shows its window at a place; the layers on *)
(* layer_stack_ are painted from the bottom up into the back buffer, and   *)
(* an area of that is copied to the screen.  Every operation repaints only *)
(* what it thinks has changed.                                             *)
(*                                                                         *)
(* The screen is a column of rows: rectangles are sets of rows, columns    *)
(* are treated like rows.  The main task runs mouse events, timers and     *)
(* requests to draw; it outranks the terminal task, which is never in its  *)
(* way, but may itself be interrupted between any two calls that are not   *)
(* between cli and sti.                                                    *)
(***************************************************************************)
EXTENDS Integers, SequencesExt, FiniteSetsExt

CONSTANTS
  Height,       \* rows of the screen
  Size,         \* rows of each layer's window
  StartAt,      \* where the windows are put first
  CursorRows,   \* the rows of the mouse cursor that are not transparent
  MaxMove,      \* bound: how far a mouse report moves
  MaxOff        \* bound: how far windows are dragged over the upper edge

\* The layers, in the order in which NewLayer makes them.
Background == 1
Console == 2
TextWindow == 3
Mouse == 4
Terminal == 5
AppWindow == 6
Layer == 1 .. 6
Draggable == {TextWindow, Terminal, AppWindow}
NoLayer == 0

ASSUME HeightAssumption == Height \in Nat \ {0}
ASSUME SizeAssumption == Size \in [Layer -> Nat] /\ StartAt \in [Layer -> Int]
ASSUME PlacesAssumption ==   \* the background is as large as the screen, the mouse starts on it
  Size[Background] = Height /\ StartAt[Background] = 0 /\ StartAt[Mouse] \in 0 .. Height - 1
ASSUME MoveAssumption == CursorRows \subseteq 0 .. Size[Mouse] - 1 /\ {MaxMove, MaxOff} \subseteq Nat

VARIABLES
  lm,        \* layers, layer_stack_, back_buffer_ and screen
  active,    \* ActiveLayer::active_layer_
  position, previous_left_pressed, drag_layer_id,   \* Mouse
  moved,     \* the mouse has reported at least once
  pc,        \* where the terminal task is in TaskTerminal
  app,       \* whether the application runs, has a window, has written to it
  message,   \* the terminal has asked for its cursor to be drawn
  raced      \* the mouse button went down in the middle of the terminal's Activate

vars == <<lm, active, position, previous_left_pressed, drag_layer_id, moved, pc, app, message, raced>>

Rows == 0 .. Height - 1

-----------------------------------------------------------------------------
(* Painting.                                                               *)

\* Rectangle, and & as the intersection of sets.
Rectangle(pos, size) == pos .. pos + size - 1
WindowArea(l, id) == Rectangle(l.pos[id], Size[id])

\* What a window shows: its title bar tells whether it is active, and it may
\* have been written to since.
Pixel(l, id) == [layer |-> id, active |-> id \in l.looks_active, old |-> FALSE]

\* The window is written to: what has been painted of it is out of date.
Aged(buffer, id) == [r \in Rows |-> IF buffer[r].layer = id THEN [buffer[r] EXCEPT !.old = TRUE] ELSE buffer[r]]
Write(l, id) == [l EXCEPT !.back = Aged(@, id), !.screen = Aged(@, id)]

\* Window::DrawTo: a window with a transparent colour, the mouse's, is painted
\* whole, whatever the area.
DrawTo(l, id, area) ==
  IF id = Mouse THEN {l.pos[id] + r : r \in CursorRows} ELSE area \cap WindowArea(l, id)

\* The layers from a height up, each over the ones below it.
DrawFrom(l, height, area) ==
  LET painted == [i \in height + 1 .. Len(l.stack) |-> DrawTo(l, l.stack[i], area)]
      top(row) == Max({0} \cup {i \in DOMAIN painted : row \in painted[i]})
  IN  [l EXCEPT !.back = [row \in Rows |->
         LET i == top(row) IN IF i = 0 THEN l.back[row] ELSE Pixel(l, l.stack[i])]]

\* FrameBuffer::Copy from the back buffer, clipped to the screen.
Copy(l, area) == [l EXCEPT !.screen = [r \in Rows |-> IF r \in area THEN l.back[r] ELSE @[r]]]

Draw(l, area) == Copy(DrawFrom(l, 0, area), area)

HeightOf(stack, id) ==
  IF \E i \in DOMAIN stack : stack[i] = id THEN (CHOOSE i \in DOMAIN stack : stack[i] = id) - 1
  ELSE -1
GetHeight(l, id) == HeightOf(l.stack, id)

\* The areas that uninitialised rectangles may come to be; for a layer that is on
\* the stack none is left uninitialised.
Stray == {{}, {0}, Rows}
StrayFor(l, id) == IF GetHeight(l, id) < 0 THEN Stray ELSE {{}}

\* Draw(id, area): the layers from id up.  For a layer that is not on the stack
\* window_area is never assigned, and some area or other, stray, is copied.
DrawLayer(l, id, area, stray) ==
  IF GetHeight(l, id) < 0 THEN Copy(l, stray)
  ELSE Copy(DrawFrom(l, GetHeight(l, id), area), area)

\* Draw(id): the whole window.
DrawWindow(l, id, stray) == DrawLayer(l, id, WindowArea(l, id), stray)

\* Wrong: the place it leaves is not painted.
Move_NotCleared(l, id, pos, stray) == DrawWindow([l EXCEPT !.pos[id] = pos], id, stray)

Move(l, id, pos, stray) ==
  DrawWindow(Draw([l EXCEPT !.pos[id] = pos], WindowArea(l, id)), id, stray)

-----------------------------------------------------------------------------
(* The stack.                                                              *)

Hide(stack, id) ==
  IF HeightOf(stack, id) < 0 THEN stack ELSE RemoveAt(stack, HeightOf(stack, id) + 1)

IntMax == 2147483647

\* Wrong: one place too high for a layer that is on the stack already.
UpDown_AboveMouse(stack, id, new_height) ==
  LET height == IF new_height > Len(stack) THEN Len(stack) ELSE new_height
  IN  IF new_height < 0 THEN Hide(stack, id)
      ELSE IF HeightOf(stack, id) < 0 THEN InsertAt(stack, height + 1, id)
      ELSE InsertAt(Hide(stack, id), height + 2, id)

\* LayerManager::UpDown
UpDown(stack, id, new_height) ==
  LET height == IF new_height > Len(stack) THEN Len(stack) ELSE new_height
      place == IF height = Len(stack) THEN height - 1 ELSE height
  IN  IF new_height < 0 THEN Hide(stack, id)
      ELSE IF HeightOf(stack, id) < 0 THEN InsertAt(stack, height + 1, id)
      ELSE InsertAt(Hide(stack, id), place + 1, id)

\* The topmost layer at pos.  A window also counts for the row below it.
FindLayerByPosition(l, pos, exclude_id) ==
  LET hit == {i \in DOMAIN l.stack :
                /\ l.stack[i] # exclude_id
                /\ l.pos[l.stack[i]] <= pos
                /\ pos <= l.pos[l.stack[i]] + Size[l.stack[i]]}
  IN  IF hit = {} THEN NoLayer ELSE l.stack[Max(hit)]

\* Activate, in two halves: the window that was active, then the new one, each
\* changed first and drawn afterwards.
Darkened(l, id) == [l EXCEPT !.looks_active = @ \ {id}]
Brightened(l, id) == [l EXCEPT !.looks_active = @ \cup {id}]
Raised(l, id) == [l EXCEPT !.stack = UpDown(@, id, GetHeight(l, Mouse) - 1)]

Deactivated(l, id, stray) == IF id = NoLayer THEN l ELSE DrawWindow(Darkened(l, id), id, stray)

Activated(l, id) == IF id = NoLayer THEN l ELSE DrawWindow(Raised(Brightened(l, id), id), id, {})

\* Wrong: the window that was active keeps its title bar.
Activate_KeepsTitle(l, old, id, stray) == IF old = id THEN l ELSE Activated(l, id)

Activate(l, old, id, stray) == IF old = id THEN l ELSE Activated(Deactivated(l, old, stray), id)

-----------------------------------------------------------------------------
(* Boot.                                                                   *)

Blank == [layer |-> NoLayer, active |-> FALSE, old |-> FALSE]
Unpainted ==
  [pos |-> StartAt, looks_active |-> {},
   stack |-> UpDown(UpDown(UpDown(<<>>, Background, 0), Console, 1), TextWindow, IntMax),
   back |-> [r \in Rows |-> Blank], screen |-> [r \in Rows |-> Blank]]

\* InitializeLayer, InitializeTextWindow, Draw({{0, 0}, ScreenSize()}).
Init ==
  /\ lm = Draw(Unpainted, Rows)
  /\ active = NoLayer
  /\ position = 0
  /\ previous_left_pressed = FALSE
  /\ drag_layer_id = NoLayer
  /\ moved = FALSE
  /\ pc = "boot"
  /\ app = "none"
  /\ message = FALSE
  /\ raced = FALSE


\* The mouse's layer is moved before it is on the stack; where it was has never
\* been assigned.
InitializeMouse ==
  /\ pc = "boot"
  /\ \E old, stray \in Stray :
       LET placed == Copy(Draw([lm EXCEPT !.pos[Mouse] = StartAt[Mouse]], old), stray)
       IN  lm' = [placed EXCEPT !.stack = UpDown(@, Mouse, IntMax)]
  /\ position' = StartAt[Mouse]
  /\ pc' = "start"
  /\ UNCHANGED <<active, previous_left_pressed, drag_layer_id, moved, app, message, raced>>

-----------------------------------------------------------------------------
(* The main task.                                                          *)

Clamp(p) == IF p < 0 THEN 0 ELSE IF p > Height - 1 THEN Height - 1 ELSE p

\* The terminal's Activate is between its two halves, or has changed active_layer_
\* and not drawn it yet.
InActivate == {"redraw", "assign"}
Drawing == {"redraw", "raise", "draw"}

\* There is a mouse, and the program has not gone astray.
Running == pc \notin {"boot", "astray"}

\* Wrong: the window is dragged as far as the mouse says it moved.
MouseInterrupt_DragsUnclamped(displacement, left_pressed) ==
  /\ Running
  /\ position' = Clamp(position + displacement)
  /\ LET newpos == Clamp(position + displacement)
         l == Move(lm, Mouse, newpos, {})
         found == FindLayerByPosition(l, newpos, Mouse)
         target == IF found \in Draggable THEN found ELSE NoLayer
     IN  IF ~previous_left_pressed /\ left_pressed
         THEN /\ drag_layer_id' = IF target # NoLayer THEN target ELSE drag_layer_id
              /\ active' = target
              /\ \E stray \in StrayFor(l, active) : lm' = Activate(l, active, target, stray)
         ELSE /\ lm' = IF left_pressed /\ drag_layer_id # NoLayer
                       THEN Move(l, drag_layer_id, l.pos[drag_layer_id] + displacement, {})
                       ELSE l
              /\ drag_layer_id' = IF left_pressed THEN drag_layer_id ELSE NoLayer
              /\ UNCHANGED active
  /\ \A id \in Draggable : lm'.pos[id] >= -MaxOff
  /\ raced' = (raced \/ (left_pressed /\ ~previous_left_pressed /\ pc \in InActivate))
  /\ previous_left_pressed' = left_pressed
  /\ moved' = TRUE
  /\ UNCHANGED <<pc, app, message>>

\* Mouse::OnInterrupt
MouseInterrupt(displacement, left_pressed) ==
  /\ Running
  /\ position' = Clamp(position + displacement)
  /\ LET newpos == Clamp(position + displacement)
         l == Move(lm, Mouse, newpos, {})
         found == FindLayerByPosition(l, newpos, Mouse)
         target == IF found \in Draggable THEN found ELSE NoLayer
     IN  IF ~previous_left_pressed /\ left_pressed
         THEN /\ drag_layer_id' = IF target # NoLayer THEN target ELSE drag_layer_id
              /\ active' = target
              /\ \E stray \in StrayFor(l, active) : lm' = Activate(l, active, target, stray)
         ELSE /\ lm' = IF left_pressed /\ drag_layer_id # NoLayer
                       THEN Move(l, drag_layer_id,
                                 l.pos[drag_layer_id] + newpos - position, {})
                       ELSE l
              /\ drag_layer_id' = IF left_pressed THEN drag_layer_id ELSE NoLayer
              /\ UNCHANGED active
  /\ \A id \in Draggable : lm'.pos[id] >= -MaxOff
  /\ raced' = (raced \/ (left_pressed /\ ~previous_left_pressed /\ pc \in InActivate))
  /\ previous_left_pressed' = left_pressed
  /\ moved' = TRUE
  /\ UNCHANGED <<pc, app, message>>

\* The cursor of the text window, or the counter of the main window.
BlinkText ==
  /\ Running
  /\ lm' = DrawWindow(Write(lm, TextWindow), TextWindow, {})
  /\ UNCHANGED <<active, position, previous_left_pressed, drag_layer_id, moved, pc, app, message, raced>>

\* ProcessLayerMessage: DrawArea, the last row of the terminal.
ProcessLayerMessage ==
  /\ message
  /\ message' = FALSE
  /\ \E stray \in StrayFor(lm, Terminal) : lm' = DrawLayer(lm, Terminal, WindowArea(lm, Terminal), stray)
  /\ UNCHANGED <<active, position, previous_left_pressed, drag_layer_id, moved, pc, app, raced>>

-----------------------------------------------------------------------------
(* The terminal task and the application it runs.                          *)

\* new Terminal, then Move, with interrupts on again: Layer::Move, the Draw of
\* where it was, which has never been assigned ...
TerminalMove ==
  /\ pc = "start"
  /\ \E old \in Stray : lm' = Draw(lm, old)
  /\ pc' = "place"
  /\ UNCHANGED <<active, position, previous_left_pressed, drag_layer_id, moved, app, message, raced>>

\* ... and the Draw of a layer that is not on the stack yet.
TerminalPlace ==
  /\ pc = "place"
  /\ \E stray \in StrayFor(lm, Terminal) : lm' = DrawWindow(lm, Terminal, stray)
  /\ pc' = "activate"
  /\ UNCHANGED <<active, position, previous_left_pressed, drag_layer_id, moved, app, message, raced>>

\* Activate, which reads active_layer_ again before each call.  The title bar of
\* the window that is active ...
TerminalDeactivate ==
  /\ pc = "activate"
  /\ lm' = Darkened(lm, active)
  /\ pc' = IF active = NoLayer THEN "assign" ELSE "redraw"
  /\ UNCHANGED <<active, position, previous_left_pressed, drag_layer_id, moved, app, message, raced>>

\* ... and its window, or that of another one that is active by now; at the end
\* the terminal's own.  Without an active window there is nothing to draw.
TerminalDraw ==
  /\ pc \in {"redraw", "draw"}
  /\ \E stray \in StrayFor(lm, active) : lm' = DrawWindow(lm, active, stray)
  /\ pc' = IF pc = "redraw" THEN "assign" ELSE "run"
  /\ UNCHANGED <<active, position, previous_left_pressed, drag_layer_id, moved, app, message, raced>>

\* active_layer_ and its title bar ...
TerminalAssign ==
  /\ pc = "assign"
  /\ active' = Terminal
  /\ lm' = Brightened(lm, Terminal)
  /\ pc' = "raise"
  /\ UNCHANGED <<position, previous_left_pressed, drag_layer_id, moved, app, message, raced>>

\* ... and UpDown.  A window that was clicked in between is raised instead of the
\* terminal's, which then never comes on the stack.  After a click on the desktop there
\* is nothing to raise; if the click came after active_layer_ > 0 was tested, a null pointer
\* comes on the stack, and what the program does next is not defined.
TerminalRaise ==
  /\ pc = "raise"
  /\ lm' = IF active = NoLayer THEN lm ELSE Raised(lm, active)
  /\ pc' \in IF active = NoLayer THEN {"run", "astray"} ELSE {"draw"}
  /\ UNCHANGED <<active, position, previous_left_pressed, drag_layer_id, moved, app, message, raced>>

Astray ==
  /\ pc = "astray"
  /\ UNCHANGED vars

\* Drawing into a window, and the request to show it.
TerminalBlink ==
  /\ pc = "run" /\ app # "writing" /\ ~message
  /\ lm' = Write(lm, Terminal)
  /\ message' = TRUE
  /\ UNCHANGED <<active, position, previous_left_pressed, drag_layer_id, moved, pc, app, raced>>

\* The system call OpenWindow, between cli and sti.
OpenWindow ==
  /\ pc = "run" /\ app = "none"
  /\ app' = "open"
  /\ active' = AppWindow
  /\ \E stray \in StrayFor(lm, active) : lm' = Activate(lm, active, AppWindow, stray)
  /\ UNCHANGED <<position, previous_left_pressed, drag_layer_id, moved, pc, message, raced>>

\* WinWriteString: the window is written with interrupts on, then drawn.
WinWrite ==
  /\ app = "open"
  /\ app' = "writing"
  /\ lm' = Write(lm, AppWindow)
  /\ UNCHANGED <<active, position, previous_left_pressed, drag_layer_id, moved, pc, message, raced>>

WinDraw ==
  /\ app = "writing"
  /\ app' = "open"
  /\ lm' = DrawWindow(lm, AppWindow, {})
  /\ UNCHANGED <<active, position, previous_left_pressed, drag_layer_id, moved, pc, message, raced>>

-----------------------------------------------------------------------------

Next ==
  \/ InitializeMouse
  \/ \E d \in -MaxMove .. MaxMove, left_pressed \in BOOLEAN : MouseInterrupt(d, left_pressed)
  \/ BlinkText \/ ProcessLayerMessage
  \/ TerminalMove \/ TerminalPlace \/ TerminalDeactivate \/ TerminalDraw
  \/ TerminalAssign \/ TerminalRaise \/ Astray \/ TerminalBlink
  \/ OpenWindow \/ WinWrite \/ WinDraw

Spec == Init /\ [][Next]_vars

-----------------------------------------------------------------------------
(* Properties.                                                             *)

TypeOK ==
  /\ lm.pos \in [Layer -> Int] /\ lm.looks_active \subseteq Layer
  /\ lm.stack \in Seq(Layer)
  /\ active \in Draggable \cup {NoLayer} /\ drag_layer_id \in Draggable \cup {NoLayer}
  /\ position \in Rows
  /\ previous_left_pressed \in BOOLEAN /\ message \in BOOLEAN /\ raced \in BOOLEAN

\* Once there is a mouse it is on top of everything, whatever is activated,
\* opened or dragged, and no layer is on the stack twice.
MouseOnTop ==
  pc # "boot" => Last(lm.stack) = Mouse /\ IsInjective(lm.stack)

\* The layer that shows through to a row.
Painted(row) ==
  LET above == {i \in DOMAIN lm.stack :
                  IF lm.stack[i] = Mouse THEN row - lm.pos[Mouse] \in CursorRows
                  ELSE row \in WindowArea(lm, lm.stack[i])}
  IN  Pixel(lm, lm.stack[Max(above)])

\* The screen shows the stack, every row of it, although every operation paints
\* only a part and the main task may come between two of the terminal's: except
\* for what was written into a window and not drawn yet, for the window that the
\* terminal's Activate has changed and draws next, and for the cursor, which may be
\* missing until the mouse moves for the first time.
ScreenShowsStack ==
  ~message /\ app # "writing" =>
    \A row \in Rows : \/ lm.screen[row] = Painted(row)
                      \/ ~moved /\ row - lm.pos[Mouse] \in CursorRows
                      \/ pc \in Drawing /\ active # NoLayer /\ row \in WindowArea(lm, active)

\* The window with the bright title bar is the one the keys go to, outside the
\* terminal's unprotected Activate.  A click that comes in the middle of that is the
\* exception.
OneLooksActive ==
  pc \notin InActivate /\ ~raced => lm.looks_active = {active} \ {NoLayer}

\* A window that is dragged stays under the same point of the mouse, also when
\* the mouse is held back at the edge of the screen.
DragFollowsMouse ==
  [][drag_layer_id # NoLayer /\ drag_layer_id' = drag_layer_id =>
       lm'.pos[drag_layer_id] - lm.pos[drag_layer_id] = position' - position]_vars
=============================================================================
