------------------------------ MODULE Terminal ------------------------------
(***************************************************************************)
(* The Terminal class: its text, its cursor, the line that is typed and    *)
(* the history of lines.  A window is a grid of cells; the row with the    *)
(* cursor is modelled by what it shows (all rows below it are blank), the  *)
(* whole grid by the cells that were painted in the window (undrawn) or    *)
(* moved by scrolling (scrolled) and that the main task has not been asked *)
(* to draw since.                                                          *)
(***************************************************************************)
EXTENDS Integers, SequencesExt, FiniteSetsExt

CONSTANTS kRows, kColumns, kLineMax, HistorySize

ASSUME TerminalAssumption == kRows \in Nat \ {0} /\ kColumns \in Nat /\ kColumns > 2

Blank == " "
Column == 0 .. kColumns      \* the cursor may stand one column too far to the right
BlankRow == [c \in Column |-> Blank]
AllCells == (0 .. kRows - 1) \X Column
Prompt == <<">", Blank>>
NewLine == "\n"

NewTerminal ==
  [x |-> 0, y |-> 0, row |-> BlankRow, undrawn |-> AllCells, scrolled |-> {}, linebuf |-> <<>>,
   cmd_history |-> [i \in 1 .. HistorySize |-> <<>>], cmd_history_index |-> -1]

\* Cells of the cursor's row.
InRow(t, columns) == {t.y} \X (columns \cap Column)

\* A cell of the cursor's row is painted.
Paint(t, column, c) ==
  [t EXCEPT !.row[column] = c, !.undrawn = @ \cup InRow(t, {column})]

\* DrawCursor: the block is not text.
DrawCursor(t) == Paint(t, t.x, Blank)

\* The message to the main task, MakeLayerMessage with DrawArea.
AskToDraw(t, area) == [t EXCEPT !.undrawn = @ \ area, !.scrolled = @ \ area]

\* The next row, or Scroll_OneLine, which moves everything.
ToNextRow(t) ==
  LET next == [t EXCEPT !.x = 0, !.row = BlankRow]
  IN  IF t.y < kRows - 1 THEN [next EXCEPT !.y = @ + 1]
      ELSE [next EXCEPT !.undrawn = {}, !.scrolled = AllCells]

PrintChar(t, c) ==
  IF c = NewLine THEN ToNextRow(t)
  ELSE IF t.x = kColumns - 1 THEN ToNextRow(Paint(t, t.x, c))
  ELSE [Paint(t, t.x, c) EXCEPT !.x = @ + 1]


\* Print(s): the rows from the cursor's before to the cursor's after.
PrintText(t, s) ==
  LET after == DrawCursor(FoldLeft(PrintChar, DrawCursor(t), s))
  IN  AskToDraw(after, (t.y .. after.y) \X Column)

BlinkCursor(t) == AskToDraw(DrawCursor(t), InRow(t, {t.x}))

-----------------------------------------------------------------------------
(* InputKey, except for what ExecuteLine does.                             *)

\* Enter: the line goes into the history, an empty one does not.
Enter(t) ==
  ToNextRow([DrawCursor(t) EXCEPT
    !.cmd_history = IF t.linebuf = <<>> THEN @ ELSE <<t.linebuf>> \o Front(@),
    !.linebuf = <<>>])

\* Wrong: the line keeps the character when the prompt is reached.
Backspace_Shown(t) ==
  IF t.x = 0 THEN AskToDraw(DrawCursor(t), InRow(t, {0, 1}))
  ELSE LET back == [DrawCursor(t) EXCEPT !.x = @ - 1,
                      !.linebuf = IF t.x > 2 THEN Front(@) ELSE @]
       IN  AskToDraw(DrawCursor(back), InRow(t, {t.x - 1, t.x}))

Backspace(t) ==
  IF t.x = 0 THEN AskToDraw(DrawCursor(t), InRow(t, {0, 1}))
  ELSE LET back == [DrawCursor(t) EXCEPT !.x = @ - 1,
                      !.linebuf = IF @ = <<>> THEN @ ELSE Front(@)]
       IN  AskToDraw(DrawCursor(back), InRow(t, {t.x - 1, t.x}))

InputChar(t, c) ==
  IF t.x < kColumns - 1 /\ Len(t.linebuf) < kLineMax - 1
  THEN AskToDraw(DrawCursor([Paint(DrawCursor(t), t.x, c) EXCEPT
                   !.linebuf = Append(@, c), !.x = @ + 1]), InRow(t, {t.x, t.x + 1}))
  ELSE AskToDraw(DrawCursor(t), InRow(t, {t.x, t.x + 1}))

\* HistoryUpDown writes from column 1 on, over the second half of the prompt.
HistoryUpDown(t, direction) ==
  LET index == IF direction = -1 /\ t.cmd_history_index >= 0 THEN t.cmd_history_index - 1
               ELSE IF direction = 1 /\ t.cmd_history_index + 1 < HistorySize
               THEN t.cmd_history_index + 1 ELSE t.cmd_history_index
      line == IF index >= 0 THEN t.cmd_history[index + 1] ELSE <<>>
      wiped == [DrawCursor(t) EXCEPT
        !.row = [c \in Column |-> IF c = 0 THEN @[c] ELSE IF c <= Len(line) THEN line[c] ELSE Blank],
        !.undrawn = @ \cup InRow(t, 1 .. kColumns - 1),
        !.cmd_history_index = index, !.linebuf = line, !.x = Len(line) + 1]
  IN  AskToDraw(DrawCursor(wiped), InRow(t, 1 .. kColumns - 1))

\* The command clear, after Enter.
Clear(t) == [t EXCEPT !.y = 0, !.row = BlankRow, !.undrawn = AllCells]
=============================================================================
