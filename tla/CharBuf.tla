------------------------------- MODULE CharBuf -------------------------------
(***************************************************************************)
(* The character buffer of the VGA display, fpga/vga/CharBuf.v: a ring of  *)
(* rows, of which the one after the cursor's is shown on top, so that the  *)
(* screen scrolls without a character being moved.  One step is one        *)
(* character; without one nothing changes.                                 *)
(*                                                                         *)
(* The pixels of a character (CharLUT) and the timing of a read are left   *)
(* out.  Rows and columns are numbered within their range, which is what   *)
(* the wrapping of the code amounts to, for sizes that are a power of two  *)
(* and for others.                                                         *)
(***************************************************************************)
EXTENDS Integers

CONSTANTS
  Rows, Cols,   \* p_num_rows and p_num_cols: 30 and 80 in the code, at least 2
  Visible       \* the characters other than the three below

ESC   == "ESC"
DEL   == "DEL"
LF    == "LF"
Blank == "NUL"

Ascii == Visible \cup {ESC, DEL, LF}

Row == 0 .. Rows - 1
Col == 0 .. Cols - 1

VARIABLES mem, cursor_x, cursor_y, shift_offset

vars == <<mem, cursor_x, cursor_y, shift_offset>>

BlankRow == [x \in Col |-> Blank]

Init ==
  /\ mem = [y \in Row |-> BlankRow]
  /\ cursor_x = 0 /\ cursor_y = 0 /\ shift_offset = 1

next_cursor_x(ascii) ==
  CASE ascii = DEL -> IF cursor_x = 0 THEN 0 ELSE cursor_x - 1
    [] ascii = LF  -> 0
    [] OTHER       -> (cursor_x + 1) % Cols

\* Mutant: a deletion that leads to column 0 scrolls as well.
new_line_Del(ascii) == next_cursor_x(ascii) = 0

new_line(ascii) == ascii # DEL /\ next_cursor_x(ascii) = 0

next_cursor_y(ascii) == IF new_line(ascii) THEN (cursor_y + 1) % Rows ELSE cursor_y

\* What is stored where; the row that the cursor comes to is cleared.
Stored(ascii) ==
  [y \in Row |->
     IF new_line(ascii) /\ y = next_cursor_y(ascii) THEN BlankRow
     ELSE IF ascii # LF /\ y = cursor_y
       THEN [mem[y] EXCEPT ![IF ascii = DEL THEN next_cursor_x(DEL) ELSE cursor_x] =
                             IF ascii = DEL THEN Blank ELSE ascii]
     ELSE mem[y]]

Write(ascii) ==
  IF ascii = ESC THEN
    /\ mem' = [y \in Row |-> BlankRow]
    /\ cursor_x' = 0 /\ cursor_y' = 0 /\ shift_offset' = 1
  ELSE
    /\ mem' = Stored(ascii)
    /\ cursor_x' = next_cursor_x(ascii)
    /\ cursor_y' = next_cursor_y(ascii)
    /\ shift_offset' = IF new_line(ascii) THEN (shift_offset + 1) % Rows ELSE shift_offset

Next == \E ascii \in Ascii : Write(ascii)

----------------------------------------------------------------------------
(* What is shown, and what a terminal that scrolls would show.             *)

rrow(read_vchar) == (read_vchar + shift_offset) % Rows

Shown == [y \in Row |-> mem[rrow(y)]]

ScrolledUp(screen) == [y \in Row |-> IF y = Rows - 1 THEN BlankRow ELSE screen[y + 1]]

Put(screen, x, c) == [screen EXCEPT ![Rows - 1] = [@ EXCEPT ![x] = c]]

Terminal(screen, x, ascii) ==
  CASE ascii = ESC -> [y \in Row |-> BlankRow]
    [] ascii = DEL -> IF x = 0 THEN screen ELSE Put(screen, x - 1, Blank)
    [] ascii = LF  -> ScrolledUp(screen)
    [] OTHER -> IF x = Cols - 1 THEN ScrolledUp(Put(screen, x, ascii)) ELSE Put(screen, x, ascii)

\* The cursor is in the bottom row, and every character changes the screen as
\* if all the rows were moved: nothing of an older text shows up again, and
\* nothing is lost but what leaves at the top.
ShowsTheText ==
  /\ [](rrow(Rows - 1) = cursor_y)
  /\ [][\A ascii \in Ascii : Write(ascii) => Shown' = Terminal(Shown, cursor_x, ascii)]_vars
=============================================================================
