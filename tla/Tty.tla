---------------------------------- MODULE Tty ----------------------------------
(***************************************************************************)
(* userspace/bashkar: the shell's terminal.  The console is a grid of         *)
(* character cells whose rows wrap around instead of scrolling; it is drawn   *)
(* in a private buffer, of which rows are then flushed to the screen.         *)
(* Pixels are left out: a row of cells is a row of the screen.  A character   *)
(* is <<key, upper case>>.                                                    *)
(***************************************************************************)
EXTENDS Integers, Sequences, SequencesExt

CONSTANTS InnerCols, InnerRows,
          Prompt,           \* PROMPT
          ShellKeys,        \* the KeyCodes that are typed
          Outputs,          \* what commands write: sequences of write_str() calls
          MaxLine

VARIABLES tt_cells,         \* the private frame buffer
          tt_shown,         \* the screen
          tt_row, tt_col,   \* cursor_row, cursor_col
          tt_start,         \* line_start_row
          tt_rendered,      \* rendered_len
          tt_buf, tt_pos,   \* input_buffer, cursor_pos
          tt_mods,          \* KeyModifiers
          tt_drawn,         \* the line was redrawn since the prompt
          tt_pc

ttyVars == <<tt_cells, tt_shown, tt_row, tt_col, tt_start, tt_rendered, tt_buf, tt_pos, tt_mods,
             tt_drawn, tt_pc>>

Blank == <<"Space", FALSE>>
Newline == <<"Newline", FALSE>>
Rows == 0..InnerRows - 1
Cols == 0..InnerCols - 1
Screen == [cells |-> tt_cells, row |-> tt_row, col |-> tt_col]

-----------------------------------------------------------------------------
\* Operations on [cells, row, col].
AdvanceLine(t) == [t EXCEPT !.row = (@ + 1) % InnerRows, !.col = 0]

AdvanceCursorCell(t) == IF t.col + 1 >= InnerCols THEN AdvanceLine(t) ELSE [t EXCEPT !.col = @ + 1]

FitBeforeWrite(t) == IF t.col >= InnerCols THEN AdvanceLine(t) ELSE t

WriteCharAt(t, ch) == [t EXCEPT !.cells[t.row][t.col] = ch]

WriteSpan(t, text) ==
    FoldLeft(LAMBDA s, ch : AdvanceCursorCell(WriteCharAt(FitBeforeWrite(s), ch)), t, text)

Least(a, b) == IF a < b THEN a ELSE b

ClearRows(cells, first, n) ==
    [r \in Rows |-> IF \E k \in 0..Least(n, InnerRows) - 1 : r = (first + k) % InnerRows
                    THEN [c \in Cols |-> Blank] ELSE cells[r]]

\* Mutant: a partly filled row is not counted.
RowsSpannedFloor(len) ==
    IF len < InnerCols THEN 1 ELSE Least(len \div InnerCols, InnerRows)

RowsSpanned(len) ==
    IF len = 0 THEN 1 ELSE Least((len + InnerCols - 1) \div InnerCols, InnerRows)

\* flush_from_line(): the rows from first on, and those that wrapped to the top.
Flush(shown, cells, first, n) ==
    LET from == Least(first, InnerRows - 1)
        rows == Least(n, InnerRows)
        span == Least(rows, InnerRows - from)
    IN  [r \in Rows |-> IF r \in from..from + span - 1 \/ r < rows - span
                        THEN cells[r] ELSE shown[r]]

\* write_str(): s is [t, touched], the rows to flush.
WriteStep(s, ch) ==
    IF ch = Newline THEN [t |-> AdvanceLine(s.t), touched |-> s.touched + 1]
    ELSE LET fit == FitBeforeWrite(s.t)
             put == AdvanceCursorCell(WriteCharAt(fit, ch))
         IN  [t |-> put, touched |-> s.touched + (IF fit.row # s.t.row THEN 1 ELSE 0)
                                               + (IF put.col = 0 THEN 1 ELSE 0)]

WriteStr(s, text) ==
    LET w == FoldLeft(WriteStep, [t |-> s.t, touched |-> 1], text)
    IN  [t |-> w.t, shown |-> Flush(s.shown, w.t.cells, s.t.row, w.touched)]

-----------------------------------------------------------------------------
\* redraw_line() with a new input buffer.
RedrawLine(buf) ==
    LET len == Len(Prompt) + Len(buf)
        rows == RowsSpanned(IF tt_rendered > len THEN tt_rendered ELSE len)
        clean == [cells |-> ClearRows(tt_cells, tt_start, rows), row |-> tt_start, col |-> 0]
        t == WriteSpan(WriteSpan(clean, Prompt), buf)
    IN  /\ tt_cells' = t.cells /\ tt_row' = t.row /\ tt_col' = t.col
        /\ tt_shown' = Flush(tt_shown, t.cells, tt_start, rows)
        /\ tt_rendered' = len /\ tt_buf' = buf /\ tt_drawn' = TRUE
        /\ UNCHANGED <<tt_start, tt_mods, tt_pc>>

\* KeyModifiers: is_uppercase(), and as_char() with <<>> for '\0'.
IsUppercase(mods) == ("shift" \in mods) # ("caps" \in mods)
Letters == {"A", "B", "C", "D", "E", "F", "G", "H", "I", "J", "K", "L", "M", "N", "O", "P", "Q", "R",
            "S", "T", "U", "V", "W", "X", "Y", "Z"}
Printable == {"Space", "Numpad0", "Numpad1", "Numpad2", "Numpad3", "Numpad4", "Numpad5", "Numpad6",
              "Numpad7", "Numpad8", "Numpad9"}

AsChar(key) ==
    CASE key \in Letters -> <<key, IsUppercase(tt_mods)>>
      [] key \in Printable -> <<key, FALSE>>
      [] OTHER -> <<>>

Modifier == [k \in {"ShiftLeft", "ShiftRight", "CtrlLeft", "CtrlRight", "AltLeft", "AltRight"} |->
                CASE k \in {"ShiftLeft", "ShiftRight"} -> "shift"
                  [] k \in {"CtrlLeft", "CtrlRight"} -> "ctrl"
                  [] OTHER -> "alt"]

With1(mods, flag, on) == IF on THEN mods \cup {flag} ELSE mods \ {flag}

Quiet == UNCHANGED <<tt_cells, tt_shown, tt_row, tt_col, tt_start, tt_rendered, tt_buf, tt_pos,
                     tt_drawn, tt_pc>>

\* handle_key_event().  Releases only matter for the modifiers.
ModifierKey(key, pressed) ==
    /\ tt_pc = "edit" /\ key \in DOMAIN Modifier
    /\ tt_mods' = With1(tt_mods, Modifier[key], pressed) /\ Quiet

CapsLock ==
    /\ tt_pc = "edit" /\ tt_mods' = With1(tt_mods, "caps", "caps" \notin tt_mods) /\ Quiet

Backspace ==
    /\ tt_pc = "edit" /\ tt_pos > 0
    /\ tt_pos' = tt_pos - 1
    /\ RedrawLine(IF tt_pos' < Len(tt_buf) THEN RemoveAt(tt_buf, tt_pos' + 1) ELSE Front(tt_buf))

CharKey(key) ==
    /\ tt_pc = "edit" /\ key \notin DOMAIN Modifier \cup {"CapsLock", "Backspace", "Enter"}
    /\ AsChar(key) # <<>> /\ Len(tt_buf) < MaxLine
    /\ tt_pos' = tt_pos + 1
    /\ RedrawLine(InsertAt(tt_buf, tt_pos + 1, AsChar(key)))

\* Enter: a new line, and the row that was left is flushed.
EnterKey ==
    /\ tt_pc = "edit" /\ tt_pc' = "run"
    /\ tt_row' = AdvanceLine(Screen).row /\ tt_col' = 0
    /\ tt_shown' = Flush(tt_shown, tt_cells, tt_row, 1)
    /\ tt_buf' = <<>> /\ tt_pos' = 0            \* drain_input_line()
    /\ UNCHANGED <<tt_cells, tt_start, tt_rendered, tt_mods, tt_drawn>>

\* execute_command(): most commands and the errors write strings.
Execute(out) ==
    /\ tt_pc = "run" /\ tt_pc' = "prompt"
    /\ LET w == FoldLeft(WriteStr, [t |-> Screen, shown |-> tt_shown], out)
       IN  /\ tt_cells' = w.t.cells /\ tt_row' = w.t.row /\ tt_col' = w.t.col
           /\ tt_shown' = w.shown
    /\ tt_rendered' = IF out = <<>> THEN tt_rendered ELSE 0
    /\ UNCHANGED <<tt_start, tt_buf, tt_pos, tt_mods, tt_drawn>>

ClearScreen ==
    /\ tt_pc = "run" /\ tt_pc' = "prompt"
    /\ tt_cells' = ClearRows(tt_cells, 0, InnerRows)
    /\ tt_shown' = Flush(tt_shown, tt_cells', 0, InnerRows)
    /\ tt_row' = 0 /\ tt_col' = 0 /\ tt_start' = 0 /\ tt_rendered' = 0
    /\ UNCHANGED <<tt_buf, tt_pos, tt_mods, tt_drawn>>

\* reset_input() and display_prompt(): the prompt goes over what the row holds.
DisplayPrompt ==
    /\ tt_pc = "prompt" /\ tt_pc' = "edit"
    /\ LET t == WriteSpan([Screen EXCEPT !.col = 0], Prompt)
       IN  /\ tt_cells' = t.cells /\ tt_row' = t.row /\ tt_col' = t.col
           /\ tt_shown' = Flush(tt_shown, t.cells, tt_row, RowsSpanned(Len(Prompt)))
    /\ tt_start' = tt_row /\ tt_rendered' = Len(Prompt)
    /\ tt_buf' = <<>> /\ tt_pos' = 0 /\ tt_drawn' = FALSE
    /\ UNCHANGED tt_mods

TtyInit ==
    /\ tt_cells = [r \in Rows |-> [c \in Cols |-> Blank]] /\ tt_shown = tt_cells
    /\ tt_row = 0 /\ tt_col = 0 /\ tt_start = 0 /\ tt_rendered = 0
    /\ tt_buf = <<>> /\ tt_pos = 0 /\ tt_mods = {} /\ tt_drawn = FALSE /\ tt_pc = "prompt"

TtyNext ==
    \/ (\E key \in ShellKeys, pressed \in BOOLEAN : ModifierKey(key, pressed))
    \/ CapsLock \/ Backspace \/ (\E key \in ShellKeys : CharKey(key))
    \/ EnterKey \/ (\E out \in Outputs : Execute(out)) \/ ClearScreen \/ DisplayPrompt

-----------------------------------------------------------------------------
\* The n-th cell of the line that starts at row tt_start.
LineCell(n) == tt_shown[(tt_start + (n \div InnerCols)) % InnerRows][n % InnerCols]

RowsOf(len) == CHOOSE k \in 1..InnerRows : (k - 1) * InnerCols < len /\ len <= k * InnerCols

\* What the screen shows is what was drawn and what was typed: every drawn row has been
\* flushed, whichever rows a long line or output wrapped over; the line being edited shows
\* the prompt and the input buffer and, once redrawn, no glyph of a longer line that was
\* there before, up to the end of its last row; and the cursor is behind its last
\* character.
TerminalShowsTheLine ==
    /\ tt_shown = tt_cells
    /\ tt_pos <= Len(tt_buf)
    /\ LET line == Prompt \o tt_buf
       IN  tt_pc = "edit" /\ Len(line) < InnerRows * InnerCols =>
             /\ \A n \in DOMAIN line : LineCell(n - 1) = line[n]
             /\ tt_drawn => \A n \in Len(line)..RowsOf(Len(line)) * InnerCols - 1 : LineCell(n) = Blank
             /\ tt_row = (tt_start + (Len(line) \div InnerCols)) % InnerRows
             /\ tt_col = Len(line) % InnerCols
=============================================================================
