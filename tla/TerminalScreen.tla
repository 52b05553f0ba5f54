--------------------------- MODULE TerminalScreen ---------------------------
(***************************************************************************)
(* The terminal model of one pane: Grid (strukt-terminal grid.rs), the     *)
(* performer that applies parsed output to it (parser.rs).  The byte       *)
(* parser is the vte library: an action is one character, control or       *)
(* sequence it dispatches, with any arguments, while the user resizes the  *)
(* pane between any two of them.                                           *)
(*                                                                         *)
(* Rows and columns count from 1 (the code's from 0).  A character is      *)
(* narrow, wide or combining; colours and attributes are one style; a cell *)
(* with combining marks has the text "marked".  An index outside a row or  *)
(* the screen is a panic in the code: panicked.                            *)
(***************************************************************************)
EXTENDS Naturals, Integers, Sequences, SequencesExt

CONSTANTS None,
          Sizes,            \* the sizes the pane can have
          InitialSize,
          ScrollbackLimit,  \* scrollback_limit, DEFAULT 10,000
          MaxLinks,         \* bound of hyperlink_targets: 4096
          Modes,            \* the private modes the output may switch
          MaxOutput, MaxResizes  \* bounds: sequences applied, resizes

VARIABLES size, primary, alternate, active, scrollback,  \* Grid
          pen, targets, modes,                           \* TerminalPerformer
          panicked, output, resizes

screenVars == <<size, primary, alternate, active, scrollback, pen, targets, modes,
                panicked, output, resizes>>

\* Cell::default, reset and set_text.
Blank == [text |-> " ", width |-> "Single", style |-> "Default", link |-> None]
Cell(text, width, from) ==
    [text |-> text, width |-> width, style |-> from.style, link |-> from.link]

\* Cell::is_semantically_blank.
IsBlank(cell) == cell = Blank

BlankRow(columns) == [column \in 1..columns |-> Blank]
BlankRows(sz) == [row \in 1..sz.rows |-> BlankRow(sz.columns)]

\* Screen::new.
NewScreen(sz) ==
    [rows |-> BlankRows(sz), row |-> 1, column |-> 1, wrap |-> FALSE,
     top |-> 1, bottom |-> sz.rows, saved |-> None]

\* repair_row: left to right, a lead without its continuation and a continuation
\* without its lead are reset.
RepairCell(row, column) ==
    CASE /\ row[column].width = "Wide"
         /\ column = Len(row) \/ (column < Len(row) /\ row[column + 1].width # "Continuation")
           -> [row EXCEPT ![column] = Blank]
      [] /\ row[column].width = "Continuation"
         /\ column = 1 \/ (column > 1 /\ row[column - 1].width # "Wide")
           -> [row EXCEPT ![column] = Blank]
      [] OTHER -> row
\* The same, leaving the continuations alone.
RepairLeads(row) ==
    [column \in 1..Len(row) |->
        IF /\ row[column].width = "Wide"
           /\ column = Len(row) \/ (column < Len(row) /\ row[column + 1].width # "Continuation")
          THEN Blank ELSE row[column]]
Repair(row) == FoldLeft(RepairCell, row, [column \in 1..Len(row) |-> column])

\* erase_range.
Erase(row, from, to) ==
    Repair([column \in 1..Len(row) |-> IF column \in from..to THEN Blank ELSE row[column]])

\* resize_row.
ResizeRow(row, columns) ==
    Repair([column \in 1..columns |-> IF column <= Len(row) THEN row[column] ELSE Blank])

\* reflow_rows: the cells of each row up to its last cell that is not blank, one
\* after the other into rows of the new width; what does not fit is dropped.
Put(at, cell, sz) ==
    LET wide == cell.width = "Wide" /\ sz.columns > 1
        width == IF wide THEN 2 ELSE 1
        next == IF at.column + width - 1 > sz.columns
                  THEN [at EXCEPT !.row = @ + 1, !.column = 1] ELSE at
        shown == IF cell.width = "Wide" /\ ~wide THEN [Blank EXCEPT !.text = "?"] ELSE cell
    IN IF next.row > sz.rows THEN [next EXCEPT !.row = sz.rows + 1]
       ELSE [rows |-> [next.rows EXCEPT
                 ![next.row][next.column] = shown,
                 ![next.row][IF wide THEN next.column + 1 ELSE next.column] =
                     IF wide THEN [Blank EXCEPT !.text = "", !.width = "Continuation"]
                     ELSE shown],
             row |-> next.row, column |-> next.column + width]
Reflow(rows, sz) ==
    LET content(row) ==
            SelectSeq(SubSeq(row, 1, SelectLastInSeq(row, LAMBDA cell : ~IsBlank(cell))),
                      LAMBDA cell : cell.width # "Continuation")
        line(at, row) ==
            LET end == FoldLeft(LAMBDA a, cell : Put(a, cell, sz), at, content(row))
            IN [end EXCEPT !.row = @ + 1, !.column = 1]
    IN FoldLeft(line, [rows |-> BlankRows(sz), row |-> 1, column |-> 1], rows).rows

AtMost(a, b) == IF a <= b THEN a ELSE b
AtLeast(a, b) == IF a >= b THEN a ELSE b

\* resize_screen: the cursor is clamped to the new size, the saved one is not.
ResizeScreen(screen, sz) ==
    [rows |-> IF Len(screen.rows[1]) = sz.columns
                THEN [row \in 1..sz.rows |->
                        IF row <= Len(screen.rows) THEN ResizeRow(screen.rows[row], sz.columns)
                        ELSE BlankRow(sz.columns)]
                ELSE Reflow(screen.rows, sz),
     row |-> AtMost(screen.row, sz.rows), column |-> AtMost(screen.column, sz.columns),
     wrap |-> FALSE, top |-> 1, bottom |-> sz.rows, saved |-> screen.saved]

\* active_ref.
Screen == IF active = "Primary" THEN primary ELSE alternate

\* active_mut: an operation leaves this screen active.
Becomes(screen) ==
    IF active = "Primary" THEN primary' = screen /\ UNCHANGED alternate
    ELSE alternate' = screen /\ UNCHANGED primary

\* The indexing of an operation is inside the screen, or the thread panics.
Indexes(inside, effect) ==
    IF inside THEN effect /\ UNCHANGED panicked
    ELSE panicked' = TRUE /\ UNCHANGED <<primary, alternate, scrollback>>

InRow(screen) == screen.row <= size.rows
Inside(screen) == InRow(screen) /\ screen.column <= size.columns

\* One dispatched character, control or sequence.
Applied ==
    /\ ~panicked
    /\ output < MaxOutput
    /\ output' = output + 1
    /\ UNCHANGED <<resizes, size>>

\* The performer's own state is not touched.
OnGrid == Applied /\ UNCHANGED <<active, pen, targets, modes>>

\* The rows of a screen without row n of its region's part from..to, a blank one in.
Shifted(screen, out, in) ==
    [screen EXCEPT !.rows = InsertAt(RemoveAt(@, out), in, BlankRow(size.columns)), !.wrap = FALSE]

\* The same, keeping the rows that leave any region.
ScrolledUpAlways(screen) ==
    [screen |-> [screen EXCEPT
                    !.rows = InsertAt(RemoveAt(@, screen.top), screen.bottom, BlankRow(size.columns))],
     kept |-> <<screen.rows[screen.top]>>]

\* scroll_region_up_one: the rows that leave a full primary screen are kept.
ScrolledUp(screen) ==
    [screen |-> [screen EXCEPT
                    !.rows = InsertAt(RemoveAt(@, screen.top), screen.bottom, BlankRow(size.columns))],
     kept |-> IF active = "Primary" /\ screen.top = 1 /\ screen.bottom = Len(screen.rows)
                THEN <<screen.rows[screen.top]>> ELSE <<>>]
\* scrollback.pop_front and push_back.
Kept(rows) ==
    LET all == scrollback \o rows
    IN SubSeq(all, AtLeast(1, Len(all) - ScrollbackLimit + 1), Len(all))

\* line_feed.
LineFed(screen) ==
    LET scrolled == ScrolledUp(screen)
    IN IF screen.row = screen.bottom
         THEN [screen |-> [scrolled.screen EXCEPT !.wrap = FALSE], kept |-> scrolled.kept]
         ELSE [screen |-> [screen EXCEPT !.row = IF @ < size.rows THEN @ + 1 ELSE @,
                                         !.wrap = FALSE],
               kept |-> <<>>]

\* write_character, for a character of width 1 or 2.
Written(screen, text, width) ==
    LET wraps == screen.wrap \/ (width = 2 /\ screen.column + 1 > size.columns)
        moved == IF wraps THEN LineFed([screen EXCEPT !.column = 1, !.wrap = FALSE])
                 ELSE [screen |-> screen, kept |-> <<>>]
        at == moved.screen
        wide == width = 2 /\ size.columns > 1
        next == at.column + (IF wide THEN 2 ELSE 1)
        lead == Cell(IF width = 2 /\ ~wide THEN "?" ELSE text,
                     IF wide THEN "Wide" ELSE "Single", pen)
        line == [at.rows[at.row] EXCEPT ![at.column] = lead]
    IN [at |-> at, kept |-> moved.kept,
        screen |-> [at EXCEPT
            !.rows = [@ EXCEPT ![at.row] =
                IF wide THEN [line EXCEPT ![at.column + 1] = Cell("", "Continuation", pen)]
                ELSE line],
            !.column = IF next > size.columns THEN size.columns ELSE next,
            !.wrap = next > size.columns]]
\* print and print_styled.
PrintCharacter(text, width) ==
    LET written == Written(Screen, text, width)
    IN /\ OnGrid
       /\ Indexes(Inside(written.at),
                  Becomes(written.screen) /\ scrollback' = Kept(written.kept))

\* append_combining: the mark joins the cell before the cursor.
PrintCombining ==
    LET screen == Screen
        before == IF screen.wrap THEN screen.column ELSE AtLeast(1, screen.column - 1)
        line == screen.rows[screen.row]
        target == IF line[before].width = "Continuation" THEN AtLeast(1, before - 1) ELSE before
        marked == IF line[target].width = "Continuation" THEN line
                  ELSE [line EXCEPT ![target].text = "marked"]
    IN /\ OnGrid
       /\ Indexes(InRow(screen) /\ before <= size.columns,
                  Becomes([screen EXCEPT !.rows[screen.row] = marked]) /\ UNCHANGED scrollback)

\* print of '\r', '\n' and the backspace; ESC D, ESC E.
CarriageReturn ==
    OnGrid /\ Becomes([Screen EXCEPT !.column = 1, !.wrap = FALSE]) /\ UNCHANGED <<scrollback, panicked>>
Backspace ==
    OnGrid /\ Becomes([Screen EXCEPT !.column = AtLeast(1, @ - 1), !.wrap = FALSE])
           /\ UNCHANGED <<scrollback, panicked>>
LineFeed(returns) ==
    LET fed == LineFed(IF returns THEN [Screen EXCEPT !.column = 1] ELSE Screen)
    IN OnGrid /\ Becomes(fed.screen) /\ scrollback' = Kept(fed.kept) /\ UNCHANGED panicked

\* set_cursor and move_cursor: clamped to the screen.
CursorAt(row, column) ==
    /\ OnGrid
    /\ Becomes([Screen EXCEPT !.row = AtLeast(1, AtMost(row, size.rows)),
                              !.column = AtLeast(1, AtMost(column, size.columns)), !.wrap = FALSE])
    /\ UNCHANGED <<scrollback, panicked>>
SetCursor(row, column) == CursorAt(row, column)
MoveCursor(rows, columns) == CursorAt(Screen.row + rows, Screen.column + columns)

\* save_cursor and restore_cursor (ESC 7, ESC 8, CSI s, CSI u).
SaveCursor ==
    OnGrid /\ Becomes([Screen EXCEPT !.saved = [row |-> Screen.row, column |-> Screen.column]])
           /\ UNCHANGED <<scrollback, panicked>>
RestoreCursor ==
    LET saved == Screen.saved
    IN /\ OnGrid
       /\ saved # None
       /\ Becomes([Screen EXCEPT !.row = saved.row, !.column = saved.column, !.wrap = FALSE])
       /\ UNCHANGED <<scrollback, panicked>>

\* erase_in_display.
EraseInDisplay(mode) ==
    LET screen == Screen
        blank(row) == (mode = "Below" /\ row > screen.row) \/ (mode = "Above" /\ row < screen.row)
                      \/ mode = "All"
        erased(row) == IF blank(row) THEN BlankRow(size.columns)
                       ELSE IF row # screen.row THEN screen.rows[row]
                       ELSE IF mode = "Below" THEN Erase(screen.rows[row], screen.column, size.columns)
                       ELSE Erase(screen.rows[row], 1, screen.column)
    IN /\ OnGrid
       /\ Indexes(mode = "All" \/ Inside(screen)
                  \/ (mode = "Below" /\ InRow(screen) /\ screen.column = size.columns + 1),
                  /\ Becomes([screen EXCEPT !.rows = [row \in 1..size.rows |-> erased(row)],
                                            !.wrap = FALSE])
                  /\ UNCHANGED scrollback)

\* erase_in_line.
EraseInLine(mode) ==
    LET screen == Screen
        from == IF mode = "Right" THEN screen.column ELSE 1
        to == IF mode = "Left" THEN screen.column ELSE size.columns
    IN /\ OnGrid
       /\ Indexes(InRow(screen) /\ from <= size.columns + 1 /\ to <= size.columns,
                  /\ Becomes([screen EXCEPT !.rows[screen.row] = Erase(@, from, to), !.wrap = FALSE])
                  /\ UNCHANGED scrollback)

\* insert_blank_characters and delete_characters.
EditCharacters(count, inserts) ==
    LET screen == Screen
        line == screen.rows[screen.row]
        n == AtMost(count, size.columns - screen.column + 1)
        before == SubSeq(line, 1, screen.column - 1)
        edited == IF inserts
                    THEN SubSeq(before \o BlankRow(n)
                                  \o SubSeq(line, screen.column, size.columns), 1, size.columns)
                    ELSE before \o SubSeq(line, screen.column + n, size.columns) \o BlankRow(n)
    IN /\ OnGrid
       /\ Indexes(InRow(screen) /\ screen.column <= size.columns + 1,
                  /\ Becomes([screen EXCEPT !.rows[screen.row] = Repair(edited), !.wrap = FALSE])
                  /\ UNCHANGED scrollback)

\* insert_blank_lines and delete_lines: nothing outside the scroll region.
EditLines(count, inserts) ==
    LET screen == Screen
        n == AtMost(count, screen.bottom - screen.row + 1)
        one(s, k) == IF inserts THEN Shifted(s, screen.bottom, screen.row)
                     ELSE Shifted(s, screen.row, screen.bottom)
    IN /\ OnGrid
       /\ screen.row \in screen.top..screen.bottom
       /\ Becomes(FoldLeft(one, screen, [k \in 1..n |-> k]))
       /\ UNCHANGED <<scrollback, panicked>>

\* scroll_up (CSI S) by one line, and reverse_index (ESC M).
ScrollUp ==
    LET scrolled == ScrolledUp(Screen)
    IN OnGrid /\ Becomes(scrolled.screen) /\ scrollback' = Kept(scrolled.kept) /\ UNCHANGED panicked
ReverseIndex ==
    /\ OnGrid
    /\ Becomes(IF Screen.row = Screen.top THEN Shifted(Screen, Screen.bottom, Screen.top)
               ELSE [Screen EXCEPT !.row = AtLeast(1, @ - 1), !.wrap = FALSE])
    /\ UNCHANGED <<scrollback, panicked>>

\* set_scroll_region: the bottom is cut to the screen; an empty region is discarded.
SetScrollRegion(top, bottom) ==
    LET last == AtMost(bottom, size.rows)
    IN /\ OnGrid
       /\ top <= last
       /\ Becomes([Screen EXCEPT !.top = top, !.bottom = last, !.row = top, !.column = 1,
                                 !.wrap = FALSE])
       /\ UNCHANGED <<scrollback, panicked>>

\* set_private_modes: the alternate screen starts blank each time it is entered.
EnterAlternateScreen ==
    /\ Applied
    /\ alternate' = NewScreen(size)
    /\ active' = "Alternate"
    /\ UNCHANGED <<primary, scrollback, pen, targets, modes, panicked>>
LeaveAlternateScreen ==
    /\ Applied
    /\ active' = "Primary"
    /\ UNCHANGED <<primary, alternate, scrollback, pen, targets, modes, panicked>>
SetMode(mode, enabled) ==
    /\ Applied
    /\ modes' = IF enabled THEN modes \cup {mode} ELSE modes \ {mode}
    /\ UNCHANGED <<primary, alternate, active, scrollback, pen, targets, panicked>>

\* apply_sgr: parameter 0 resets the whole pen, the link with it.
ApplySgr(style) ==
    /\ Applied
    /\ pen' = IF style = "Default" THEN [style |-> "Default", link |-> None]
              ELSE [pen EXCEPT !.style = style]
    /\ UNCHANGED <<primary, alternate, active, scrollback, targets, modes, panicked>>

\* apply_hyperlink: an empty target ends the link; at the bound the sequence is
\* discarded and the pen keeps the link it had.
ApplyHyperlink(ends) ==
    /\ Applied
    /\ CASE ends -> pen' = [pen EXCEPT !.link = None] /\ UNCHANGED targets
         [] ~ends /\ targets < MaxLinks -> targets' = targets + 1
                                           /\ pen' = [pen EXCEPT !.link = targets + 1]
         [] OTHER -> UNCHANGED <<pen, targets>>
    /\ UNCHANGED <<primary, alternate, active, scrollback, modes, panicked>>

\* The same, leaving the scrollback as wide as it was.
ResizeVisible(sz) ==
    /\ ~panicked
    /\ resizes < MaxResizes
    /\ resizes' = resizes + 1
    /\ sz # size
    /\ size' = sz
    /\ primary' = ResizeScreen(primary, sz)
    /\ alternate' = ResizeScreen(alternate, sz)
    /\ UNCHANGED <<active, pen, targets, modes, panicked, output, scrollback>>

\* Grid::resize.
Resize(sz) ==
    /\ ~panicked
    /\ resizes < MaxResizes
    /\ resizes' = resizes + 1
    /\ sz # size
    /\ size' = sz
    /\ primary' = ResizeScreen(primary, sz)
    /\ alternate' = ResizeScreen(alternate, sz)
    /\ scrollback' = [row \in 1..Len(scrollback) |-> ResizeRow(scrollback[row], sz.columns)]
    /\ UNCHANGED <<active, pen, targets, modes, panicked, output>>
\* Grid::snapshot: the rows of the viewport.
Viewport(offset) ==
    LET up == IF active = "Primary" THEN AtMost(offset, Len(scrollback)) ELSE 0
        all == scrollback \o Screen.rows
        end == Len(all) - up
    IN IF up = 0 THEN Screen.rows ELSE SubSeq(all, end - size.rows + 1, end)

-----------------------------------------------------------------------------
ScreenInit ==
    /\ size = InitialSize
    /\ primary = NewScreen(size)
    /\ alternate = NewScreen(size)
    /\ active = "Primary"
    /\ scrollback = <<>>
    /\ pen = [style |-> "Default", link |-> None]
    /\ targets = 0
    /\ modes = {}
    /\ panicked = FALSE
    /\ output = 0
    /\ resizes = 0

Output ==
    \/ PrintCharacter("a", 1)
    \/ PrintCharacter("W", 2)
    \/ PrintCombining
    \/ CarriageReturn
    \/ Backspace
    \/ \E returns \in BOOLEAN : LineFeed(returns)
    \/ \E row, column \in {1, 2, 9} : SetCursor(row, column)
    \/ \E by \in {-1, 1} : MoveCursor(by, 0) \/ MoveCursor(0, by)
    \/ SaveCursor
    \/ RestoreCursor
    \/ \E mode \in {"Below", "Above", "All"} : EraseInDisplay(mode)
    \/ \E mode \in {"Right", "Left", "All"} : EraseInLine(mode)
    \/ \E count \in {1, 9}, inserts \in BOOLEAN :
           EditCharacters(count, inserts) \/ EditLines(count, inserts)
    \/ ScrollUp
    \/ ReverseIndex
    \/ \E top \in {1, 2}, bottom \in {1, 9} : SetScrollRegion(top, bottom)
    \/ EnterAlternateScreen
    \/ LeaveAlternateScreen
    \/ \E mode \in Modes, enabled \in BOOLEAN : SetMode(mode, enabled)
    \/ \E style \in {"Default", "Styled"} : ApplySgr(style)
    \/ \E ends \in BOOLEAN : ApplyHyperlink(ends)

ScreenNext == Output \/ \E sz \in Sizes : Resize(sz)

ScreenSpec == ScreenInit /\ [][ScreenNext]_screenVars
-----------------------------------------------------------------------------
CellType == [text : {" ", "a", "W", "?", "", "marked"}, width : {"Single", "Wide", "Continuation"},
             style : {"Default", "Styled"}, link : 1..MaxLinks \cup {None}]

\* Type invariant.
ScreenTypeOK ==
    /\ size \in Sizes
    /\ \A screen \in {primary, alternate} :
         /\ screen.top \in 1..screen.bottom /\ screen.bottom \in 1..size.rows
         /\ \A row \in Range(screen.rows) : Range(row) \subseteq CellType
    /\ active \in {"Primary", "Alternate"}
    /\ Len(scrollback) <= ScrollbackLimit
    /\ pen \in [style : {"Default", "Styled"}, link : 1..MaxLinks \cup {None}]
    /\ targets \in 0..MaxLinks
    /\ modes \subseteq Modes
    /\ panicked \in BOOLEAN

\* Every row of both screens and of the scrollback has the width of the pane and every
\* viewport its height, whatever mix of edits, scrolling and resizes made them: the rows
\* that resize, insert and splice leave are what the next operation and the copy of a
\* selection index without a check.
RowsAreWhole ==
    /\ \A screen \in {primary, alternate} :
         Len(screen.rows) = size.rows /\ \A row \in Range(screen.rows) : Len(row) = size.columns
    /\ \A offset \in 0..ScrollbackLimit :
         LET rows == Viewport(offset)
         IN Len(rows) = size.rows /\ \A row \in Range(rows) : Len(row) = size.columns

\* A continuation cell that follows its lead.
NoOrphans(row) ==
    \A column \in 1..Len(row) :
        row[column].width = "Continuation" =>
            column > 1 /\ row[column - 1].width = "Wide"

\* Resizing and erasure never leave an orphan continuation, although printing over half
\* of a wide character does: each resize and each erase repairs what overwriting left.
ErasureRepairs ==
    [][/\ size' # size => \A row \in Range(primary'.rows \o alternate'.rows \o scrollback') : NoOrphans(row)
       /\ output' # output /\ ~panicked' /\ (\E mode \in {"Right", "Left", "All"} : EraseInLine(mode)) =>
              NoOrphans(Screen'.rows[Screen.row])]_screenVars

\* A program on the alternate screen never disturbs the primary screen or the scrollback
\* behind it, unless the pane is resized: what is left when it ends is what was there.
AlternateLeavesHistory ==
    [][active = "Alternate" /\ size' = size => primary' = primary /\ scrollback' = scrollback]_screenVars

\* No output makes the terminal model index outside its screen.  (It does: resize clamps
\* the cursor but not the saved cursor, which restore_cursor then takes as it is.)
NeverPanics == ~panicked
=============================================================================
