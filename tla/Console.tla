------------------------------ MODULE Console ------------------------------
(***************************************************************************)
(* The VGA text console of text/src: the Grid of glyphs in video memory,   *)
(* the hardware cursor and the serial port that gets a copy.  The lock of  *)
(* TEXT is held during every operation, so each one is a single action.    *)
(* A character is the one it shows, or one of "nl", "cr", "tab", "control" *)
(* (any other unprintable octet) and "wide" (a character above 0xFF whose  *)
(* low octet is printable).                                                *)
(***************************************************************************)
EXTENDS Integers, FiniteSets, SequencesExt

CONSTANTS Columns, Rows, TabWidth,
          OctetSize,      \* values of an octet of a cursor register
          Texts,          \* arguments of write_str()
          Inks,           \* attributes
          BootScreens,    \* what the boot loader may leave on the screen
          BootCursors,    \* where it may leave the cursor
          Positions,      \* arguments of set_position()
          MaxTextCalls    \* bound on operations, Text::init() included

ASSUME ConsoleConstants ==
    /\ Columns >= 4 /\ Rows >= 3 /\ TabWidth > 0
    /\ Columns * Rows < OctetSize * OctetSize

VARIABLES grid,     \* Grid: [buffer, column, rowStart, attribute], with the cells scrolled off
                    \* as the history 'gone', and 'fault' for an index out of range
          cursor,   \* the registers of VgaCursor: [high, low, start, end, disabled]
          serial,   \* octets that the last operation sent to the serial port
          textCalls \* operations so far: Text::init() is the first one

consoleVars == <<grid, cursor, serial, textCalls>>

GridLen == Columns * Rows
CursorLines == 16   \* MAX_LINES
Glyph(character, attribute) == [character |-> character, attribute |-> attribute]
BlankGlyph(g) == Glyph(" ", g.attribute)
IsPrintable(octet) == octet # "control"
IsGraphical(octet) == octet # " " /\ IsPrintable(octet)
Position(g) == g.rowStart + g.column

\* ch as u8
AsOctet(ch) == IF ch = "wide" THEN "a" ELSE ch

Clear(g, from, to) ==
    [g EXCEPT !.buffer = [i \in DOMAIN @ |-> IF from <= i /\ i < to THEN BlankGlyph(g) ELSE @[i]],
              !.fault = @ \/ (from < to /\ to > GridLen)]

Scroll(g) ==
    LET moved == [g EXCEPT
            !.gone = @ \o [i \in 1 .. Columns |-> g.buffer[i - 1]],
            !.buffer = [i \in DOMAIN @ |-> IF i < GridLen - Columns THEN @[i + Columns] ELSE @[i]],
            !.rowStart = IF @ >= Columns THEN @ - Columns ELSE @]
    IN Clear(moved, GridLen - Columns, GridLen)

AdjustPosition(g) ==
    LET wrapped == IF g.column >= Columns
                   THEN [g EXCEPT !.column = 0, !.rowStart = @ + Columns] ELSE g
    IN IF wrapped.rowStart >= GridLen THEN Scroll(wrapped) ELSE wrapped

\* Writes a glyph at the position, if it is on the screen, and steps right.
PutGlyph(g, glyph) ==
    LET at == Position(g) IN
    AdjustPosition([g EXCEPT !.buffer = IF at < GridLen THEN [@ EXCEPT ![at] = glyph] ELSE @,
                             !.column = @ + 1])

Character(g, ch) ==
    LET octet == AsOctet(ch) IN
    PutGlyph(g, Glyph(IF IsGraphical(octet) \/ octet = " " THEN octet ELSE "?", g.attribute))

Newline(g) ==
    LET at == Position(g)
        lineEnd == (at \div Columns) * Columns + Columns
        cleared == Clear(g, at, lineEnd)
    IN AdjustPosition([cleared EXCEPT !.column = 0, !.rowStart = @ + Columns])

TabUnclipped(g) ==
    LET stop == ((g.column \div TabWidth) + 1) * TabWidth
    IN FoldLeft(LAMBDA h, i : PutGlyph(h, BlankGlyph(h)), g, [i \in 1 .. stop - g.column |-> i])
Tab(g) ==
    LET stop == Min({((g.column \div TabWidth) + 1) * TabWidth, Columns})
    IN FoldLeft(LAMBDA h, i : PutGlyph(h, BlankGlyph(h)), g, [i \in 1 .. stop - g.column |-> i])

PrintCharacter(g, ch) ==
    CASE ch = "tab" -> Tab(g)
      [] ch = "cr"  -> [g EXCEPT !.column = 0]
      [] ch = "nl"  -> Newline(g)
      [] OTHER      -> Character(g, ch)

\* VgaCursor::set(), get(), set_height() and set_disable().
CursorSet(c, position) ==
    [c EXCEPT !.high = (position \div OctetSize) % OctetSize, !.low = position % OctetSize]
CursorGet(c) == c.high * OctetSize + c.low
CursorSetHeight(c, height) ==
    [c EXCEPT !.start = IF height > CursorLines THEN 0 ELSE CursorLines - height,
              !.end = CursorLines - 1]
CursorSetDisable(c, disable) == [c EXCEPT !.disabled = disable]

\* Text::write_str()
WriteStr(g, text) == FoldLeft(PrintCharacter, g, text)

\* printed_data_end() and log_printed_data() of Grid::init().
PrintedDataEnd(g, position) ==
    LET from == Min({position, GridLen})
    IN Max({from} \cup {i + 1 : i \in {j \in from .. GridLen - 1 : IsGraphical(g.buffer[j].character)}})

\* A line of the log: the octets up to the last graphical one of the line.
LoggedLine(g, from, to) ==
    LET last == Max({from} \cup {i + 1 : i \in {j \in from .. to - 1 : IsGraphical(g.buffer[j].character)}})
    IN [i \in 1 .. last - from |-> g.buffer[from + i - 1].character]

LogPrintedData(g, end) ==
    LET full == end \div Columns
        line(n) == LoggedLine(g, n * Columns, Min({(n + 1) * Columns, end}))
    IN FlattenSeq([n \in 1 .. full |-> line(n - 1) \o <<"nl">>]) \o line(full)

GridInit(g, end) ==
    LET logged == [g EXCEPT !.column = end % Columns, !.rowStart = end - (end % Columns)]
    IN IF logged.rowStart >= GridLen THEN Scroll(logged) ELSE Clear(logged, end, GridLen)

ConsoleInit ==
    /\ grid \in {[buffer |-> [i \in 0 .. GridLen - 1 |-> Glyph(screen[i], "boot")], column |-> 0,
                  rowStart |-> 0, attribute |-> "gray", gone |-> <<>>, fault |-> FALSE]
                 : screen \in BootScreens}
    /\ cursor \in {CursorSetHeight(CursorSet([high |-> 0, low |-> 0, start |-> 0, end |-> 0,
                                              disabled |-> FALSE], p), 2) : p \in BootCursors}
    /\ serial = <<>>
    /\ textCalls = 0

TextReady == textCalls \in 1 .. MaxTextCalls - 1 /\ textCalls' = textCalls + 1

\* Text::init(), from init_subsystems() of kernel/src/lib.rs.
TextInit ==
    /\ textCalls = 0 /\ textCalls' = 1
    /\ LET end == PrintedDataEnd(grid, CursorGet(cursor))
           ready == GridInit(grid, end)
           lines == IF end = 0 THEN <<>> ELSE IF ready.column = 0 THEN <<"nl">> ELSE <<"nl", "nl">>
       IN /\ grid' = WriteStr(ready, lines)
          /\ cursor' = IF end = 0 THEN cursor ELSE CursorSet(cursor, Position(grid'))
          /\ serial' = LogPrintedData(grid, end) \o lines

WriteText(text) ==
    /\ TextReady
    /\ grid' = WriteStr(grid, text)
    /\ cursor' = CursorSet(cursor, Position(grid'))
    /\ serial' = text

\* print!(color(...)): the attribute is put back after the text.
PrintColored(text, attribute) ==
    /\ TextReady
    /\ grid' = [WriteStr([grid EXCEPT !.attribute = attribute], text) EXCEPT
                    !.attribute = grid.attribute]
    /\ cursor' = CursorSet(cursor, Position(grid'))
    /\ serial' = text

\* set_attribute(), which the panic handler of kernel/src/main.rs uses for all that follows.
SetAttribute(attribute) ==
    /\ TextReady
    /\ grid' = [grid EXCEPT !.attribute = attribute]
    /\ UNCHANGED <<cursor, serial>>

SetPosition(position) ==
    /\ TextReady
    /\ grid' = [grid EXCEPT !.column = position % Columns,
                            !.rowStart = position - (position % Columns)]
    /\ cursor' = CursorSet(cursor, position)
    /\ UNCHANGED serial

ClearScreen ==
    /\ TextReady
    /\ grid' = [Clear(grid, 0, GridLen) EXCEPT !.column = 0, !.rowStart = 0]
    /\ cursor' = CursorSet(cursor, 0)
    /\ UNCHANGED serial

ShapeCursor ==
    /\ TextReady
    /\ \/ \E height \in {0, 2} : cursor' = CursorSetHeight(cursor, height)
       \/ \E disable \in BOOLEAN : cursor' = CursorSetDisable(cursor, disable)
    /\ UNCHANGED <<grid, serial>>

ConsoleNext ==
    \/ TextInit
    \/ \E text \in Texts : WriteText(text) \/ \E a \in Inks : PrintColored(text, a)
    \/ \E a \in Inks : SetAttribute(a)
    \/ \E p \in Positions : SetPosition(p)
    \/ ClearScreen
    \/ ShapeCursor
-----------------------------------------------------------------------------
(* Properties *)

Paper == INSTANCE TypedPaper WITH
    paper <- grid.gone \o [i \in 1 .. GridLen |-> grid.buffer[i - 1]],
    at <- Len(grid.gone) + Position(grid),
    ink <- grid.attribute

\* print_character() with its scrolling, wrapping and tabulation shows the last lines of what a
\* typewriter would leave on an endless roll: no glyph is lost, repeated or moved, whatever mix
\* of lines that fill a row exactly, tabs at the edge and carriage returns came before.  Glyphs
\* are claimed only for texts of octets: of a wider character Grid::character() shows the low
\* octet where its documentation says '?', so that for a text with one only the carriage is.
ScreenIsTypedPaper ==
    [][ LET Typed(text, a) == IF "wide" \in Range(text) THEN Paper!Moving(text, a)
                              ELSE Paper!Typing(text, a) IN
        \/ TextInit /\ Paper!Start(CursorGet(cursor))
        \/ \E text \in Texts : \/ WriteText(text) /\ Typed(text, grid.attribute)
                               \/ \E a \in Inks : PrintColored(text, a) /\ Typed(text, a)
        \/ \E a \in Inks : SetAttribute(a) /\ Paper!Dip(a)
        \/ \E p \in Positions : SetPosition(p) /\ Paper!Turn(p)
        \/ ClearScreen /\ Paper!Wipe
        \/ ShapeCursor ]_consoleVars

\* The hardware cursor, two octet registers, is where the next character goes, which is always
\* on the screen, and no operation writes outside the video memory.
CursorFollowsText ==
    /\ ~grid.fault
    /\ textCalls > 0 =>
         Position(grid) < GridLen /\ CursorGet(cursor) = Position(grid)

\* The octets that Text::init() sends to the serial port are the screen that the boot loader left:
\* octet k of the log is on the line given by the ends of lines before it, and the graphical ones
\* are those of the screen, each in its row and column.
BootTextIsLogged ==
    [][ TextInit =>
        LET Ends(k) == {j \in 1 .. k - 1 : serial'[j] = "nl"}
            Logged == {<<Cardinality(Ends(k)), k - 1 - Max({0} \cup Ends(k)), serial'[k]>>
                       : k \in {j \in DOMAIN serial' : serial'[j] # "nl"}}
            Seen == {<<i \div Columns, i % Columns, grid.buffer[i].character>> : i \in 0 .. GridLen - 1}
        IN {x \in Logged : IsGraphical(x[3])} = {x \in Seen : IsGraphical(x[3])} ]_consoleVars

\* The console is a typewriter with a screen: print_character() with scrolling, wrapping and
\* tabulation shows the end of the typed roll, the hardware cursor stands where the next character
\* goes, and Text::init() logs the text of the boot loader where it stood.
ConsoleIsATypewriter == []CursorFollowsText /\ ScreenIsTypedPaper /\ BootTextIsLogged
=============================================================================
