----------------------------- MODULE TypedPaper -----------------------------
(***************************************************************************)
(* What the text console promises: a typewriter on an endless roll of      *)
(* paper.  The screen is the last Rows lines of the roll.  The roll grows  *)
(* by a line when the carriage leaves its last line.                       *)
(***************************************************************************)
EXTENDS Integers, SequencesExt

CONSTANTS Columns, Rows, TabWidth

VARIABLES paper,   \* the cells of the roll, line after line
          at,      \* the carriage: the index of the next cell, from 0
          ink      \* the attribute of what is typed

paperVars == <<paper, at, ink>>

Cell(character, attribute) == [character |-> character, attribute |-> attribute]
Graphical(character) == character \notin {" "}
ScreenLen == Columns * Rows
ScreenTop == Len(paper) - ScreenLen

\* What a character looks like: a question mark unless it is printable ASCII.
Shown(ch) == IF ch \in {"wide", "control"} THEN "?" ELSE ch

\* The cells from 'from' up to 'to' get a glyph, and the carriage is at 'to'.
Fill(roll, from, to, glyph) ==
    [cells |-> [i \in 1 .. Len(roll.cells) |->
                   IF from < i /\ i <= to THEN glyph ELSE roll.cells[i]],
     at |-> to]

FeedLine(roll, attribute) ==
    IF roll.at < Len(roll.cells) THEN roll
    ELSE [roll EXCEPT !.cells = @ \o [i \in 1 .. Columns |-> Cell(" ", attribute)]]

TypeCharacter(roll, ch, attribute) ==
    LET line == roll.at - (roll.at % Columns)
        column == roll.at % Columns
        to == CASE ch = "nl"  -> line + Columns
                [] ch = "cr"  -> line
                [] ch = "tab" -> line + Min({column - (column % TabWidth) + TabWidth, Columns})
                [] OTHER      -> roll.at + 1
        glyph == Cell(IF ch \in {"nl", "tab"} THEN " " ELSE Shown(ch), attribute)
    IN FeedLine(Fill(roll, roll.at, to, glyph), attribute)

TypeText(roll, text, attribute) ==
    FoldLeft(LAMBDA r, ch : TypeCharacter(r, ch, attribute), roll, text)

Roll == [cells |-> paper, at |-> at]
RollBecomes(roll) == paper' = roll.cells /\ at' = roll.at

\* Text of whatever ran before is kept and the carriage goes below it.
Start(cursor) ==
    LET from == Min({cursor, Len(paper)})
        end == Max({from} \cup {i \in from + 1 .. Len(paper) : Graphical(paper[i].character)})
        kept == [Fill(Roll, end, Len(paper), Cell(" ", ink)) EXCEPT !.at = end]
        lines == IF end = 0 THEN <<>> ELSE IF end % Columns = 0 THEN <<"nl">> ELSE <<"nl", "nl">>
    IN /\ RollBecomes(TypeText(FeedLine(kept, ink), lines, ink))
       /\ ink' = ink

Typing(text, attribute) == RollBecomes(TypeText(Roll, text, attribute)) /\ ink' = ink

\* The carriage moves as the text tells it to, whatever is typed.
Moving(text, attribute) == at' = TypeText(Roll, text, attribute).at /\ ink' = ink

Dip(attribute) == ink' = attribute /\ UNCHANGED <<paper, at>>

Turn(position) == at' = ScreenTop + position /\ UNCHANGED <<paper, ink>>

Wipe ==
    /\ RollBecomes([Fill(Roll, ScreenTop, Len(paper), Cell(" ", ink)) EXCEPT !.at = ScreenTop])
    /\ ink' = ink
=============================================================================
