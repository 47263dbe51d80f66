-------------------------------- MODULE Console --------------------------------
(***************************************************************************)
(* What outchar of console.c does to the screen, character by character:   *)
(* a page of Rows times Cols cells, and POSS, the place of the next one.   *)
(* A character is LF, CR or a natural number, which is drawn.              *)
(***************************************************************************)
EXTENDS Integers, Sequences

CONSTANTS
  Cols,         \* characters of a line: HRES / 8
  Rows          \* lines of the screen: VRES / 16

ASSUME ConsoleAssumption == Cols \in Nat \ {0} /\ Rows \in Nat \ {0}

Cells == 0 .. Rows * Cols - 1

Blank == -1
LF    == -2
CR    == -3

Control == {LF, CR}

Cleared == [i \in Cells |-> Blank]

DrawChar(screen, poss, char) ==
  IF char \in Control THEN screen ELSE [screen EXCEPT ![poss] = char]

Moved(poss, char) ==
  CASE char = CR -> poss - (poss % Cols)
    [] char = LF -> poss + Cols - (poss % Cols)
    [] OTHER       -> poss + 1

Below(poss) == poss \div Cols >= Rows

(* Every line moves up by one, and the last one keeps what it had ...       *)
ScrollKeepsLast(screen) ==
  [i \in Cells |-> IF i + Cols \in Cells THEN screen[i + Cols] ELSE screen[i]]

(* ... or is cleared, as in the code.                                       *)
ScrollLine(screen) ==
  [i \in Cells |-> IF i + Cols \in Cells THEN screen[i + Cols] ELSE Blank]

-----------------------------------------------------------------------------
(* What the text means: written on a page without end, of which the screen  *)
(* shows the Rows lines that end with the line of the cursor, if it shows   *)
(* not the first ones.                                                      *)
NextCell(page, char) ==
  [poss |-> Moved(page.poss, char),
   cell |-> IF char \in Control THEN page.cell ELSE [page.cell EXCEPT ![page.poss] = char]]

PageOf(text) ==
  LET page[n \in 0 .. Len(text)] ==
        IF n = 0 THEN [poss |-> 0, cell |-> [i \in 0 .. (Len(text) + Rows + 1) * Cols |-> Blank]]
        ELSE NextCell(page[n - 1], text[n])
  IN  page[Len(text)]

FirstShown(page) ==
  IF Below(page.poss) THEN (page.poss \div Cols - Rows + 1) * Cols ELSE 0

Shows(screen, poss, text) ==
  LET page == PageOf(text)
      top  == FirstShown(page)
  IN  /\ poss = page.poss - top
      /\ \A i \in Cells : screen[i] = page.cell[top + i]
=============================================================================
