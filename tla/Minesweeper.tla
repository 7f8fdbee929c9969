------------------------------ MODULE Minesweeper ------------------------------
(***************************************************************************)
(* The games plugin's minesweeper: the rules (games/main.go) and the keys  *)
(* (games/minesweeper.go).  One game is one call of Play; its state is the *)
(* msGame that runMinesweeper keeps.                                       *)
(*                                                                         *)
(* Keys act on the table position that is selected.  The picture has       *)
(* PadCols columns of padding and one of row numbers left of the field,    *)
(* getCell subtracts one column only.                                      *)
(***************************************************************************)
EXTENDS Integers, FiniteSets

CONSTANTS DefaultSide,  \* width and height when the request has none; 9
          DefaultBombs, \* 10
          Widths, Heights, BombCounts  \* what requests ask for

ASSUME MinesAssumption ==
    /\ DefaultSide \in Nat \ {0} /\ DefaultBombs \in Nat \ {0}
    /\ Widths \cup Heights \cup BombCounts \subseteq Int

PadCols == 4

VARIABLE mines  \* the running game, or NoMines

\* play: "idle" before the call, "on", "over" when Play has answered won or not.
NoMines == [play |-> "idle", w |-> 0, h |-> 0, bombs |-> 0, flags |-> 0, at |-> {},
            st |-> <<>>, over |-> FALSE, won |-> FALSE]

Field(w, h) == (0 .. w - 1) \X (0 .. h - 1)
Cells == Field(mines.w, mines.h)
Neighbours(c) == {d \in Cells : d # c /\ d[1] - c[1] \in -1 .. 1 /\ d[2] - c[2] \in -1 .. 1}

\* n: the number drawn on a cell.
AdjacentBombs(c) == Cardinality(Neighbours(c) \cap mines.at)

\* The clamps of Play, which runMinesweeper repeats.
Clamped(v, default) == IF v <= 0 THEN default ELSE v
ClampedBombs(b, w, h) ==
    IF Clamped(b, DefaultBombs) >= w * h THEN w * h - 1 ELSE Clamped(b, DefaultBombs)

\* newMS: distinct random cells get the bombs.
Deal(w, h, bombs) ==
    \E at \in SUBSET Field(w, h) :
        /\ Cardinality(at) = bombs
        /\ mines' = [play |-> "on", w |-> w, h |-> h, bombs |-> bombs, flags |-> bombs, at |-> at,
                     st |-> [c \in Field(w, h) |-> "hidden"], over |-> FALSE, won |-> FALSE]

PlayMines ==
    /\ mines.play = "idle"
    /\ \E w0 \in Widths, h0 \in Heights, b \in BombCounts :
           LET w == Clamped(w0, DefaultSide)
               h == Clamped(h0, DefaultSide)
           IN Deal(w, h, ClampedBombs(b, w, h))

\* reveal calls itself for the neighbours of a cell without adjacent bombs; it
\* returns at once for a cell that is not hidden.
Opened(c) ==
    {c} \cup {d \in Neighbours(c) : mines.st[d] = "hidden" /\ c \notin mines.at /\ AdjacentBombs(c) = 0}
Spread(S) == UNION {Opened(c) : c \in S}
\* A flood that does not look at the number of the cell it spreads from.
FloodUnguarded(S) == S \cup UNION {Neighbours(c) : c \in S}
\* A flood is over after as many rounds as there are cells.
Flood(S) ==
    LET flood[n \in 0 .. Cardinality(Cells)] == IF n = 0 THEN S ELSE Spread(flood[n - 1])
    IN flood[Cardinality(Cells)]

\* win
AllSafeRevealed(st) == \A c \in Cells \ mines.at : st[c] = "revealed"

reveal(c) ==
    /\ mines.st[c] = "hidden"
    /\ mines' = LET all == Flood({c})
                    st == [d \in Cells |-> IF d \in all THEN "revealed" ELSE mines.st[d]]
                IN [mines EXCEPT !.st = st, !.over = @ \/ c \in mines.at, !.won = AllSafeRevealed(st)]

toggleFlag(c) ==
    \/ mines.st[c] = "hidden"  /\ mines' = [mines EXCEPT !.st[c] = "flagged", !.flags = @ - 1]
    \/ mines.st[c] = "flagged" /\ mines' = [mines EXCEPT !.st[c] = "hidden", !.flags = @ + 1]

\* getCell, for any position that the arrow keys can select.
TablePositions == (0 .. mines.h) \X (0 .. mines.w + 2 * PadCols)
getCell(p) == <<p[2] - 1, p[1] - 1>>

Ended == mines.over \/ mines.won
RevealKey ==
    /\ mines.play = "on" /\ ~Ended
    /\ \E p \in TablePositions : getCell(p) \in Cells /\ reveal(getCell(p))
FlagKey ==
    /\ mines.play = "on" /\ ~Ended
    /\ \E p \in TablePositions : getCell(p) \in Cells /\ toggleFlag(getCell(p))
RestartKey == mines.play = "on" /\ Ended /\ Deal(mines.w, mines.h, mines.bombs)
\* 'q', or the loss of the terminal.
QuitMines == mines.play = "on" /\ mines' = [mines EXCEPT !.play = "over"]

MinesInit == mines = NoMines
MinesNext == PlayMines \/ RevealKey \/ FlagKey \/ RestartKey \/ QuitMines

-------------------------------------------------------------------------------
\* What the window shows: bombs left to flag, and how the game went.
Revealed == {c \in Cells : mines.st[c] = "revealed"}
Flagged == {c \in Cells : mines.st[c] = "flagged"}

\* The counter of flags and the two verdicts agree with the field after any
\* sequence of keys: the game is lost exactly when one bomb was revealed, the one
\* under the key, since a flood stops before bombs and flags; it is won exactly
\* when every other cell is; it is never both.
MinefieldAddsUp ==
    mines.play # "idle" =>
        /\ mines.flags = mines.bombs - Cardinality(Flagged)
        /\ Cardinality(mines.at) = mines.bombs
        /\ Cardinality(Revealed \cap mines.at) = (IF mines.over THEN 1 ELSE 0)
        /\ mines.won => Revealed = Cells \ mines.at
        /\ Revealed = Cells \ mines.at /\ Revealed # {} => mines.won
================================================================================
