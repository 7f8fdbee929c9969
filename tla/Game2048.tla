------------------------------- MODULE Game2048 --------------------------------
(***************************************************************************)
(* The games plugin's 2048: the rules (games/main.go) and the keys         *)
(* (games/g2048.go).                                                       *)
(***************************************************************************)
EXTENDS Integers, Sequences, FiniteSets, Sums

CONSTANTS Dim,     \* 4
          Target,  \* 2048
          Rows     \* rows, of any length, on which sl is compared with the rule

ASSUME TilesAssumption == Dim \in Nat /\ Dim >= 2 /\ Target \in Nat /\ Rows \subseteq Seq(Nat)

VARIABLE tiles  \* the running game, or NoTiles

\* grid[y][x]; sc, ov, wn as in g2048State; fours counts the 4s that appeared, for
\* the property below.
NoTiles == [play |-> "idle", grid |-> <<>>, sc |-> 0, ov |-> FALSE, wn |-> FALSE, fours |-> 0]
Empty2048 == [y \in 1 .. Dim |-> [x \in 1 .. Dim |-> 0]]
Places == (1 .. Dim) \X (1 .. Dim)
Free(grid) == {p \in Places : grid[p[1]][p[2]] = 0}

\* sp: a 2, rarely a 4, in a free cell, if there is one.
WithTile(g, p, v) == [g EXCEPT !.grid[p[1]][p[2]] = v, !.fours = IF v = 4 THEN @ + 1 ELSE @]
Spawned(g) == IF Free(g.grid) = {} THEN {g} ELSE {WithTile(g, p, v) : p \in Free(g.grid), v \in {2, 4}}

\* new2048
NewGames == UNION {Spawned(g) : g \in Spawned([NoTiles EXCEPT !.play = "on", !.grid = Empty2048])}
Play2048 == tiles.play = "idle" /\ tiles' \in NewGames

\* sl: a tile merges with the next of the same value; what a merge made does not
\* merge again.  The row so far has n tiles and zeros behind them; fresh: the last tile
\* may still merge.
NoneSlid(len) == [row |-> [i \in 1 .. len |-> 0], n |-> 0, sc |-> 0, fresh |-> FALSE]
\* A tile that a merge made merges again.
MergeAgain(acc, v) ==
    IF v = 0 THEN acc
    ELSE IF acc.n > 0 /\ acc.row[acc.n] = v
    THEN [acc EXCEPT !.row[acc.n] = 2 * v, !.sc = @ + 2 * v, !.fresh = FALSE]
    ELSE [acc EXCEPT !.row[acc.n + 1] = v, !.n = @ + 1, !.fresh = TRUE]
Merge(acc, v) ==
    IF v = 0 THEN acc
    ELSE IF acc.fresh /\ acc.row[acc.n] = v
    THEN [acc EXCEPT !.row[acc.n] = 2 * v, !.sc = @ + 2 * v, !.fresh = FALSE]
    ELSE [acc EXCEPT !.row[acc.n + 1] = v, !.n = @ + 1, !.fresh = TRUE]
sl(r) ==
    LET acc[i \in 0 .. Len(r)] == IF i = 0 THEN NoneSlid(Len(r)) ELSE Merge(acc[i - 1], r[i])
    IN acc[Len(r)]

\* mv: line i of a direction, from the edge that tiles move to.
Directions == {"up", "down", "left", "right"}
PlaceOf(d, i, j) ==
    CASE d = "up" -> <<j, i>> [] d = "down" -> <<Dim + 1 - j, i>>
      [] d = "left" -> <<i, j>> [] d = "right" -> <<i, Dim + 1 - j>>
Line(grid, d, i) == [j \in 1 .. Dim |-> grid[PlaceOf(d, i, j)[1]][PlaceOf(d, i, j)[2]]]
Slid(grid, d) ==
    [y \in 1 .. Dim |-> [x \in 1 .. Dim |->
        CASE d = "up" -> sl(Line(grid, d, x)).row[y] [] d = "down" -> sl(Line(grid, d, x)).row[Dim + 1 - y]
          [] d = "left" -> sl(Line(grid, d, y)).row[x] [] d = "right" -> sl(Line(grid, d, y)).row[Dim + 1 - x]]]
Gain(grid, d) == SumTo([i \in 1 .. Dim |-> sl(Line(grid, d, i)).sc], Dim)

\* can: a free cell, or two equal tiles side by side.
can(grid) ==
    \/ Free(grid) # {}
    \/ \E p \in Places :
           \/ p[2] < Dim /\ grid[p[1]][p[2]] = grid[p[1]][p[2] + 1]
           \/ p[1] < Dim /\ grid[p[1]][p[2]] = grid[p[1] + 1][p[2]]
\* check2048Win
Reached(grid) == \E p \in Places : grid[p[1]][p[2]] >= Target

\* handleMove: keys are dead once the game is over or won.
handleMove(d) ==
    /\ tiles.play = "on" /\ ~tiles.ov /\ ~tiles.wn
    /\ Slid(tiles.grid, d) # tiles.grid
    /\ \E g \in Spawned([tiles EXCEPT !.grid = Slid(@, d), !.sc = @ + Gain(tiles.grid, d)]) :
           tiles' = [g EXCEPT !.ov = ~can(g.grid), !.wn = Reached(g.grid)]
Restart2048 == tiles.play = "on" /\ (tiles.ov \/ tiles.wn) /\ tiles' \in NewGames
Quit2048 == tiles.play = "on" /\ tiles' = [tiles EXCEPT !.play = "over"]

TilesInit == tiles = NoTiles
TilesNext == Play2048 \/ (\E d \in Directions : handleMove(d)) \/ Restart2048 \/ Quit2048

-------------------------------------------------------------------------------
\* What merging up to a tile of v is worth: half of v twice, and 2 * (v / 2) once.
Worth[v \in Nat] == IF v <= 2 THEN 0 ELSE 2 * Worth[v \div 2] + v
WorthOf(grid) == SumTo([y \in 1 .. Dim |-> SumTo([x \in 1 .. Dim |-> Worth[grid[y][x]]], Dim)], Dim)

\* The rule, stated without a loop: in each run of equal tiles the first merges
\* with the second, the third with the fourth, and so on.  Those at even places of their
\* run go, and double the tile before them.
TilesOf(r) == {i \in 1 .. Len(r) : r[i] # 0}
InRun(r, i) == {j \in TilesOf(r) : j <= i /\ \A k \in TilesOf(r) : j <= k /\ k <= i => r[k] = r[i]}
Kept(r) == {i \in TilesOf(r) : Cardinality(InRun(r, i)) % 2 = 1}
Doubled(r) ==
    {i \in Kept(r) : \E j \in TilesOf(r) \ Kept(r) : i < j /\ \A k \in TilesOf(r) : k <= i \/ j <= k}
SlidesByTheRule(r) ==
    /\ sl(r).sc = SumTo([i \in 1 .. Len(r) |-> IF i \in TilesOf(r) \ Kept(r) THEN 2 * r[i] ELSE 0], Len(r))
    /\ \A i \in Kept(r) :
           sl(r).row[Cardinality({k \in Kept(r) : k <= i})] = IF i \in Doubled(r) THEN 2 * r[i] ELSE r[i]
    /\ \A j \in Cardinality(Kept(r)) + 1 .. Len(r) : sl(r).row[j] = 0

SlidesByTheRuleAlways == \A r \in Rows : SlidesByTheRule(r)

\* The score is what the tiles on the board are worth, less what the 4s that
\* appeared by themselves would have been; the game is over exactly when no
\* direction changes the board: can(), which looks for neighbours, agrees with
\* mv(), which slides; and before a game, sl() merges rows by the rule.
ScoreIsEarned ==
    IF tiles.play = "idle" THEN SlidesByTheRuleAlways
    ELSE /\ WorthOf(tiles.grid) = tiles.sc + 4 * tiles.fours
         /\ tiles.ov <=> \A d \in Directions : Slid(tiles.grid, d) = tiles.grid
================================================================================
