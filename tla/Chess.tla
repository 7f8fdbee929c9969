--------------------------------- MODULE Chess ---------------------------------
(***************************************************************************)
(* The games plugin's chess: the rules and the computer's choice of a move *)
(* (games/main.go), selection and timers (games/chess.go).                 *)
(*                                                                         *)
(* The computer answers from a timer, 50 ms after a move of the user.      *)
(* Until then the board belongs to the user, who may move for Black, and   *)
(* ai() moves for whoever is to move when it runs.                         *)
(***************************************************************************)
EXTENDS Integers, FiniteSets, FiniteSetsExt

CONSTANTS Starts,   \* games to look at: newCh(), and positions later in a game
          Moves,    \* moves that the user tries, as <<x1, y1, x2, y2>>
          MaxPlies, \* bound on the moves of a behaviour
          MaxAI     \* plies after which the computer is not asked any more

VARIABLE chess  \* the running game, or NoChess

\* Pieces are positive for White, negative for Black.
cP == 1
cN == 2
cB == 3
cR == 4
cQ == 5
cK == 6
Square == (0 .. 7) \X (0 .. 7)
NoSquare == <<-1, -1>>
Back == <<cR, cN, cB, cQ, cK, cB, cN, cR>>
\* newCh: b[<<x, y>>], y counted from Black's side.  ck, cq: the right to castle, at
\* index (t + 1) / 2.
newCh ==
    [b |-> [s \in Square |-> CASE s[2] = 0 -> -Back[s[1] + 1] [] s[2] = 1 -> -cP
                               [] s[2] = 6 -> cP [] s[2] = 7 -> Back[s[1] + 1] [] OTHER -> 0],
     t |-> 1, ov |-> FALSE, wi |-> 0, ep |-> NoSquare,
     ck |-> [i \in 0 .. 1 |-> TRUE], cq |-> [i \in 0 .. 1 |-> TRUE]]

\* play: "idle", "on", "over", "panic".  sel: the selected square; timers: how many
\* answers of the computer are still to come; plies, unseen: how many moves there
\* were, and whether one changed more of the board than lg had looked at.
NoChess == [play |-> "idle", game |-> <<>>, sel |-> NoSquare, timers |-> 0,
            plies |-> 0, unseen |-> FALSE]

Abs(v) == IF v < 0 THEN -v ELSE v
Colour(v) == IF v > 0 THEN 1 ELSE IF v < 0 THEN -1 ELSE 0
Larger(a, b) == IF a > b THEN a ELSE b

\* The squares strictly between two on a line are empty.
Open(b, s, t) ==
    \A i \in 1 .. Larger(Abs(t[1] - s[1]), Abs(t[2] - s[2])) - 1 :
        b[<<s[1] + i * Colour(t[1] - s[1]), s[2] + i * Colour(t[2] - s[2])>>] = 0
Diagonal(s, t) == Abs(t[1] - s[1]) = Abs(t[2] - s[2]) /\ t # s
Straight(s, t) == (t[1] = s[1] \/ t[2] = s[2]) /\ t # s
KnightsMove(s, t) == {Abs(t[1] - s[1]), Abs(t[2] - s[2])} = {1, 2}
NextTo(s, t) == Abs(t[1] - s[1]) <= 1 /\ Abs(t[2] - s[2]) <= 1

\* The cases that at() and lg() share: what a piece on s strikes.
Strikes(b, s, t) ==
    LET p == Abs(b[s])
    IN \/ p = cP /\ t[2] - s[2] = -Colour(b[s]) /\ Abs(t[1] - s[1]) = 1
       \/ p = cN /\ KnightsMove(s, t)
       \/ p \in {cB, cQ} /\ Diagonal(s, t) /\ Open(b, s, t)
       \/ p \in {cR, cQ} /\ Straight(s, t) /\ Open(b, s, t)
       \/ p = cK /\ NextTo(s, t)
\* at: a piece of a side strikes the square.  ic: that side's king is struck.
at(b, t, by) == \E s \in Square : Colour(b[s]) = by /\ Strikes(b, s, t)
ic(b, c) == \E s \in Square : b[s] = c * cK /\ at(b, s, -c)

Index(t) == (t + 1) \div 2
\* lg, the pawn: one or two steps forward, or a capture, also en passant.
PawnMove(g, s, t) ==
    LET dy == t[2] - s[2]
        home == IF g.t = 1 THEN 6 ELSE 1
    IN \/ dy = -g.t /\ t[1] = s[1] /\ g.b[t] = 0
       \/ dy = -2 * g.t /\ t[1] = s[1] /\ s[2] = home /\ g.b[t] = 0 /\ g.b[<<s[1], s[2] - g.t>>] = 0
       \/ Strikes(g.b, s, t) /\ (Colour(g.b[t]) = -g.t \/ (g.b[t] = 0 /\ t = g.ep))
\* lg, castling: the right, empty squares, and none that the king crosses struck.
Castling(g, s, t) ==
    LET y == s[2]
        Safe(xs) == \A x \in xs : ~at(g.b, <<x, y>>, -g.t)
        Bare(xs) == \A x \in xs : g.b[<<x, y>>] = 0
    IN /\ t[2] = y /\ y = (IF g.t = 1 THEN 7 ELSE 0)
       /\ \/ t[1] - s[1] = 2  /\ g.ck[Index(g.t)] /\ Bare(5 .. 6) /\ Safe(4 .. 6)
          \/ t[1] - s[1] = -2 /\ g.cq[Index(g.t)] /\ Bare(1 .. 3) /\ Safe(2 .. 4)
\* Mutant of SafeAfter: the king is looked for on the board before the move.
SafeBefore(g, s, t) == ~ic(g.b, g.t)
\* lg
SafeAfter(g, s, t) == ~ic([g.b EXCEPT ![t] = g.b[s], ![s] = 0], g.t)
lg(g, s, t) ==
    /\ g.b[s] # 0 /\ Colour(g.b[s]) = g.t /\ t \in Square /\ Colour(g.b[t]) # g.t
    /\ CASE Abs(g.b[s]) = cP -> PawnMove(g, s, t)
         [] Abs(g.b[s]) = cK -> Strikes(g.b, s, t) \/ Castling(g, s, t)
         [] OTHER -> Strikes(g.b, s, t)
    /\ SafeAfter(g, s, t)
\* hm: the side has a legal move.
hm(g, c) == \E s \in Square : Colour(g.b[s]) = c /\ \E t \in Square : lg(g, s, t)

\* ap: the board after a move.  Castling moves whatever stands in the corner, and the
\* right to castle outlasts the capture of the rook there, as RightsAfter has it: the
\* piece may be the other king.
IsCastling(b, s, t) == Abs(b[s]) = cK /\ Abs(t[1] - s[1]) = 2
Corner(s, t) == <<IF t[1] > s[1] THEN 7 ELSE 0, s[2]>>
Beside(s, t) == <<IF t[1] > s[1] THEN 5 ELSE 3, s[2]>>
CarriesKing(b, s, t) == IsCastling(b, s, t) /\ Abs(b[Corner(s, t)]) = cK
IsPassant(g, s, t) == Abs(g.b[s]) = cP /\ t = g.ep
Castled(b, s, t) ==
    IF ~IsCastling(b, s, t) THEN b
    ELSE [b EXCEPT ![Beside(s, t)] = b[Corner(s, t)], ![Corner(s, t)] = 0]
PieceAfter(g, s, t) == IF Abs(g.b[s]) = cP /\ t[2] \in {0, 7} THEN g.t * cQ ELSE g.b[s]
BoardAfter(g, s, t) ==
    LET b == Castled(g.b, s, t)
        c == IF IsPassant(g, s, t) THEN [b EXCEPT ![<<t[1], s[2]>>] = 0] ELSE b
    IN [c EXCEPT ![t] = PieceAfter(g, s, t), ![s] = 0]
\* ap: rights are lost when the king moves and when a corner is left or taken.  The
\* corners of White's side (y = 7) count for index 0, the king's own index is 1.
Touches(s, t, x, i) == <<x, IF i = 0 THEN 7 ELSE 0>> \in {s, t}
RightsAfter(g, s, t, rights, x) ==
    [i \in 0 .. 1 |-> /\ rights[i] /\ ~Touches(s, t, x, i)
                      /\ ~(i = Index(g.t) /\ Abs(g.b[s]) = cK)]
\* ap as a whole: then the other side is to move, and has lost or drawn if it cannot.
Played(g, s, t) ==
    [g EXCEPT !.b = BoardAfter(g, s, t), !.t = -@,
        !.ep = IF Abs(PieceAfter(g, s, t)) = cP /\ Abs(t[2] - s[2]) = 2
               THEN <<s[1], (s[2] + t[2]) \div 2>> ELSE NoSquare,
        !.ck = RightsAfter(g, s, t, @, 7), !.cq = RightsAfter(g, s, t, @, 0)]
ap(g, s, t) ==
    LET h == Played(g, s, t)
    IN IF hm(h, h.t) THEN h
       ELSE [h EXCEPT !.ov = TRUE, !.wi = IF ic(h.b, h.t) THEN -h.t ELSE @]

\* ai: the value of what a move takes, more for a promotion, plus a random number
\* below 20: any move that comes near enough to the best may be chosen.
ValueOf == <<100, 320, 330, 500, 900, 20000>>
Score(g, s, t) ==
    (IF g.b[t] = 0 THEN 0 ELSE ValueOf[Abs(g.b[t])])
    + (IF Abs(g.b[s]) = cP /\ t[2] \in {0, 7} THEN 700 ELSE 0)
AIMoves(g) ==
    LET legal == {m \in Square \X Square : lg(g, m[1], m[2])}
        best == Max({Score(g, m[1], m[2]) : m \in legal})
    IN {m \in legal : best < Score(g, m[1], m[2]) + 20}

-------------------------------------------------------------------------------
(* runChess.                                                               *)

PlayChess ==
    /\ chess.play = "idle"
    /\ \E g \in Starts : chess' = [NoChess EXCEPT !.play = "on", !.game = g]

Moved(s, t) ==
    [chess EXCEPT !.game = ap(@, s, t), !.plies = @ + 1,
                   !.unseen = @ \/ IsPassant(chess.game, s, t) \/ CarriesKing(chess.game.b, s, t)]

\* handleEnter without a selection: a piece of the side that is to move is selected.
\* getCell takes any position of the table for a square: indexing the board with one
\* that is none panics.
Select ==
    /\ chess.play = "on" /\ ~chess.game.ov /\ chess.sel = NoSquare /\ chess.plies < MaxPlies
    /\ \/ \E m \in Moves : /\ Colour(chess.game.b[<<m[1], m[2]>>]) = chess.game.t
                           /\ chess' = [chess EXCEPT !.sel = <<m[1], m[2]>>]
       \/ chess' = [chess EXCEPT !.play = "panic"]
\* handleEnter with one: a legal move is made, and the computer's answer planned.
MoveTo ==
    /\ chess.play = "on" /\ ~chess.game.ov /\ chess.sel # NoSquare /\ chess.plies < MaxPlies
    /\ \E m \in Moves :
        /\ <<m[1], m[2]>> = chess.sel
        /\ lg(chess.game, chess.sel, <<m[3], m[4]>>)
        /\ chess' = LET c == Moved(chess.sel, <<m[3], m[4]>>)
                    IN [c EXCEPT !.sel = NoSquare, !.timers = IF c.game.ov THEN @ ELSE @ + 1]
\* The same square again, a move that is not legal, or Escape.
Deselect ==
    chess.play = "on" /\ chess.sel # NoSquare /\ chess' = [chess EXCEPT !.sel = NoSquare]

\* A timer fires and its function runs in the application's loop.
ai ==
    /\ chess.play = "on" /\ chess.timers > 0
    /\ \/ ~hm(chess.game, chess.game.t) /\ chess' = [chess EXCEPT !.timers = @ - 1]
       \/ /\ chess.plies < MaxAI
          /\ \E m \in AIMoves(chess.game) : chess' = [Moved(m[1], m[2]) EXCEPT !.timers = @ - 1]

\* 'r' after the end: timers of the old game go on.
RestartChess ==
    /\ chess.play = "on" /\ chess.game.ov
    /\ chess' = [chess EXCEPT !.game = newCh, !.sel = NoSquare, !.unseen = FALSE]
QuitChess == chess.play = "on" /\ chess' = [chess EXCEPT !.play = "over"]

ChessInit == chess = NoChess
ChessNext == PlayChess \/ Select \/ MoveTo \/ Deselect \/ ai \/ RestartChess \/ QuitChess

-------------------------------------------------------------------------------
\* The parts of the property below, of a game: a move leaves its own king out of check;
\* each side has its king; pawns never stand on the last rows; an en passant square has a
\* pawn of the side that has just moved behind it; a game that is won is over and the
\* side to move in check.
OwnKingIsSafe(g) == ~ic(g.b, -g.t)
OneKingEach(g) == \A c \in {-1, 1} : Cardinality({s \in Square : g.b[s] = c * cK}) = 1
NoPawnAtTheEnd(g) == \A s \in Square : s[2] \in {0, 7} => Abs(g.b[s]) # cP
PawnBehind(g) == g.ep # NoSquare => g.b[g.ep] = 0 /\ g.b[<<g.ep[1], g.ep[2] + g.t>>] = -g.t * cP
WonInCheck(g) == g.wi # 0 => g.ov /\ g.wi = -g.t /\ ic(g.b, g.t)
\* A king that may castle stands where it began.
RightsAreKept(g) ==
    \A c \in {-1, 1}, s \in Square :
        g.b[s] = c * cK /\ (g.ck[Index(c)] \/ g.cq[Index(c)]) => s = <<4, IF c = 1 THEN 7 ELSE 0>>

IsGame(g) ==
    /\ g = [b |-> g.b, t |-> g.t, ov |-> g.ov, wi |-> g.wi, ep |-> g.ep, ck |-> g.ck, cq |-> g.cq]
    /\ g.b \in [Square -> -cK .. cK] /\ g.t \in {-1, 1} /\ g.ov \in BOOLEAN /\ g.wi \in {-1, 0, 1}
    /\ g.ep \in {NoSquare} \cup ((0 .. 7) \X {2, 5})
    /\ g.ck \in [0 .. 1 -> BOOLEAN] /\ g.cq \in [0 .. 1 -> BOOLEAN]

\* What a behaviour begins with is a game; newCh() is one.
ASSUME ChessAssumption ==
    /\ Moves \subseteq (0 .. 7) \X (0 .. 7) \X (0 .. 7) \X (0 .. 7)
    /\ \A g \in Starts :
           /\ IsGame(g) /\ OwnKingIsSafe(g) /\ OneKingEach(g) /\ NoPawnAtTheEnd(g)
           /\ PawnBehind(g) /\ WonInCheck(g) /\ RightsAreKept(g)

\* A move, whoever makes it, leaves its own king out of check and both kings on
\* the board, unless it changed more of the board than lg looked at: a pawn was taken en
\* passant (lg looks at the board with that pawn still there), or castling took the
\* other king along; and the game is over exactly when the side to move has no legal move.
PositionsAreLegal ==
    LET g == chess.game
    IN chess.play # "idle" =>
        /\ chess.unseen \/ (OwnKingIsSafe(g) /\ OneKingEach(g))
        /\ NoPawnAtTheEnd(g) /\ PawnBehind(g) /\ WonInCheck(g) /\ RightsAreKept(g)
        /\ chess.plies > 0 => (g.ov <=> ~hm(g, g.t))
================================================================================
