---------------------------------- MODULE Games ----------------------------------
(***************************************************************************)
(* The five games of the games plugin.  Each is played by itself: a step   *)
(* is a step of one of them.                                               *)
(***************************************************************************)
EXTENDS Minesweeper, Game2048, Solitaire, Battleship, Chess

games == <<mines, tiles, sol, fleet, chess>>

GamesInit == MinesInit /\ TilesInit /\ SolInit /\ FleetInit /\ ChessInit
GamesNext ==
    \/ MinesNext /\ UNCHANGED <<tiles, sol, fleet, chess>>
    \/ TilesNext /\ UNCHANGED <<mines, sol, fleet, chess>>
    \/ SolNext /\ UNCHANGED <<mines, tiles, fleet, chess>>
    \/ FleetNext /\ UNCHANGED <<mines, tiles, sol, chess>>
    \/ ChessNext /\ UNCHANGED <<mines, tiles, sol, fleet>>
GamesSpec == GamesInit /\ [][GamesNext]_games

-------------------------------------------------------------------------------
\* The positions that the five games show are those that the rules in their code allow,
\* whatever sequence of keys the user presses and whatever chance deals and answers: the
\* counts of minesweeper are those of its field and a flood reveals what it may, the
\* score of 2048 is what was merged, no card of solitaire appears, disappears or lies
\* where can would not have it (by halves of the suits, not by colours), the ships of
\* both fleets keep apart, and no move of chess leaves the own king attacked (but for
\* captures en passant and castlings that carry a king, of which lg looks at too
\* little).  Whose turn it is to press a key in chess is no rule of the code: the user
\* may move for Black, and the computer's timer for White.
GamesFollowTheirRules ==
    MinefieldAddsUp /\ ScoreIsEarned /\ CardsArePlacedByTheRules /\ BattleIsFair /\ PositionsAreLegal
================================================================================
