------------------------------- MODULE Solitaire -------------------------------
(***************************************************************************)
(* The games plugin's Klondike: the rules (games/main.go) and the command  *)
(* line (games/solitaire.go).                                              *)
(*                                                                         *)
(* A command is its words: numbers, or D, Q, W, or Other text.  Go         *)
(* compares the whole line with "1" and "7" as strings, so every line      *)
(* whose first digit is 1 to 6 takes the branch for a single column.  (An  *)
(* instance with fewer columns has its last column for the 7.)             *)
(***************************************************************************)
EXTENDS Integers, Sequences, FiniteSets, SequencesExt, Sums

CONSTANTS Suits,    \* 0 .. 3: spades, hearts, diamonds, clubs
          Ranks,    \* 1 .. Ranks; 13
          Columns,  \* 7
          Commands  \* lines that the user enters

\* Suits have numbers, and there are cards enough for the columns.
ASSUME SolAssumption ==
    /\ IsFiniteSet(Suits) /\ Suits \subseteq Nat /\ Ranks \in Nat \ {0} /\ Columns \in Nat \ {0}
    /\ SumTo([k \in 1 .. Columns |-> k], Columns) <= Cardinality(Suits) * Ranks
    /\ Commands \subseteq Seq(Int) /\ <<>> \notin Commands

\* The words that are no numbers.
D == -1
W == -2
Q == -3
Other == -4

VARIABLE sol  \* the running game, or NoSol

\* Columns are numbered from 1 here, from 0 in the code.
Cols == 1 .. Columns
Piles == 1 .. Cardinality(Suits)
Deck == [s : Suits, r : 1 .. Ranks]
Shown(c) == [s |-> c.s, r |-> c.r, f |-> TRUE]
Hidden(c) == [s |-> c.s, r |-> c.r, f |-> FALSE]

\* play: "idle", "on", "over" (Play answered), "panic" (the handler panicked).
NoSol == [play |-> "idle", st |-> <<>>, wst |-> <<>>, tb |-> [i \in Cols |-> <<>>],
          fd |-> [i \in Piles |-> <<>>], wn |-> FALSE]

\* newSol: round i deals one card to each column from i on, face up to column i.
DealtBefore(i) == SumTo([k \in Cols |-> Columns + 1 - k], i - 1)
Dealt(d) == [j \in Cols |-> [i \in 1 .. j |->
                LET c == d[DealtBefore(i) + j - i + 1]
                IN IF i = j THEN Shown(c) ELSE Hidden(c)]]
PlaySol ==
    /\ sol.play = "idle"
    /\ \E d \in SetToSeqs(Deck) :
           LET used == DealtBefore(Columns + 1)
           IN sol' = [NoSol EXCEPT !.play = "on", !.tb = Dealt(d),
                        !.st = [i \in 1 .. Len(d) - used |-> Hidden(d[used + i])]]

\* c may lie on t: it is of the next rank and in the other half of the suits'
\* order, of which spades and hearts are the first half.  (The game's README has
\* it of the other colour.)
LiesOn(c, t) == c.s \div 2 # t.s \div 2 /\ c.r = t.r - 1
\* Mutant of CanPlace: whatever the suit.
CanPlaceAnySuit(tb, c, col) ==
    IF tb[col] = <<>> THEN c.r = Ranks ELSE Last(tb[col]).f /\ c.r = Last(tb[col]).r - 1
\* can: a king on an empty column, or a card on the open one that it may lie on.
CanPlace(tb, c, col) ==
    IF tb[col] = <<>> THEN c.r = Ranks ELSE Last(tb[col]).f /\ LiesOn(c, Last(tb[col]))

\* fdx: the first pile that takes the card; 0 when none does.
Takes(pile, c) == IF pile = <<>> THEN c.r = 1 ELSE Last(pile).s = c.s /\ Last(pile).r = c.r - 1
fdx(fd, c) ==
    IF \E i \in Piles : Takes(fd[i], c)
    THEN CHOOSE i \in Piles : Takes(fd[i], c) /\ \A k \in 1 .. i - 1 : ~Takes(fd[k], c)
    ELSE 0

\* face: the top card of a column is turned up.
face(column) == IF column = <<>> THEN <<>> ELSE Append(Front(column), Shown(Last(column)))

\* auto: one pass over the columns, and passes until nothing moves (a pass that
\* moves nothing changes nothing, so as many as there are cards will do).
AutoColumn(g, i) ==
    IF g.tb[i] = <<>> \/ ~Last(g.tb[i]).f \/ fdx(g.fd, Last(g.tb[i])) = 0 THEN g
    ELSE [g EXCEPT !.fd[fdx(g.fd, Last(g.tb[i]))] = Append(@, Last(g.tb[i])),
                   !.tb[i] = face(Front(@))]
AutoPass(g) ==
    LET pass[i \in 0 .. Columns] == IF i = 0 THEN g ELSE AutoColumn(pass[i - 1], i)
    IN pass[Columns]
auto(g) ==
    LET passed[n \in 0 .. Cardinality(Deck)] == IF n = 0 THEN g ELSE AutoPass(passed[n - 1])
    IN passed[Cardinality(Deck)]

\* draw: a card from the stock to the waste; an empty stock takes the waste back.
draw(g) ==
    IF g.st = <<>> THEN [g EXCEPT !.st = Reverse(g.wst), !.wst = <<>>]
    ELSE [g EXCEPT !.st = Front(@), !.wst = Append(@, Shown(Last(g.st)))]

\* move: n cards of column c to column d, if the lowest of them may go there.
MoveIsLegal(g, c, d, n) ==
    /\ c # d /\ c \in Cols /\ d \in Cols /\ n \in 1 .. Len(g.tb[c])
    /\ LET card == g.tb[c][Len(g.tb[c]) - n + 1] IN card.f /\ CanPlace(g.tb, card, d)
\* Mutant of move: one that leaves the cards behind.
moveCopies(g, c, d, n) ==
    IF ~MoveIsLegal(g, c, d, n) THEN g
    ELSE LET i == Len(g.tb[c]) - n IN [g EXCEPT !.tb[d] = @ \o SubSeq(g.tb[c], i + 1, i + n)]
move(g, c, d, n) ==
    IF ~MoveIsLegal(g, c, d, n) THEN g
    ELSE LET i == Len(g.tb[c]) - n
         IN [g EXCEPT !.tb[d] = @ \o SubSeq(g.tb[c], i + 1, i + n), !.tb[c] = face(SubSeq(@, 1, i))]

-------------------------------------------------------------------------------
(* The command line.                                                       *)

IsNumber(w) == w >= 0
FirstDigit(n) == IF n < 10 THEN n ELSE n \div 10
\* strconv.Atoi, its error dropped.
Number(w) == IF IsNumber(w) THEN w ELSE 0

\* The three branches of the switch after "q" and "d".
IsColumnLine(ws) == IsNumber(ws[1]) /\ (FirstDigit(ws[1]) \in 1 .. Columns - 1 \/ ws = <<Columns>>)
IsWasteLine(ws) == Len(ws) = 2 /\ ws[1] = W
ColumnOf(ws) == IF Len(ws) = 1 THEN Number(ws[1]) ELSE 0
\* Indexing the columns with what is no column panics.
Panics(g, ws) ==
    \/ IsColumnLine(ws) /\ ColumnOf(ws) \notin Cols
    \/ ~IsColumnLine(ws) /\ IsWasteLine(ws) /\ g.wst # <<>> /\ Number(ws[2]) \notin Cols

FromWaste(g, n) ==
    IF g.wst # <<>> /\ CanPlace(g.tb, Last(g.wst), n)
    THEN [g EXCEPT !.tb[n] = Append(@, Last(g.wst)), !.wst = Front(@)] ELSE g
Executed(g, ws) ==
    CASE ws = <<D>> -> draw(g)
      [] IsColumnLine(ws) -> g      \* its auto() is that of every command
      [] IsWasteLine(ws) -> FromWaste(g, Number(ws[2]))
      [] ws # <<D>> /\ ~IsColumnLine(ws) /\ ~IsWasteLine(ws) /\ Len(ws) >= 2 ->
             move(g, Number(ws[1]), Number(ws[2]), IF Len(ws) >= 3 THEN Number(ws[3]) ELSE 1)
      [] OTHER -> g
Complete(g) == \A i \in Piles : Len(g.fd[i]) = Ranks

\* Enter.  A won game takes no more commands.
Command ==
    /\ sol.play = "on" /\ ~sol.wn
    /\ \E ws \in Commands \ {<<Q>>} :
           IF Panics(sol, ws) THEN sol' = [sol EXCEPT !.play = "panic"]
           ELSE sol' = LET g == auto(Executed(sol, ws)) IN [g EXCEPT !.wn = Complete(g)]
\* 'q' as a key or a command, or the loss of the terminal.
QuitSol == sol.play = "on" /\ sol' = [sol EXCEPT !.play = "over"]

SolInit == sol = NoSol
SolNext == PlaySol \/ Command \/ QuitSol

-------------------------------------------------------------------------------
CardsIn(pile) == {[s |-> pile[i].s, r |-> pile[i].r] : i \in 1 .. Len(pile)}
AllPiles == {sol.st, sol.wst} \cup {sol.tb[i] : i \in Cols} \cup {sol.fd[i] : i \in Piles}
Total == Len(sol.st) + Len(sol.wst) + SumTo([i \in Cols |-> Len(sol.tb[i])], Columns)
         + SumTo([i \in Piles |-> Len(sol.fd[i])], Cardinality(Suits))

\* Whatever is entered, each card is in one place; a foundation is its suit from
\* the ace up; no open card of a column lies below a hidden one, and the open
\* ones descend, from one half of the suits to the other (by the README's rule
\* they alternate in colour: can does not see to that); a game is won when the
\* foundations have all cards.
CardsArePlacedByTheRules ==
    sol.play # "idle" =>
        /\ UNION {CardsIn(p) : p \in AllPiles} = Deck /\ Total = Cardinality(Deck)
        /\ \A i \in Piles, k \in 1 .. Ranks :
               k <= Len(sol.fd[i]) => sol.fd[i][k].r = k /\ sol.fd[i][k].s = sol.fd[i][1].s
        /\ \A i \in Cols : \A k \in 1 .. Len(sol.tb[i]) - 1 :
               sol.tb[i][k].f => sol.tb[i][k + 1].f /\ LiesOn(sol.tb[i][k + 1], sol.tb[i][k])
        /\ \A i \in Cols : sol.tb[i] # <<>> => Last(sol.tb[i]).f
        /\ sol.wn <=> \A c \in Deck : \E i \in Piles : c \in CardsIn(sol.fd[i])
================================================================================
