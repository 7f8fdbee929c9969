------------------------------ MODULE Battleship -------------------------------
(***************************************************************************)
(* The games plugin's battleship: the rules (games/main.go), placement and *)
(* battle (games/battleship.go).                                           *)
(***************************************************************************)
EXTENDS Integers, Sequences, FiniteSets

CONSTANTS Waters,  \* side of a board; 10
          Sizes    \* sizes of the ships in the order they are placed; 5, 4, 3, 3, 2

ASSUME FleetAssumption == Waters \in Nat /\ Sizes \in Seq(Nat \ {0}) /\ Sizes # <<>>

VARIABLE fleet  \* the running game, or NoFleet

Water == (0 .. Waters - 1) \X (0 .. Waters - 1)
Calm == [p \in Water |-> 0]
\* A cell: 0 water, 1 ship, 2 hit, 3 miss.  pg, ag: the player's board and the
\* computer's; ph: ships that the player has placed; horizontal: of runBattleship.
NoFleet == [play |-> "idle", pg |-> Calm, ag |-> Calm, ph |-> 0, horizontal |-> TRUE,
            ov |-> FALSE, wn |-> FALSE]

\* can and p: the cells of a ship are on the board and free, and become ship.
ShipAt(x, y, sz, h) == {IF h THEN <<x + i, y>> ELSE <<x, y + i>> : i \in 0 .. sz - 1}
CanShipAnywhere(g, x, y, sz, h) == ShipAt(x, y, sz, h) \subseteq Water
CanShip(g, x, y, sz, h) == ShipAt(x, y, sz, h) \subseteq {p \in Water : g[p] = 0}
Put(g, x, y, sz, h) == [p \in Water |-> IF p \in ShipAt(x, y, sz, h) THEN 1 ELSE g[p]]

\* placeAI and the key 'r': the ships after those placed, each where it fits.
Placements(g, sz) ==
    LET fits == {q \in Water \X BOOLEAN : CanShip(g, q[1][1], q[1][2], sz, q[2])}
    IN {Put(g, q[1][1], q[1][2], sz, q[2]) : q \in fits}
Filled(placed, grid) ==
    LET more[n \in 0 .. Len(Sizes) - placed] ==
            IF n = 0 THEN {grid} ELSE UNION {Placements(g, Sizes[placed + n]) : g \in more[n - 1]}
    IN more[Len(Sizes) - placed]

\* newBS
PlayFleet ==
    /\ fleet.play = "idle"
    /\ \E ag \in Filled(0, Calm) : fleet' = [NoFleet EXCEPT !.play = "on", !.ag = ag]

Placing == fleet.play = "on" /\ fleet.ph < Len(Sizes)
\* Enter, h, v and r while ships are placed; (x, y) is the selected cell.
PlaceShip ==
    /\ Placing
    /\ \E p \in Water :
        /\ CanShip(fleet.pg, p[1], p[2], Sizes[fleet.ph + 1], fleet.horizontal)
        /\ fleet' = [fleet EXCEPT !.pg = Put(@, p[1], p[2], Sizes[fleet.ph + 1], fleet.horizontal), !.ph = @ + 1]
Turn ==
    /\ Placing
    /\ \E a \in 0 .. Waters - 1, h \in BOOLEAN :
        a + Sizes[fleet.ph + 1] <= Waters /\ fleet' = [fleet EXCEPT !.horizontal = h]
RandomShips ==
    /\ Placing
    /\ \E pg \in Filled(fleet.ph, fleet.pg) : fleet' = [fleet EXCEPT !.pg = pg, !.ph = Len(Sizes)]

\* sunk: no ship cell that is not hit.
sunk(g) == \A p \in Water : g[p] # 1
Shot(g, p) == [g EXCEPT ![p] = IF @ = 1 THEN 2 ELSE 3]

\* fire: the player's shot and, unless it sinks the last ship, the computer's at
\* a cell that it has not shot at.
fire ==
    /\ fleet.play = "on" /\ ~Placing /\ ~fleet.ov /\ ~fleet.wn
    /\ \E p \in Water :
        LET ag == Shot(fleet.ag, p)
        IN /\ fleet.ag[p] < 2
           /\ IF sunk(ag) THEN fleet' = [fleet EXCEPT !.ag = ag, !.wn = TRUE]
              ELSE \E q \in {r \in Water : fleet.pg[r] < 2} :
                     LET pg == Shot(fleet.pg, q)
                     IN fleet' = [fleet EXCEPT !.ag = ag, !.pg = pg, !.ov = sunk(pg)]
QuitFleet == fleet.play = "on" /\ fleet' = [fleet EXCEPT !.play = "over"]

FleetInit == fleet = NoFleet
FleetNext == PlayFleet \/ PlaceShip \/ Turn \/ RandomShips \/ fire \/ QuitFleet

-------------------------------------------------------------------------------
Cells2(g, vs) == Cardinality({p \in Water : g[p] \in vs})
FirstShips[n \in 0 .. Len(Sizes)] == IF n = 0 THEN 0 ELSE FirstShips[n - 1] + Sizes[n]

\* Both sides have the ships they placed, hit or not, and have fired equally
\* often, the player once more when that shot won; a side has lost exactly when
\* all its ships are hit, and the game ends at the first such shot.
BattleIsFair ==
    fleet.play # "idle" =>
        /\ Cells2(fleet.ag, {1, 2}) = FirstShips[Len(Sizes)]
        /\ Cells2(fleet.pg, {1, 2}) = FirstShips[fleet.ph]
        /\ Cells2(fleet.ag, {2, 3}) - Cells2(fleet.pg, {2, 3}) = (IF fleet.wn THEN 1 ELSE 0)
        /\ fleet.wn <=> sunk(fleet.ag)
        /\ fleet.ov <=> fleet.ph = Len(Sizes) /\ sunk(fleet.pg)
        /\ ~(fleet.ov /\ fleet.wn)
================================================================================
