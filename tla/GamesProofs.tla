------------------------------ MODULE GamesProofs -------------------------------
(***************************************************************************)
(* Theorems about the five games: each follows its rules, whatever is      *)
(* dealt and whatever keys are pressed.                                    *)
(***************************************************************************)
EXTENDS Games, FunctionTheorems, Functions, SequenceTheorems, Induction

-------------------------------------------------------------------------------
(* Minesweeper: the counter and the verdicts agree with the field, for     *)
(* fields of any size and any number of bombs.                             *)

CellStates == {"hidden", "flagged", "revealed"}
\* A game: there is a cell without a bomb, and a bomb lies bare only in one that is over.
MinesType ==
    /\ mines = [play |-> mines.play, w |-> mines.w, h |-> mines.h, bombs |-> mines.bombs, flags |-> mines.flags,
                at |-> mines.at, st |-> mines.st, over |-> mines.over, won |-> mines.won]
    /\ mines.w \in Nat \ {0} /\ mines.h \in Nat \ {0}
    /\ mines.bombs \in Nat /\ mines.bombs < mines.w * mines.h
    /\ mines.flags \in Int /\ mines.at \subseteq Cells /\ mines.st \in [Cells -> CellStates]
    /\ mines.over \in BOOLEAN /\ mines.won \in BOOLEAN
MinesInv ==
    /\ IF mines.play = "idle" THEN mines = NoMines ELSE MinesType
    /\ MinefieldAddsUp

LEMMA FieldIsFinite ==
    ASSUME NEW w \in Nat \ {0}, NEW h \in Nat \ {0}
    PROVE  IsFiniteSet(Field(w, h)) /\ Cardinality(Field(w, h)) = w * h
<1>1. IsFiniteSet(0 .. w - 1) /\ Cardinality(0 .. w - 1) = w
  <2>1. w - 1 \in Int /\ 0 \in Int /\ ~(0 > w - 1) /\ w - 1 - 0 + 1 = w
    OBVIOUS
  <2> QED
    BY <2>1, FS_Interval
<1>2. IsFiniteSet(0 .. h - 1) /\ Cardinality(0 .. h - 1) = h
  <2>1. h - 1 \in Int /\ 0 \in Int /\ ~(0 > h - 1) /\ h - 1 - 0 + 1 = h
    OBVIOUS
  <2> QED
    BY <2>1, FS_Interval
<1> QED
  BY <1>1, <1>2, FS_Product DEF Field

\* Every field that is dealt has a cell without a bomb.
LEMMA SafeCell ==
    ASSUME MinesType, Cardinality(mines.at) = mines.bombs
    PROVE  Cells \ mines.at # {} /\ IsFiniteSet(Cells) /\ IsFiniteSet(mines.at)
<1>1. IsFiniteSet(Cells) /\ Cardinality(Cells) = mines.w * mines.h
  BY FieldIsFinite DEF MinesType, Cells
<1>2. mines.at \in SUBSET Cells /\ mines.bombs \in Nat /\ mines.bombs < mines.w * mines.h
  BY DEF MinesType
<1>3. IsFiniteSet(mines.at)
  BY <1>1, <1>2, FS_Subset
<1>4. mines.at # Cells
  BY <1>1, <1>2
<1> QED
  BY <1>1, <1>2, <1>3, <1>4

\* A flood covers hidden cells only, and a bomb only where it begins.
Flooded(c, F) ==
    /\ F \subseteq {d \in Cells : mines.st[d] = "hidden"} /\ c \in F
    /\ F \cap mines.at \subseteq {c} /\ (c \in mines.at => F = {c})

LEMMA SpreadIsFlooded ==
    ASSUME MinesType, IsFiniteSet(Cells), NEW c \in Cells, NEW F, Flooded(c, F)
    PROVE  Flooded(c, Spread(F))
<1>1. ASSUME NEW d \in Spread(F), d \notin F
      PROVE  /\ d \in Cells /\ mines.st[d] = "hidden" /\ d \notin mines.at
             /\ c \notin mines.at
  <2>1. PICK e \in F : e \notin mines.at /\ AdjacentBombs(e) = 0 /\ d \in Neighbours(e) /\ mines.st[d] = "hidden"
    BY <1>1 DEF Spread, Opened
  <2>2. d \in Cells /\ mines.st[d] = "hidden"
    BY <2>1 DEF Neighbours
  <2>3. Neighbours(e) \cap mines.at = {}
    <3>1. Neighbours(e) \cap mines.at \in SUBSET Cells
      BY DEF Neighbours
    <3>2. IsFiniteSet(Neighbours(e) \cap mines.at)
      BY <3>1, FS_Subset
    <3> QED
      BY <2>1, <3>2, FS_EmptySet DEF AdjacentBombs
  <2>4. c \notin mines.at
    BY <2>1 DEF Flooded
  <2> QED
    BY <2>1, <2>2, <2>3, <2>4
<1>2. F \subseteq Spread(F)
  BY DEF Spread, Opened
<1> QED
  BY <1>1, <1>2 DEF Flooded

LEMMA FloodIsFlooded ==
    ASSUME MinesType, IsFiniteSet(Cells), NEW c \in Cells, mines.st[c] = "hidden"
    PROVE  Flooded(c, Flood({c}))
<1> DEFINE N == Cardinality(Cells)
<1> DEFINE T == SUBSET Cells
<1> DEFINE step(h) == [n \in 0 .. N |-> IF n = 0 THEN {c} ELSE Spread(h[n - 1])]
<1> DEFINE F == [p \in Nat \X T |-> Spread(p[2])]
<1>1. N \in Nat
  BY FS_CardinalityType
<1>2. {c} \in T /\ \A S \in T : Spread(S) \in T
  BY DEF Spread, Opened, Neighbours
<1>3. F \in [Nat \X T -> T]
  <2> SUFFICES ASSUME NEW p \in Nat \X T PROVE Spread(p[2]) \in T
    OBVIOUS
  <2> HIDE DEF T
  <2> QED
    BY <1>2
<1>4. \E h : h = step(h)
  <2>1. \E g : Recursive_(g, T, {c}, F, N)
    <3> HIDE DEF F, T, N
    <3> QED
      BY <1>1, <1>2, <1>3, Recursion
  <2>2. PICK g : Recursive_(g, T, {c}, F, N)
    BY <2>1
  <2>3. ASSUME NEW i \in 0 .. N
        PROVE  g[i] = IF i = 0 THEN {c} ELSE Spread(g[i - 1])
    <3>1. g[i] = IF i = 0 THEN {c} ELSE F[<<i, g[i - 1]>>]
      <4> HIDE DEF F, T, N
      <4> QED
        BY <1>1, <2>2 DEF Recursive_
    <3>2. ASSUME i # 0 PROVE F[<<i, g[i - 1]>>] = Spread(g[i - 1])
      <4>1. i - 1 \in 0 .. N /\ i \in Nat
        <5> HIDE DEF N
        <5> QED
          BY <1>1, <3>2
      <4>2. g[i - 1] \in T
        <5> HIDE DEF F, T, N
        <5> QED
          BY <2>2, <4>1 DEF Recursive_
      <4> HIDE DEF T
      <4> QED
        BY <4>1, <4>2
    <3> HIDE DEF F
    <3> QED
      BY <3>1, <3>2
  <2>4. g \in [0 .. N -> T]
    BY <2>2 DEF Recursive_
  <2>5. g = step(g)
    <3> HIDE DEF T, N
    <3> QED
      BY <2>3, <2>4
  <2> QED
    BY <2>5
<1>5. \E h : h = step(h) /\ Flood({c}) = h[N]
  BY <1>4 DEF Flood
<1>6. PICK h : h = step(h) /\ Flood({c}) = h[N]
  BY <1>5
<1>7. ASSUME NEW i \in 0 .. N PROVE h[i] = IF i = 0 THEN {c} ELSE Spread(h[i - 1])
  <2>1. h[i] = step(h)[i]
    BY <1>6
  <2> QED
    BY <2>1
<1> DEFINE S == {n \in Nat : n \in 0 .. N => Flooded(c, h[n])}
<1>8. 0 \in S
  <2>1. h[0] = {c}
    <3> HIDE DEF N
    <3> QED
      BY <1>1, <1>7
  <2> QED
    BY <2>1 DEF Flooded
<1>9. ASSUME NEW k \in Nat, k \in S PROVE k + 1 \in S
  <2> SUFFICES ASSUME k + 1 \in 0 .. N PROVE Flooded(c, h[k + 1])
    OBVIOUS
  <2>1. k \in 0 .. N /\ (k + 1) - 1 = k /\ k + 1 # 0
    <3> HIDE DEF N
    <3> QED
      BY <1>1
  <2>2. h[k + 1] = Spread(h[k])
    <3> HIDE DEF N
    <3> QED
      BY <1>7, <2>1
  <2> QED
    BY <1>9, <2>1, <2>2, SpreadIsFlooded
<1>10. Nat \subseteq S
  <2> HIDE DEF S
  <2> QED
    BY <1>8, <1>9, SetInduction
<1>11. N \in 0 .. N
  <2> HIDE DEF N
  <2> QED
    BY <1>1
<1>12. N \in S
  <2> HIDE DEF S, N
  <2> QED
    BY <1>1, <1>10
<1>13. Flooded(c, h[N])
  <2> HIDE DEF N
  <2> QED
    BY <1>11, <1>12
<1> QED
  BY <1>6, <1>13

\* A new field.
LEMMA Dealing ==
    ASSUME NEW w \in Nat \ {0}, NEW h \in Nat \ {0}, NEW bombs \in Nat, bombs < w * h, Deal(w, h, bombs)
    PROVE  MinesInv'
<1>1. PICK bs \in SUBSET Field(w, h) :
        /\ Cardinality(bs) = bombs
        /\ mines' = [play |-> "on", w |-> w, h |-> h, bombs |-> bombs, flags |-> bombs, at |-> bs,
                     st |-> [c \in Field(w, h) |-> "hidden"], over |-> FALSE, won |-> FALSE]
  BY DEF Deal
<1>2. Cells' = Field(w, h)
  BY <1>1 DEF Cells
<1>3. Revealed' = {} /\ Flagged' = {}
  BY <1>1, <1>2 DEF Revealed, Flagged
<1>4. MinesType'
  BY <1>1, <1>2 DEF MinesType, CellStates
<1>5. MinefieldAddsUp'
  <2>1. Cardinality({}) = 0
    BY FS_EmptySet
  <2>2. Revealed' \cap mines'.at = {}
    BY <1>3
  <2> QED
    BY <1>1, <1>3, <2>1, <2>2 DEF MinefieldAddsUp
<1> QED
  BY <1>1, <1>4, <1>5 DEF MinesInv

LEMMA Revealing ==
    ASSUME MinesInv, mines.play = "on", ~Ended, NEW c \in Cells, reveal(c)
    PROVE  MinesInv'
<1> DEFINE F == Flood({c})
<1> DEFINE st == [d \in Cells |-> IF d \in F THEN "revealed" ELSE mines.st[d]]
<1>1. MinesType /\ MinefieldAddsUp /\ ~mines.over /\ ~mines.won
  BY DEF MinesInv, Ended
<1>2. /\ mines.flags = mines.bombs - Cardinality(Flagged)
      /\ Cardinality(mines.at) = mines.bombs
      /\ Cardinality(Revealed \cap mines.at) = 0
      /\ Revealed = Cells \ mines.at /\ Revealed # {} => mines.won
  BY <1>1 DEF MinefieldAddsUp
<1>3. Cells \ mines.at # {} /\ IsFiniteSet(Cells) /\ IsFiniteSet(mines.at)
  BY <1>1, <1>2, SafeCell
<1>4. Flooded(c, F)
  BY <1>1, <1>3, FloodIsFlooded DEF reveal
<1>5. mines' = [mines EXCEPT !.st = st, !.over = @ \/ c \in mines.at, !.won = AllSafeRevealed(st)]
  BY DEF reveal
<1> HIDE DEF F, st
<1>6. /\ mines'.play = "on" /\ mines'.w = mines.w /\ mines'.h = mines.h /\ mines'.bombs = mines.bombs
      /\ mines'.flags = mines.flags /\ mines'.at = mines.at /\ mines'.st = st
      /\ mines'.over = (mines.over \/ c \in mines.at) /\ mines'.won = AllSafeRevealed(st)
      /\ mines' = [play |-> mines'.play, w |-> mines'.w, h |-> mines'.h, bombs |-> mines'.bombs,
                   flags |-> mines'.flags, at |-> mines'.at, st |-> mines'.st, over |-> mines'.over,
                   won |-> mines'.won]
  BY <1>1, <1>5 DEF MinesType
<1>7. Cells' = Cells
  BY <1>6 DEF Cells
<1>8. st \in [Cells -> CellStates] /\ \A d \in Cells : st[d] = IF d \in F THEN "revealed" ELSE mines.st[d]
  BY <1>1 DEF MinesType, CellStates, st
<1>9. MinesType'
  <2>1. mines'.over \in BOOLEAN /\ mines'.won \in BOOLEAN
    BY <1>1, <1>6 DEF MinesType, AllSafeRevealed
  <2> QED
    BY <1>1, <1>6, <1>7, <1>8, <2>1 DEF MinesType
<1>10. Revealed' = Revealed \cup F
  BY <1>4, <1>6, <1>7, <1>8 DEF Revealed, Flooded
<1>11. Flagged' = Flagged
  BY <1>4, <1>6, <1>7, <1>8 DEF Flagged, Flooded
<1>12. Revealed \cap mines.at = {} /\ Revealed \subseteq Cells
  <2>1. Revealed \cap mines.at \in SUBSET Cells /\ Revealed \subseteq Cells
    BY DEF Revealed
  <2>2. IsFiniteSet(Revealed \cap mines.at)
    BY <1>3, <2>1, FS_Subset
  <2> QED
    BY <1>2, <2>1, <2>2, FS_EmptySet
<1>13. AllSafeRevealed(st) <=> Cells \ mines.at \subseteq Revealed'
  BY <1>6, <1>7 DEF AllSafeRevealed, Revealed
<1>14. CASE c \in mines.at
  <2>1. Revealed' \cap mines'.at = {c} /\ mines'.over = TRUE
    BY <1>4, <1>6, <1>10, <1>12, <1>14 DEF Flooded
  <2>2. Cardinality({c}) = 1
    BY FS_Singleton
  <2>3. ~(Cells \ mines.at \subseteq Revealed')
    <3> SUFFICES ASSUME Cells \ mines.at \subseteq Revealed' PROVE FALSE
      OBVIOUS
    <3>1. F = {c}
      BY <1>4, <1>14 DEF Flooded
    <3>2. Revealed = Cells \ mines.at
      BY <1>10, <1>12, <1>14, <3>1
    <3> QED
      BY <1>1, <1>2, <1>3, <3>2
  <2>4. c \in Revealed'
    BY <2>1
  <2> QED
    BY <1>2, <1>6, <1>7, <1>9, <1>11, <1>13, <1>14, <2>1, <2>2, <2>3, <2>4 DEF MinesInv, MinefieldAddsUp
<1>15. CASE c \notin mines.at
  <2>1. Revealed' \cap mines'.at = {} /\ mines'.over = FALSE
    BY <1>1, <1>4, <1>6, <1>10, <1>12, <1>15 DEF Flooded
  <2>2. Cardinality({}) = 0
    BY FS_EmptySet
  <2>3. Revealed' \subseteq Cells \ mines.at
    BY <1>4, <1>6, <1>10, <1>12, <2>1 DEF Flooded
  <2>4. mines'.won <=> Revealed' = Cells \ mines.at
    BY <1>6, <1>13, <2>3
  <2> QED
    BY <1>2, <1>6, <1>7, <1>9, <1>11, <2>1, <2>2, <2>4 DEF MinesInv, MinefieldAddsUp
<1> QED
  BY <1>14, <1>15

LEMMA Flagging ==
    ASSUME MinesInv, mines.play = "on", ~Ended, NEW c \in Cells, toggleFlag(c)
    PROVE  MinesInv'
<1>1. MinesType /\ MinefieldAddsUp
  BY DEF MinesInv
<1>2. Cardinality(mines.at) = mines.bombs
  BY <1>1 DEF MinefieldAddsUp
<1>3. IsFiniteSet(Cells)
  BY <1>1, <1>2, SafeCell
<1>4. Flagged \in SUBSET Cells /\ IsFiniteSet(Flagged) /\ Cardinality(Flagged) \in Nat
  <2>1. Flagged \in SUBSET Cells
    BY DEF Flagged
  <2> QED
    BY <1>3, <2>1, FS_Subset, FS_CardinalityType
<1>5. ASSUME NEW v \in CellStates \ {"revealed"}, NEW k \in Int, mines.st[c] # "revealed",
             mines' = [mines EXCEPT !.st[c] = v, !.flags = k],
             k = mines.bombs - Cardinality(Flagged')
      PROVE  MinesInv'
  <2>1. /\ mines'.play = "on" /\ mines'.w = mines.w /\ mines'.h = mines.h /\ mines'.bombs = mines.bombs
        /\ mines'.flags = k /\ mines'.at = mines.at /\ mines'.st = [mines.st EXCEPT ![c] = v]
        /\ mines'.over = mines.over /\ mines'.won = mines.won
        /\ mines' = [play |-> mines'.play, w |-> mines'.w, h |-> mines'.h, bombs |-> mines'.bombs,
                     flags |-> mines'.flags, at |-> mines'.at, st |-> mines'.st, over |-> mines'.over,
                     won |-> mines'.won]
    BY <1>1, <1>5 DEF MinesType
  <2>2. Cells' = Cells
    BY <2>1 DEF Cells
  <2>3. mines.st \in [Cells -> CellStates] /\ mines'.st \in [Cells -> CellStates]
    BY <1>1, <2>1 DEF MinesType
  <2>4. MinesType'
    BY <1>1, <2>1, <2>2, <2>3 DEF MinesType
  <2>5. Revealed' = Revealed
    BY <1>5, <2>1, <2>2, <2>3 DEF Revealed
  <2> QED
    BY <1>1, <1>5, <2>1, <2>2, <2>4, <2>5 DEF MinesInv, MinefieldAddsUp
<1>6. mines.flags = mines.bombs - Cardinality(Flagged) /\ mines.flags \in Int /\ mines.bombs \in Int
  BY <1>1 DEF MinesType, MinefieldAddsUp
<1>7. CASE mines.st[c] = "hidden" /\ mines' = [mines EXCEPT !.st[c] = "flagged", !.flags = @ - 1]
  <2>1. mines' = [mines EXCEPT !.st[c] = "flagged", !.flags = mines.flags - 1]
    BY <1>1, <1>7 DEF MinesType
  <2>2. Flagged' = Flagged \cup {c} /\ c \notin Flagged
    BY <1>1, <1>7 DEF MinesType, Flagged, Cells
  <2>3. Cardinality(Flagged') = Cardinality(Flagged) + 1
    BY <1>4, <2>2, FS_AddElement
  <2>4. mines.flags - 1 \in Int /\ mines.flags - 1 = mines.bombs - Cardinality(Flagged')
    BY <1>4, <1>6, <2>3
  <2>5. "flagged" \in CellStates \ {"revealed"} /\ mines.st[c] # "revealed"
    BY <1>7 DEF CellStates
  <2> QED
    BY <1>5, <2>1, <2>4, <2>5, Zenon
<1>8. CASE mines.st[c] = "flagged" /\ mines' = [mines EXCEPT !.st[c] = "hidden", !.flags = @ + 1]
  <2>1. mines' = [mines EXCEPT !.st[c] = "hidden", !.flags = mines.flags + 1]
    BY <1>1, <1>8 DEF MinesType
  <2>2. Flagged' = Flagged \ {c} /\ c \in Flagged
    BY <1>1, <1>8 DEF MinesType, Flagged, Cells
  <2>3. Cardinality(Flagged') = Cardinality(Flagged) - 1
    BY <1>4, <2>2, FS_RemoveElement
  <2>4. mines.flags + 1 \in Int /\ mines.flags + 1 = mines.bombs - Cardinality(Flagged')
    BY <1>4, <1>6, <2>3
  <2>5. "hidden" \in CellStates \ {"revealed"} /\ mines.st[c] # "revealed"
    BY <1>8 DEF CellStates
  <2> QED
    BY <1>5, <2>1, <2>4, <2>5, Zenon
<1> QED
  BY <1>7, <1>8 DEF toggleFlag

\* What a request asks for is clamped to a field with a cell to spare.
LEMMA Clamps ==
    ASSUME NEW w0 \in Widths, NEW h0 \in Heights, NEW b \in BombCounts,
           NEW w, w = Clamped(w0, DefaultSide), NEW h, h = Clamped(h0, DefaultSide)
    PROVE  /\ w \in Nat \ {0} /\ h \in Nat \ {0}
           /\ ClampedBombs(b, w, h) \in Nat /\ ClampedBombs(b, w, h) < w * h
<1>1. w \in Nat \ {0} /\ h \in Nat \ {0} /\ Clamped(b, DefaultBombs) \in Nat \ {0}
  BY MinesAssumption DEF Clamped
<1>2. w * h \in Nat /\ w * h > 0
  BY <1>1
<1> DEFINE k == Clamped(b, DefaultBombs)
<1> DEFINE a == w * h
<1>3. ClampedBombs(b, w, h) = IF k >= a THEN a - 1 ELSE k
  BY DEF ClampedBombs
<1> HIDE DEF k, a
<1>4. a \in Nat /\ a > 0 /\ k \in Nat
  BY <1>1, <1>2 DEF k, a
<1>5. (IF k >= a THEN a - 1 ELSE k) \in Nat /\ (IF k >= a THEN a - 1 ELSE k) < a
  BY <1>4
<1> QED
  BY <1>1, <1>3, <1>5 DEF a

LEMMA MinesStep == MinesInv /\ [MinesNext]_mines => MinesInv'
<1> SUFFICES ASSUME MinesInv, [MinesNext]_mines
             PROVE  MinesInv'
  OBVIOUS
<1>1. CASE PlayMines
  <2>1. PICK w0 \in Widths, h0 \in Heights, b \in BombCounts :
            Deal(Clamped(w0, DefaultSide), Clamped(h0, DefaultSide),
                 ClampedBombs(b, Clamped(w0, DefaultSide), Clamped(h0, DefaultSide)))
    BY <1>1 DEF PlayMines
  <2> DEFINE w == Clamped(w0, DefaultSide)
  <2> DEFINE h == Clamped(h0, DefaultSide)
  <2>2. /\ w \in Nat \ {0} /\ h \in Nat \ {0}
        /\ ClampedBombs(b, w, h) \in Nat /\ ClampedBombs(b, w, h) < w * h
    BY Clamps
  <2>3. Deal(w, h, ClampedBombs(b, w, h))
    BY <2>1
  <2> HIDE DEF w, h
  <2> DEFINE bombs == ClampedBombs(b, w, h)
  <2>4. bombs \in Nat /\ bombs < w * h /\ Deal(w, h, bombs)
    BY <2>2, <2>3
  <2> HIDE DEF bombs
  <2> QED
    BY <2>2, <2>4, Dealing DEF Deal
<1>2. CASE RevealKey
  BY <1>2, Revealing DEF RevealKey
<1>3. CASE FlagKey
  BY <1>3, Flagging DEF FlagKey
<1>4. CASE RestartKey
  <2>1. MinesType /\ Deal(mines.w, mines.h, mines.bombs)
    <3>1. mines.play = "on" /\ Deal(mines.w, mines.h, mines.bombs)
      BY <1>4 DEF RestartKey
    <3> QED
      BY <3>1 DEF MinesInv
  <2>2. /\ mines.w \in Nat \ {0} /\ mines.h \in Nat \ {0}
        /\ mines.bombs \in Nat /\ mines.bombs < mines.w * mines.h
    BY <2>1 DEF MinesType
  <2>3. PICK w \in Nat \ {0}, h \in Nat \ {0}, bombs \in Nat :
            bombs < w * h /\ w = mines.w /\ h = mines.h /\ bombs = mines.bombs
    BY <2>2
  <2>4. Deal(w, h, bombs)
    BY <2>1, <2>3 DEF Deal
  <2> QED
    BY <2>3, <2>4, Dealing DEF Deal
<1>5. CASE QuitMines
  <2>1. MinesType /\ MinefieldAddsUp /\ mines.play # "idle"
    BY <1>5 DEF QuitMines, MinesInv
  <2>2. /\ mines'.play = "over" /\ mines'.w = mines.w /\ mines'.h = mines.h /\ mines'.bombs = mines.bombs
        /\ mines'.flags = mines.flags /\ mines'.at = mines.at /\ mines'.st = mines.st
        /\ mines'.over = mines.over /\ mines'.won = mines.won
        /\ mines' = [play |-> mines'.play, w |-> mines'.w, h |-> mines'.h, bombs |-> mines'.bombs,
                     flags |-> mines'.flags, at |-> mines'.at, st |-> mines'.st, over |-> mines'.over,
                     won |-> mines'.won]
    BY <1>5, <2>1 DEF QuitMines, MinesType
  <2>3. Cells' = Cells
    BY <2>2 DEF Cells
  <2>4. Revealed' = Revealed /\ Flagged' = Flagged
    BY <2>2, <2>3 DEF Revealed, Flagged
  <2>5. MinesType'
    BY <2>1, <2>2, <2>3 DEF MinesType
  <2> QED
    BY <2>1, <2>2, <2>3, <2>4, <2>5 DEF MinesInv, MinefieldAddsUp
<1>6. CASE UNCHANGED mines
  <2>1. Cells' = Cells /\ Revealed' = Revealed /\ Flagged' = Flagged
    BY <1>6 DEF Cells, Revealed, Flagged
  <2> QED
    BY <1>6, <2>1 DEF MinesInv, MinesType, MinefieldAddsUp
<1> QED
  BY <1>1, <1>2, <1>3, <1>4, <1>5, <1>6 DEF MinesNext

\* Flags, bombs and verdicts of a minefield, after any keys.
THEOREM MinefieldAddsUpHolds == MinesInit /\ [][MinesNext]_mines => []MinefieldAddsUp
<1>1. MinesInit => MinesInv
  BY DEF MinesInit, MinesInv, MinefieldAddsUp, NoMines
<1>2. MinesInv => MinefieldAddsUp
  BY DEF MinesInv
<1> QED
  BY <1>1, <1>2, MinesStep, PTL

-------------------------------------------------------------------------------
(* Battleship: both fleets keep the ships they were placed with, whatever *)
(* is fired at them, on boards of any size and with ships of any sizes.   *)

Ships == {1, 2}
Shots == {2, 3}
Grids == [Water -> 0 .. 3]
\* Grids that nobody has fired at.
Fresh == [Water -> 0 .. 1]
FleetType ==
    /\ fleet = [play |-> fleet.play, pg |-> fleet.pg, ag |-> fleet.ag, ph |-> fleet.ph,
                horizontal |-> fleet.horizontal, ov |-> fleet.ov, wn |-> fleet.wn]
    /\ fleet.pg \in Grids /\ fleet.ag \in Grids /\ fleet.ph \in 0 .. Len(Sizes)
    /\ fleet.horizontal \in BOOLEAN /\ fleet.ov \in BOOLEAN /\ fleet.wn \in BOOLEAN
\* No shot and no verdict before the last ship is placed.
FleetInv ==
    /\ IF fleet.play = "idle" THEN fleet = NoFleet ELSE FleetType
    /\ fleet.play # "idle" /\ fleet.ph < Len(Sizes) =>
           fleet.pg \in Fresh /\ fleet.ag \in Fresh /\ ~fleet.ov /\ ~fleet.wn
    /\ BattleIsFair

LEMMA WaterIsFinite ==
    /\ IsFiniteSet(Water)
    /\ \A g, vs : /\ {p \in Water : g[p] \in vs} \in SUBSET Water
                  /\ IsFiniteSet({p \in Water : g[p] \in vs}) /\ Cells2(g, vs) \in Nat
<1>1. Waters \in Nat
  BY FleetAssumption
<1>2. IsFiniteSet(0 .. Waters - 1)
  <2>1. 0 \in Int /\ Waters - 1 \in Int
    BY <1>1
  <2> QED
    BY <2>1, FS_Interval
<1>3. IsFiniteSet(Water)
  BY <1>2, FS_Product DEF Water
<1>4. ASSUME NEW g, NEW vs
      PROVE  /\ {p \in Water : g[p] \in vs} \in SUBSET Water
             /\ IsFiniteSet({p \in Water : g[p] \in vs}) /\ Cells2(g, vs) \in Nat
  <2> DEFINE S == {p \in Water : g[p] \in vs}
  <2>1. S \in SUBSET Water
    OBVIOUS
  <2>2. IsFiniteSet(S)
    <3> HIDE DEF S
    <3> QED
      BY <1>3, <2>1, FS_Subset
  <2>3. Cardinality(S) \in Nat
    <3> HIDE DEF S
    <3> QED
      BY <2>2, FS_CardinalityType
  <2> QED
    BY <2>1, <2>2, <2>3 DEF Cells2
<1> QED
  BY <1>3, <1>4

\* A ship has as many cells as its size.
LEMMA ShipHasItsSize ==
    ASSUME NEW x \in Int, NEW y \in Int, NEW sz \in Nat, NEW h \in BOOLEAN
    PROVE  IsFiniteSet(ShipAt(x, y, sz, h)) /\ Cardinality(ShipAt(x, y, sz, h)) = sz
<1> DEFINE I == 0 .. sz - 1
<1> DEFINE S == ShipAt(x, y, sz, h)
<1> DEFINE f == [i \in I |-> IF h THEN <<x + i, y>> ELSE <<x, y + i>>]
<1>1. IsFiniteSet(I) /\ Cardinality(I) = sz
  <2>1. 0 \in Int /\ sz - 1 \in Int /\ (0 > sz - 1 <=> sz = 0) /\ sz - 1 - 0 + 1 = sz
    OBVIOUS
  <2> QED
    BY <2>1, FS_Interval
<1>2. f \in [I -> S] /\ \A t \in S : \E i \in I : f[i] = t
  BY DEF ShipAt
<1>3. ASSUME NEW i \in I, NEW j \in I, f[i] = f[j] PROVE i = j
  BY <1>3
<1>4. f \in Bijection(I, S)
  <2> HIDE DEF f, I, S
  <2> QED
    BY <1>2, <1>3 DEF Bijection, Injection, Surjection, IsInjective
<1>5. ExistsBijection(I, S)
  BY <1>4, Zenon DEF ExistsBijection
<1> HIDE DEF I, S
<1>6. IsFiniteSet(S) /\ Cardinality(S) = sz
  BY <1>1, <1>5, FS_Bijection
<1> QED
  BY <1>6 DEF S

\* How many cells the first n ships have.
LEMMA FirstShipsIs ==
    /\ FirstShips[0] = 0
    /\ \A n \in 1 .. Len(Sizes) : FirstShips[n] = FirstShips[n - 1] + Sizes[n]
    /\ \A n \in 0 .. Len(Sizes) : FirstShips[n] \in Nat
    /\ FirstShips[Len(Sizes)] > 0
<1> DEFINE N == Len(Sizes)
<1> DEFINE T == Nat
<1> DEFINE step(h) == [n \in 0 .. Len(Sizes) |-> IF n = 0 THEN 0 ELSE h[n - 1] + Sizes[n]]
<1> DEFINE F == [p \in Nat \X T |-> IF p[1] \in 1 .. N THEN p[2] + Sizes[p[1]] ELSE 0]
<1>1. N \in Nat /\ N # 0 /\ \A n \in 1 .. N : Sizes[n] \in Nat \ {0}
  BY FleetAssumption
<1>2. F \in [Nat \X T -> T]
  <2> HIDE DEF N
  <2> QED
    BY <1>1
<1>3. \E g : Recursive_(g, T, 0, F, N)
  <2> HIDE DEF F, N
  <2> QED
    BY <1>1, <1>2, Recursion
<1>4. \E h : h = step(h)
  <2>1. PICK g : Recursive_(g, T, 0, F, N)
    BY <1>3
  <2>2. ASSUME NEW i \in 0 .. N
        PROVE  g[i] = IF i = 0 THEN 0 ELSE g[i - 1] + Sizes[i]
    <3>1. g[i] = IF i = 0 THEN 0 ELSE F[<<i, g[i - 1]>>]
      <4> HIDE DEF F, T, N
      <4> QED
        BY <1>1, <2>1 DEF Recursive_
    <3>2. ASSUME i # 0 PROVE F[<<i, g[i - 1]>>] = g[i - 1] + Sizes[i]
      <4>1. i - 1 \in 0 .. N /\ i \in Nat /\ i \in 1 .. N
        <5> HIDE DEF N
        <5> QED
          BY <1>1, <3>2
      <4>2. g[i - 1] \in T
        <5> HIDE DEF F, T, N
        <5> QED
          BY <2>1, <4>1 DEF Recursive_
      <4> HIDE DEF T, N
      <4> QED
        BY <4>1, <4>2
    <3> HIDE DEF F
    <3> QED
      BY <3>1, <3>2
  <2>3. g \in [0 .. N -> T]
    BY <2>1 DEF Recursive_
  <2>4. g = step(g)
    <3> HIDE DEF T
    <3> QED
      BY <2>2, <2>3
  <2> QED
    BY <2>4
<1>5. FirstShips = step(FirstShips)
  BY <1>4 DEF FirstShips
<1>6. ASSUME NEW n \in 0 .. N
      PROVE  FirstShips[n] = IF n = 0 THEN 0 ELSE FirstShips[n - 1] + Sizes[n]
  <2>1. FirstShips[n] = step(FirstShips)[n]
    <3> HIDE DEF step
    <3> QED
      BY <1>5
  <2> QED
    BY <2>1
<1> DEFINE S == {n \in Nat : n \in 0 .. N => FirstShips[n] \in Nat /\ (n > 0 => FirstShips[n] > 0)}
<1>7. 0 \in S
  <2> HIDE DEF N
  <2> QED
    BY <1>1, <1>6
<1>8. ASSUME NEW k \in Nat, k \in S PROVE k + 1 \in S
  <2> SUFFICES ASSUME k + 1 \in 0 .. N PROVE FirstShips[k + 1] \in Nat /\ FirstShips[k + 1] > 0
    OBVIOUS
  <2> HIDE DEF N
  <2>1. k \in 0 .. N /\ (k + 1) - 1 = k /\ k + 1 # 0 /\ k + 1 \in 1 .. N
    BY <1>1
  <2>2. FirstShips[k] \in Nat /\ Sizes[k + 1] \in Nat \ {0}
    BY <1>1, <1>8, <2>1
  <2>3. FirstShips[k + 1] = FirstShips[k] + Sizes[k + 1]
    BY <1>6, <2>1
  <2> QED
    BY <2>2, <2>3
<1>9. Nat \subseteq S
  <2> HIDE DEF S
  <2> QED
    BY <1>7, <1>8, SetInduction
<1> HIDE DEF N
<1>10. 0 \in 0 .. N /\ N \in 0 .. N /\ N > 0 /\ 1 .. N \subseteq 0 .. N
  BY <1>1
<1> QED
  BY <1>1, <1>6, <1>9, <1>10 DEF N

LEMMA Putting ==
    ASSUME NEW g \in Fresh, NEW x \in Int, NEW y \in Int, NEW sz \in Nat, NEW h \in BOOLEAN,
           CanShip(g, x, y, sz, h)
    PROVE  Put(g, x, y, sz, h) \in Fresh /\ Cells2(Put(g, x, y, sz, h), Ships) = Cells2(g, Ships) + sz
<1> DEFINE S == ShipAt(x, y, sz, h)
<1> DEFINE G == Put(g, x, y, sz, h)
<1> DEFINE old == {p \in Water : g[p] \in Ships}
<1> DEFINE new == {p \in Water : G[p] \in Ships}
<1>1. S \subseteq {p \in Water : g[p] = 0}
  BY DEF CanShip
<1>2. G = [p \in Water |-> IF p \in S THEN 1 ELSE g[p]]
  BY DEF Put
<1>3. IsFiniteSet(S) /\ Cardinality(S) = sz
  BY ShipHasItsSize
<1>4. IsFiniteSet(old) /\ Cardinality(old) = Cells2(g, Ships) /\ Cardinality(old) \in Nat
  BY WaterIsFinite DEF Cells2
<1>5. Cells2(G, Ships) = Cardinality(new)
  BY DEF Cells2
<1> HIDE DEF S, G
<1>6. G \in Fresh
  BY <1>1, <1>2 DEF Fresh
<1>7. new = old \cup S /\ old \cap S = {}
  BY <1>1, <1>2 DEF Ships
<1> HIDE DEF old, new
<1>8. Cardinality(new) = Cardinality(old) + sz
  <2>1. Cardinality(old \cap S) = 0
    BY <1>7, FS_EmptySet
  <2>2. Cardinality(new) = Cardinality(old) + Cardinality(S) - Cardinality(old \cap S)
    BY <1>3, <1>4, <1>7, FS_Union, Zenon
  <2> QED
    BY <1>3, <1>4, <2>1, <2>2
<1> QED
  BY <1>4, <1>5, <1>6, <1>8 DEF G

LEMMA Shooting ==
    ASSUME NEW g \in Grids, NEW p \in Water, g[p] < 2
    PROVE  /\ Shot(g, p) \in Grids /\ Cells2(Shot(g, p), Ships) = Cells2(g, Ships)
           /\ Cells2(Shot(g, p), Shots) = Cells2(g, Shots) + 1
<1> DEFINE G == Shot(g, p)
<1> DEFINE old == {q \in Water : g[q] \in Shots}
<1> DEFINE new == {q \in Water : G[q] \in Shots}
<1>1. g[p] \in {0, 1} /\ g \in [Water -> 0 .. 3]
  BY DEF Grids
<1>2. G \in Grids /\ \A q \in Water : G[q] = IF q = p THEN (IF g[p] = 1 THEN 2 ELSE 3) ELSE g[q]
  BY <1>1 DEF Shot, Grids
<1>3. Cells2(G, Ships) = Cells2(g, Ships)
  <2> HIDE DEF G
  <2>1. {q \in Water : G[q] \in Ships} = {q \in Water : g[q] \in Ships}
    BY <1>1, <1>2 DEF Ships
  <2> QED
    BY <2>1, Zenon DEF Cells2
<1>4. IsFiniteSet(old) /\ Cardinality(old) = Cells2(g, Shots) /\ Cardinality(old) \in Nat
  BY WaterIsFinite DEF Cells2
<1>5. Cells2(G, Shots) = Cardinality(new)
  BY DEF Cells2
<1>6. new = old \cup {p} /\ p \notin old
  <2> HIDE DEF G
  <2> QED
    BY <1>1, <1>2 DEF Shots
<1>7. Cardinality(new) = Cardinality(old) + 1
  <2> HIDE DEF old, new
  <2> QED
    BY <1>4, <1>6, FS_AddElement
<1> QED
  BY <1>2, <1>3, <1>4, <1>5, <1>7

LEMMA FreshGrids ==
    ASSUME NEW g \in Fresh
    PROVE  g \in Grids /\ Cells2(g, Shots) = 0 /\ (Cells2(g, Ships) > 0 => ~sunk(g))
<1>1. g \in Grids
  BY DEF Fresh, Grids
<1>2. {p \in Water : g[p] \in Shots} = {}
  BY DEF Fresh, Shots
<1>3. ASSUME sunk(g) PROVE {p \in Water : g[p] \in Ships} = {}
  BY <1>3 DEF Fresh, Ships, sunk
<1> QED
  BY <1>1, <1>2, <1>3, FS_EmptySet DEF Cells2

\* However the ships are placed, none covers another.
LEMMA FilledIs ==
    ASSUME NEW placed \in 0 .. Len(Sizes), NEW grid \in Fresh, Cells2(grid, Ships) = FirstShips[placed],
           NEW g \in Filled(placed, grid)
    PROVE  g \in Fresh /\ Cells2(g, Ships) = FirstShips[Len(Sizes)]
<1> DEFINE N == Len(Sizes) - placed
<1> DEFINE T == SUBSET Fresh
<1> DEFINE more(t, n) == UNION {Placements(k, Sizes[placed + n]) : k \in t}
<1> DEFINE step(h) == [n \in 0 .. N |-> IF n = 0 THEN {grid} ELSE more(h[n - 1], n)]
<1> DEFINE F == [p \in Nat \X T |-> more(p[2], p[1])]
<1>1. N \in Nat /\ placed \in Nat /\ Len(Sizes) \in Nat /\ Len(Sizes) = placed + N
  BY FleetAssumption
<1>2. ASSUME NEW t \in T, NEW n \in Nat PROVE more(t, n) \in T
  <2>1. ASSUME NEW k \in Fresh, NEW sz, NEW r \in Placements(k, sz) PROVE r \in Fresh
    BY <2>1 DEF Placements, Put, Fresh
  <2> QED
    BY <2>1
<1>3. F \in [Nat \X T -> T]
  <2> SUFFICES ASSUME NEW p \in Nat \X T PROVE more(p[2], p[1]) \in T
    OBVIOUS
  <2> HIDE DEF T, more
  <2> QED
    BY <1>2
<1> HIDE DEF more
<1>4. {grid} \in T
  OBVIOUS
<1>5. \E h : h = step(h)
  <2>1. \E r : Recursive_(r, T, {grid}, F, N)
    <3> HIDE DEF F, T, N
    <3> QED
      BY <1>1, <1>3, <1>4, Recursion
  <2>2. PICK r : Recursive_(r, T, {grid}, F, N)
    BY <2>1
  <2>3. ASSUME NEW i \in 0 .. N
        PROVE  r[i] = IF i = 0 THEN {grid} ELSE more(r[i - 1], i)
    <3>1. r[i] = IF i = 0 THEN {grid} ELSE F[<<i, r[i - 1]>>]
      <4> HIDE DEF F, T, N
      <4> QED
        BY <1>1, <2>2 DEF Recursive_
    <3>2. ASSUME i # 0 PROVE F[<<i, r[i - 1]>>] = more(r[i - 1], i)
      <4>1. i - 1 \in 0 .. N /\ i \in Nat
        <5> HIDE DEF N
        <5> QED
          BY <1>1, <3>2
      <4>2. r[i - 1] \in T
        <5> HIDE DEF F, T, N
        <5> QED
          BY <2>2, <4>1 DEF Recursive_
      <4> HIDE DEF T
      <4> QED
        BY <4>1, <4>2
    <3> HIDE DEF F
    <3> QED
      BY <3>1, <3>2
  <2>4. r \in [0 .. N -> T]
    BY <2>2 DEF Recursive_
  <2>5. r = step(r)
    <3> HIDE DEF T, N
    <3> QED
      BY <2>3, <2>4
  <2> QED
    BY <2>5
<1>6. \E h : h = step(h) /\ Filled(placed, grid) = h[N]
  BY <1>5 DEF Filled, more
<1>7. PICK h : h = step(h) /\ Filled(placed, grid) = h[N]
  BY <1>6
<1>8. ASSUME NEW i \in 0 .. N PROVE h[i] = IF i = 0 THEN {grid} ELSE more(h[i - 1], i)
  <2>1. h[i] = step(h)[i]
    <3> HIDE DEF step
    <3> QED
      BY <1>7
  <2> QED
    BY <2>1
<1> DEFINE Good(n, k) == k \in Fresh /\ Cells2(k, Ships) = FirstShips[placed + n]
<1> DEFINE S == {n \in Nat : n \in 0 .. N => \A k \in h[n] : Good(n, k)}
<1>9. 0 \in S
  <2> HIDE DEF N
  <2>1. h[0] = {grid} /\ placed + 0 = placed
    BY <1>1, <1>8
  <2> QED
    BY <2>1
<1>10. ASSUME NEW n \in Nat, n \in S PROVE n + 1 \in S
  <2> SUFFICES ASSUME n + 1 \in 0 .. N, NEW k \in h[n + 1] PROVE Good(n + 1, k)
    OBVIOUS
  <2>1. /\ n \in 0 .. N /\ (n + 1) - 1 = n /\ n + 1 # 0 /\ placed + (n + 1) \in 1 .. Len(Sizes)
        /\ placed + (n + 1) - 1 = placed + n
    BY <1>1
  <2>2. h[n + 1] = more(h[n], n + 1)
    <3> HIDE DEF N
    <3> QED
      BY <1>8, <2>1
  <2> DEFINE sz == Sizes[placed + (n + 1)]
  <2>3. PICK k0 \in h[n] : k \in Placements(k0, sz)
    BY <2>2 DEF more
  <2>4. Good(n, k0)
    BY <1>10, <2>1
  <2>5. sz \in Nat
    BY <2>1, FleetAssumption
  <2>6. FirstShips[placed + (n + 1)] = FirstShips[placed + n] + sz
    BY <2>1, FirstShipsIs
  <2> HIDE DEF sz
  <2>7. PICK q \in Water \X BOOLEAN :
            CanShip(k0, q[1][1], q[1][2], sz, q[2]) /\ k = Put(k0, q[1][1], q[1][2], sz, q[2])
    BY <2>3 DEF Placements
  <2>8. q[1][1] \in Int /\ q[1][2] \in Int /\ q[2] \in BOOLEAN
    BY FleetAssumption DEF Water
  <2>9. k \in Fresh /\ Cells2(k, Ships) = Cells2(k0, Ships) + sz
    BY <2>4, <2>5, <2>7, <2>8, Putting
  <2> QED
    BY <2>4, <2>6, <2>9
<1>11. Nat \subseteq S
  <2> HIDE DEF S
  <2> QED
    BY <1>9, <1>10, SetInduction
<1>12. N \in 0 .. N
  <2> HIDE DEF N
  <2> QED
    BY <1>1
<1>13. \A k \in h[N] : Good(N, k)
  <2> HIDE DEF N, Good
  <2> QED
    BY <1>1, <1>11, <1>12
<1> QED
  BY <1>1, <1>7, <1>13

LEMMA FleetStep == FleetInv /\ [FleetNext]_fleet => FleetInv'
<1> SUFFICES ASSUME FleetInv, [FleetNext]_fleet
             PROVE  FleetInv'
  OBVIOUS
<1>1. CASE PlayFleet
  <2>1. PICK ag \in Filled(0, Calm) : fleet' = [NoFleet EXCEPT !.play = "on", !.ag = ag]
    BY <1>1 DEF PlayFleet
  <2>2. Calm \in Fresh /\ Cells2(Calm, Ships) = 0
    <3>1. {p \in Water : Calm[p] \in Ships} = {}
      BY DEF Calm, Ships
    <3> QED
      BY <3>1, FS_EmptySet DEF Calm, Fresh, Cells2
  <2>3. Len(Sizes) \in Nat /\ 0 \in 0 .. Len(Sizes) /\ Len(Sizes) # 0
    BY FleetAssumption
  <2>4. ag \in Fresh /\ Cells2(ag, Ships) = FirstShips[Len(Sizes)]
    BY <2>1, <2>2, <2>3, FirstShipsIs, FilledIs
  <2>5. /\ fleet'.play = "on" /\ fleet'.pg = Calm /\ fleet'.ag = ag /\ fleet'.ph = 0
        /\ fleet'.horizontal = TRUE /\ fleet'.ov = FALSE /\ fleet'.wn = FALSE
        /\ fleet' = [play |-> fleet'.play, pg |-> fleet'.pg, ag |-> fleet'.ag, ph |-> fleet'.ph,
                     horizontal |-> fleet'.horizontal, ov |-> fleet'.ov, wn |-> fleet'.wn]
    BY <2>1 DEF NoFleet
  <2>6. ag \in Grids /\ Calm \in Grids /\ ~sunk(ag) /\ Cells2(ag, Shots) = 0 /\ Cells2(Calm, Shots) = 0
    BY <2>2, <2>4, FirstShipsIs, FreshGrids
  <2>7. FleetType'
    BY <2>3, <2>5, <2>6 DEF FleetType
  <2>8. BattleIsFair'
    BY <2>2, <2>3, <2>4, <2>5, <2>6, FirstShipsIs DEF BattleIsFair, Ships, Shots
  <2> QED
    BY <2>2, <2>4, <2>5, <2>7, <2>8 DEF FleetInv
<1> SUFFICES ASSUME fleet.play # "idle" PROVE FleetInv'
  <2>1. CASE UNCHANGED fleet /\ fleet.play = "idle"
    BY <2>1 DEF FleetInv, BattleIsFair
  <2>2. CASE fleet.play = "idle" /\ ~UNCHANGED fleet
    BY <1>1, <2>2 DEF FleetNext, PlaceShip, Turn, RandomShips, Placing, fire, QuitFleet
  <2> QED
    BY <2>1, <2>2
<1>2. FleetType /\ Len(Sizes) \in Nat
  BY FleetAssumption DEF FleetInv
<1>3. /\ Cells2(fleet.ag, Ships) = FirstShips[Len(Sizes)]
      /\ Cells2(fleet.pg, Ships) = FirstShips[fleet.ph]
      /\ Cells2(fleet.ag, Shots) - Cells2(fleet.pg, Shots) = (IF fleet.wn THEN 1 ELSE 0)
      /\ fleet.wn <=> sunk(fleet.ag)
      /\ fleet.ov <=> fleet.ph = Len(Sizes) /\ sunk(fleet.pg)
      /\ ~(fleet.ov /\ fleet.wn)
  BY DEF FleetInv, BattleIsFair, Ships, Shots
<1>4. fleet.ph < Len(Sizes) =>
          fleet.pg \in Fresh /\ fleet.ag \in Fresh /\ ~fleet.ov /\ ~fleet.wn
  BY DEF FleetInv
\* The ships of a player: the other board is left alone.
<1>5. ASSUME NEW g \in Fresh, NEW k \in 0 .. Len(Sizes), NEW h \in BOOLEAN,
             fleet.ph < Len(Sizes), Cells2(g, Ships) = FirstShips[k], fleet.ph <= k,
             fleet' = [fleet EXCEPT !.pg = g, !.ph = k, !.horizontal = h]
      PROVE  FleetInv'
  <2>1. /\ fleet'.play = fleet.play /\ fleet'.pg = g /\ fleet'.ag = fleet.ag /\ fleet'.ph = k
        /\ fleet'.horizontal = h /\ fleet'.ov = fleet.ov /\ fleet'.wn = fleet.wn
        /\ fleet' = [play |-> fleet'.play, pg |-> fleet'.pg, ag |-> fleet'.ag, ph |-> fleet'.ph,
                     horizontal |-> fleet'.horizontal, ov |-> fleet'.ov, wn |-> fleet'.wn]
    BY <1>2, <1>5 DEF FleetType
  <2>2. fleet.pg \in Fresh /\ fleet.ag \in Fresh /\ ~fleet.ov /\ ~fleet.wn
    BY <1>4, <1>5
  <2>3. /\ g \in Grids /\ Cells2(g, Shots) = 0 /\ (Cells2(g, Ships) > 0 => ~sunk(g))
        /\ Cells2(fleet.ag, Shots) = 0
    BY <2>2, FreshGrids
  <2>4. FleetType'
    BY <1>2, <1>5, <2>1, <2>3 DEF FleetType
  <2>5. k = Len(Sizes) => ~sunk(g)
    BY <1>5, <2>3, FirstShipsIs
  <2>6. BattleIsFair'
    BY <1>3, <1>5, <2>1, <2>2, <2>3, <2>5 DEF BattleIsFair, Ships, Shots
  <2> QED
    BY <1>5, <2>1, <2>2, <2>4, <2>6 DEF FleetInv
<1>6. CASE PlaceShip
  <2> DEFINE sz == Sizes[fleet.ph + 1]
  <2>1. PICK p \in Water :
          /\ CanShip(fleet.pg, p[1], p[2], sz, fleet.horizontal)
          /\ fleet' = [fleet EXCEPT !.pg = Put(@, p[1], p[2], sz, fleet.horizontal), !.ph = @ + 1]
    BY <1>6 DEF PlaceShip
  <2>2. fleet.ph < Len(Sizes) /\ fleet.ph \in Nat /\ fleet.ph + 1 \in 1 .. Len(Sizes)
    BY <1>2, <1>6 DEF PlaceShip, Placing, FleetType
  <2>3. fleet.pg \in Fresh
    BY <1>4, <2>2
  <2>4. p[1] \in Int /\ p[2] \in Int /\ sz \in Nat /\ fleet.horizontal \in BOOLEAN
    BY <1>2, <2>2, FleetAssumption DEF Water, FleetType
  <2> HIDE DEF sz
  <2> DEFINE g == Put(fleet.pg, p[1], p[2], sz, fleet.horizontal)
  <2>5. g \in Fresh /\ Cells2(g, Ships) = Cells2(fleet.pg, Ships) + sz
    BY <2>1, <2>3, <2>4, Putting
  <2>6. FirstShips[fleet.ph + 1] = FirstShips[(fleet.ph + 1) - 1] + sz /\ (fleet.ph + 1) - 1 = fleet.ph
    BY <2>2, FirstShipsIs DEF sz
  <2>7. Cells2(g, Ships) = FirstShips[fleet.ph + 1]
    BY <1>3, <2>5, <2>6
  <2>8. fleet' = [fleet EXCEPT !.pg = g, !.ph = fleet.ph + 1, !.horizontal = fleet.horizontal]
    BY <1>2, <2>1 DEF FleetType
  <2>9. fleet.ph <= fleet.ph + 1 /\ fleet.ph + 1 \in 0 .. Len(Sizes)
    BY <2>2
  <2> HIDE DEF g
  <2> QED
    BY <1>5, <2>2, <2>4, <2>5, <2>7, <2>8, <2>9
<1>7. CASE Turn
  <2>1. PICK h \in BOOLEAN : fleet' = [fleet EXCEPT !.horizontal = h]
    BY <1>7 DEF Turn
  <2>2. fleet.ph < Len(Sizes) /\ fleet.ph \in 0 .. Len(Sizes) /\ fleet.ph <= fleet.ph
    BY <1>2, <1>7 DEF Turn, Placing, FleetType
  <2>3. fleet' = [fleet EXCEPT !.pg = fleet.pg, !.ph = fleet.ph, !.horizontal = h]
    BY <1>2, <2>1 DEF FleetType
  <2> QED
    BY <1>3, <1>4, <1>5, <2>2, <2>3
<1>8. CASE RandomShips
  <2>1. PICK g \in Filled(fleet.ph, fleet.pg) : fleet' = [fleet EXCEPT !.pg = g, !.ph = Len(Sizes)]
    BY <1>8 DEF RandomShips
  <2>2. fleet.ph < Len(Sizes) /\ fleet.ph \in 0 .. Len(Sizes) /\ fleet.ph <= Len(Sizes)
    BY <1>2, <1>8 DEF RandomShips, Placing, FleetType
  <2>3. g \in Fresh /\ Cells2(g, Ships) = FirstShips[Len(Sizes)]
    BY <1>3, <1>4, <2>1, <2>2, FilledIs
  <2>4. fleet' = [fleet EXCEPT !.pg = g, !.ph = Len(Sizes), !.horizontal = fleet.horizontal]
    BY <1>2, <2>1 DEF FleetType
  <2>5. fleet.horizontal \in BOOLEAN /\ Len(Sizes) \in 0 .. Len(Sizes)
    BY <1>2 DEF FleetType
  <2> QED
    BY <1>5, <2>2, <2>3, <2>4, <2>5
<1>9. CASE fire
  <2>1. fleet.ph = Len(Sizes) /\ ~fleet.ov /\ ~fleet.wn /\ fleet.play = "on"
    <3>1. fleet.play = "on" /\ ~Placing /\ ~fleet.ov /\ ~fleet.wn
      BY <1>9 DEF fire
    <3>2. fleet.ph \in 0 .. Len(Sizes)
      BY <1>2 DEF FleetType
    <3> QED
      BY <1>2, <3>1, <3>2 DEF Placing
  <2>2. PICK p \in Water :
          /\ fleet.ag[p] < 2
          /\ IF sunk(Shot(fleet.ag, p)) THEN fleet' = [fleet EXCEPT !.ag = Shot(fleet.ag, p), !.wn = TRUE]
             ELSE \E q \in {r \in Water : fleet.pg[r] < 2} :
                    fleet' = [fleet EXCEPT !.ag = Shot(fleet.ag, p), !.pg = Shot(fleet.pg, q),
                                           !.ov = sunk(Shot(fleet.pg, q))]
    BY <1>9 DEF fire
  <2>3. fleet.ag \in Grids /\ fleet.pg \in Grids
    BY <1>2 DEF FleetType
  <2> DEFINE ag == Shot(fleet.ag, p)
  <2>4. /\ ag \in Grids /\ Cells2(ag, Ships) = Cells2(fleet.ag, Ships)
        /\ Cells2(ag, Shots) = Cells2(fleet.ag, Shots) + 1
    BY <2>2, <2>3, Shooting
  <2>5. Cells2(fleet.ag, Shots) \in Nat /\ Cells2(fleet.pg, Shots) \in Nat
    BY WaterIsFinite
  <2> HIDE DEF ag
  <2>6. CASE sunk(ag)
    <3>1. fleet' = [fleet EXCEPT !.ag = ag, !.wn = TRUE]
      BY <2>2, <2>6 DEF ag
    <3>2. /\ fleet'.play = fleet.play /\ fleet'.pg = fleet.pg /\ fleet'.ag = ag /\ fleet'.ph = fleet.ph
          /\ fleet'.horizontal = fleet.horizontal /\ fleet'.ov = fleet.ov /\ fleet'.wn = TRUE
          /\ fleet' = [play |-> fleet'.play, pg |-> fleet'.pg, ag |-> fleet'.ag, ph |-> fleet'.ph,
                       horizontal |-> fleet'.horizontal, ov |-> fleet'.ov, wn |-> fleet'.wn]
      BY <1>2, <3>1 DEF FleetType
    <3>3. FleetType'
      BY <1>2, <2>4, <3>2 DEF FleetType
    <3>4. BattleIsFair'
      BY <1>3, <2>1, <2>4, <2>5, <2>6, <3>2 DEF BattleIsFair, Ships, Shots
    <3> QED
      BY <1>2, <2>1, <3>2, <3>3, <3>4 DEF FleetInv
  <2>7. CASE ~sunk(ag)
    <3>1. PICK q \in Water :
            /\ fleet.pg[q] < 2
            /\ fleet' = [fleet EXCEPT !.ag = ag, !.pg = Shot(fleet.pg, q), !.ov = sunk(Shot(fleet.pg, q))]
      BY <2>2, <2>7 DEF ag
    <3> DEFINE pg == Shot(fleet.pg, q)
    <3>2. /\ pg \in Grids /\ Cells2(pg, Ships) = Cells2(fleet.pg, Ships)
          /\ Cells2(pg, Shots) = Cells2(fleet.pg, Shots) + 1
      BY <2>3, <3>1, Shooting
    <3> HIDE DEF pg
    <3>3. fleet' = [fleet EXCEPT !.ag = ag, !.pg = pg, !.ov = sunk(pg)]
      BY <3>1 DEF pg
    <3>4. /\ fleet'.play = fleet.play /\ fleet'.pg = pg /\ fleet'.ag = ag /\ fleet'.ph = fleet.ph
          /\ fleet'.horizontal = fleet.horizontal /\ fleet'.ov = sunk(pg) /\ fleet'.wn = fleet.wn
          /\ fleet' = [play |-> fleet'.play, pg |-> fleet'.pg, ag |-> fleet'.ag, ph |-> fleet'.ph,
                       horizontal |-> fleet'.horizontal, ov |-> fleet'.ov, wn |-> fleet'.wn]
      BY <1>2, <3>3 DEF FleetType
    <3>5. sunk(pg) \in BOOLEAN
      BY DEF sunk
    <3>6. FleetType'
      BY <1>2, <2>4, <3>2, <3>4, <3>5 DEF FleetType
    <3>7. BattleIsFair'
      BY <1>3, <2>1, <2>4, <2>5, <2>7, <3>2, <3>4 DEF BattleIsFair, Ships, Shots
    <3> QED
      BY <1>2, <2>1, <3>4, <3>6, <3>7 DEF FleetInv
  <2> QED
    BY <2>6, <2>7
<1>10. CASE QuitFleet
  <2>1. fleet' = [fleet EXCEPT !.play = "over"]
    BY <1>10 DEF QuitFleet
  <2>2. /\ fleet'.play = "over" /\ fleet'.pg = fleet.pg /\ fleet'.ag = fleet.ag /\ fleet'.ph = fleet.ph
        /\ fleet'.horizontal = fleet.horizontal /\ fleet'.ov = fleet.ov /\ fleet'.wn = fleet.wn
        /\ fleet' = [play |-> fleet'.play, pg |-> fleet'.pg, ag |-> fleet'.ag, ph |-> fleet'.ph,
                     horizontal |-> fleet'.horizontal, ov |-> fleet'.ov, wn |-> fleet'.wn]
    BY <1>2, <2>1 DEF FleetType
  <2>3. FleetType'
    BY <1>2, <2>2 DEF FleetType
  <2>4. BattleIsFair'
    BY <1>3, <2>2 DEF BattleIsFair, Ships, Shots
  <2> QED
    BY <1>4, <2>2, <2>3, <2>4 DEF FleetInv
<1>11. CASE UNCHANGED fleet
  <2>1. FleetType'
    BY <1>2, <1>11 DEF FleetType
  <2>2. BattleIsFair'
    BY <1>3, <1>11 DEF BattleIsFair, Ships, Shots
  <2> QED
    BY <1>4, <1>11, <2>1, <2>2 DEF FleetInv
<1> QED
  BY <1>1, <1>6, <1>7, <1>8, <1>9, <1>10, <1>11 DEF FleetNext

\* Battles of fleets of any ships on boards of any size.
THEOREM BattleIsFairHolds == FleetInit /\ [][FleetNext]_fleet => []BattleIsFair
<1>1. FleetInit => FleetInv
  BY DEF FleetInit, FleetInv, BattleIsFair, NoFleet
<1>2. FleetInv => BattleIsFair
  BY DEF FleetInv
<1> QED
  BY <1>1, <1>2, FleetStep, PTL

-------------------------------------------------------------------------------
(* Chess: a move changes a few squares, and who attacks whom on the board  *)
(* after it is traced back to the board that lg looked at.                 *)

\* Where the king of a side begins, the corners, and what may stand on a square.
Home(c) == <<4, IF c = 1 THEN 7 ELSE 0>>
IsCorner(q) == q[1] \in {0, 7} /\ q[2] \in {0, 7}
Pieces == -6 .. 6

LEMMA Squares ==
    /\ \A s \in Square : s = <<s[1], s[2]>> /\ s[1] \in 0 .. 7 /\ s[2] \in 0 .. 7 /\ s # NoSquare
    /\ \A x \in 0 .. 7, y \in 0 .. 7 : <<x, y>> \in Square /\ <<x, y>>[1] = x /\ <<x, y>>[2] = y
    /\ \A s, t \in Square : s = t <=> s[1] = t[1] /\ s[2] = t[2]
<1>1. ASSUME NEW s \in Square PROVE s = <<s[1], s[2]>> /\ s[1] \in 0 .. 7 /\ s[2] \in 0 .. 7
  BY DEF Square
<1>2. ASSUME NEW s \in Square PROVE s # NoSquare
  <2>1. s[1] # -1
    BY <1>1
  <2>2. NoSquare[1] = -1
    BY DEF NoSquare
  <2> QED
    BY <2>1, <2>2
<1>3. ASSUME NEW x \in 0 .. 7, NEW y \in 0 .. 7
      PROVE  <<x, y>> \in Square /\ <<x, y>>[1] = x /\ <<x, y>>[2] = y
  BY DEF Square
<1>4. ASSUME NEW s \in Square, NEW t \in Square PROVE s = t <=> s[1] = t[1] /\ s[2] = t[2]
  BY <1>1, Zenon
<1> QED
  BY <1>1, <1>2, <1>3, <1>4

LEMMA Signs ==
    \A v \in Int : /\ Colour(v) \in {-1, 0, 1} /\ (Colour(v) = 0 <=> v = 0) /\ Abs(v) \in Nat
                   /\ (Abs(v) = 0 <=> v = 0) /\ v = Colour(v) * Abs(v)
                   /\ (Colour(v) = 1 <=> v > 0) /\ (Colour(v) = -1 <=> v < 0)
                   /\ Abs(-v) = Abs(v) /\ Colour(-v) = -Colour(v)
BY DEF Abs, Colour

LEMMA Between ==
    ASSUME NEW a \in 0 .. 7, NEW c \in 0 .. 7, NEW i \in 1 .. Abs(c - a) - 1
    PROVE  a + i * Colour(c - a) \in 1 .. 6 /\ a + i * Colour(c - a) # a /\ a + i * Colour(c - a) # c
<1>1. CASE c > a
  <2>1. Abs(c - a) = c - a /\ Colour(c - a) = 1
    BY <1>1 DEF Abs, Colour
  <2>2. i * 1 = i
    OBVIOUS
  <2> QED
    BY <1>1, <2>1, <2>2
<1>2. CASE c < a
  <2>1. Abs(c - a) = a - c /\ Colour(c - a) = -1
    BY <1>2 DEF Abs, Colour
  <2>2. i * (-1) = -i
    OBVIOUS
  <2> QED
    BY <1>2, <2>1, <2>2
<1>3. CASE c = a
  <2>1. Abs(c - a) = 0
    BY <1>3 DEF Abs
  <2> QED
    BY <2>1
<1> QED
  BY <1>1, <1>2, <1>3

\* What lies between two squares of a line is a square, neither of the two, and no corner.
OnLine(s, t, i) == <<s[1] + i * Colour(t[1] - s[1]), s[2] + i * Colour(t[2] - s[2])>>
LEMMA LineIsInside ==
    ASSUME NEW s \in Square, NEW t \in Square, Diagonal(s, t) \/ Straight(s, t),
           NEW i \in 1 .. Larger(Abs(t[1] - s[1]), Abs(t[2] - s[2])) - 1
    PROVE  OnLine(s, t, i) \in Square /\ OnLine(s, t, i) # s /\ OnLine(s, t, i) # t /\ ~IsCorner(OnLine(s, t, i))
<1>1. s[1] \in 0 .. 7 /\ s[2] \in 0 .. 7 /\ t[1] \in 0 .. 7 /\ t[2] \in 0 .. 7 /\ i \in Int
  BY Squares
<1> DEFINE x == s[1] + i * Colour(t[1] - s[1])
<1> DEFINE y == s[2] + i * Colour(t[2] - s[2])
<1>2. CASE Diagonal(s, t)
  <2>1. Abs(t[1] - s[1]) = Abs(t[2] - s[2])
    BY <1>2 DEF Diagonal
  <2>2. Larger(Abs(t[1] - s[1]), Abs(t[2] - s[2])) = Abs(t[1] - s[1])
    BY <2>1 DEF Larger
  <2>3. i \in 1 .. Abs(t[1] - s[1]) - 1 /\ i \in 1 .. Abs(t[2] - s[2]) - 1
    BY <2>1, <2>2
  <2>4. x \in 1 .. 6 /\ x # s[1] /\ x # t[1] /\ y \in 1 .. 6
    BY <1>1, <2>3, Between
  <2> HIDE DEF x, y
  <2>5. OnLine(s, t, i) = <<x, y>>
    BY Zenon DEF OnLine, x, y
  <2>6. x \in 0 .. 7 /\ y \in 0 .. 7 /\ x \notin {0, 7}
    BY <2>4
  <2>7. OnLine(s, t, i) \in Square /\ OnLine(s, t, i)[1] = x /\ OnLine(s, t, i)[2] = y
    <3>1. <<x, y>> \in Square /\ <<x, y>>[1] = x /\ <<x, y>>[2] = y
      BY <2>6, Squares
    <3> QED
      BY <2>5, <3>1
  <2> QED
    BY <2>4, <2>6, <2>7 DEF IsCorner
<1>3. CASE s[1] = t[1] /\ s[2] # t[2]
  <2>1. Abs(t[1] - s[1]) = 0 /\ Colour(t[1] - s[1]) = 0 /\ Abs(t[2] - s[2]) > 0 /\ Abs(t[2] - s[2]) \in Int
    BY <1>1, <1>3 DEF Abs, Colour
  <2>2. Larger(Abs(t[1] - s[1]), Abs(t[2] - s[2])) = Abs(t[2] - s[2])
    BY <2>1 DEF Larger
  <2>3. i \in 1 .. Abs(t[2] - s[2]) - 1
    BY <2>2
  <2>4. y \in 1 .. 6 /\ y # s[2] /\ y # t[2]
    BY <1>1, <2>3, Between
  <2>5. x = s[1]
    BY <1>1, <2>1
  <2> HIDE DEF x, y
  <2>6. OnLine(s, t, i) = <<x, y>>
    BY Zenon DEF OnLine, x, y
  <2>7. x \in 0 .. 7 /\ y \in 0 .. 7 /\ (x \notin {0, 7} \/ y \notin {0, 7})
    BY <1>1, <2>4, <2>5
  <2>8. OnLine(s, t, i) \in Square /\ OnLine(s, t, i)[1] = x /\ OnLine(s, t, i)[2] = y
    <3>1. <<x, y>> \in Square /\ <<x, y>>[1] = x /\ <<x, y>>[2] = y
      BY <2>7, Squares
    <3> QED
      BY <2>6, <3>1
  <2> QED
    BY <2>4, <2>7, <2>8 DEF IsCorner
<1>4. CASE s[2] = t[2] /\ s[1] # t[1]
  <2>1. Abs(t[2] - s[2]) = 0 /\ Colour(t[2] - s[2]) = 0 /\ Abs(t[1] - s[1]) > 0 /\ Abs(t[1] - s[1]) \in Int
    BY <1>1, <1>4 DEF Abs, Colour
  <2>2. Larger(Abs(t[1] - s[1]), Abs(t[2] - s[2])) = Abs(t[1] - s[1])
    BY <2>1 DEF Larger
  <2>3. i \in 1 .. Abs(t[1] - s[1]) - 1
    BY <2>2
  <2>4. x \in 1 .. 6 /\ x # s[1] /\ x # t[1]
    BY <1>1, <2>3, Between
  <2>5. y = s[2]
    BY <1>1, <2>1
  <2> HIDE DEF x, y
  <2>6. OnLine(s, t, i) = <<x, y>>
    BY Zenon DEF OnLine, x, y
  <2>7. x \in 0 .. 7 /\ y \in 0 .. 7 /\ (x \notin {0, 7} \/ y \notin {0, 7})
    BY <1>1, <2>4, <2>5
  <2>8. OnLine(s, t, i) \in Square /\ OnLine(s, t, i)[1] = x /\ OnLine(s, t, i)[2] = y
    <3>1. <<x, y>> \in Square /\ <<x, y>>[1] = x /\ <<x, y>>[2] = y
      BY <2>7, Squares
    <3> QED
      BY <2>6, <3>1
  <2> QED
    BY <2>4, <2>7, <2>8 DEF IsCorner
<1> QED
  BY <1>2, <1>3, <1>4, Squares DEF Straight

\* A piece strikes on another board what it strikes on one, if the squares that are
\* empty here, corners excepted, are empty there.
LEMMA StrikesToo ==
    ASSUME NEW b, NEW d, NEW s \in Square, NEW t \in Square, Strikes(b, s, t), d[s] = b[s],
           \A q \in Square \ {s, t} : ~IsCorner(q) /\ b[q] = 0 => d[q] = 0
    PROVE  Strikes(d, s, t)
<1>1. ASSUME Diagonal(s, t) \/ Straight(s, t), Open(b, s, t) PROVE Open(d, s, t)
  <2> SUFFICES ASSUME NEW i \in 1 .. Larger(Abs(t[1] - s[1]), Abs(t[2] - s[2])) - 1
               PROVE  d[OnLine(s, t, i)] = 0
    BY Zenon DEF Open, OnLine
  <2>1. b[OnLine(s, t, i)] = 0
    BY <1>1, Zenon DEF Open, OnLine
  <2> QED
    BY <1>1, <2>1, LineIsInside
<1> QED
  BY <1>1, Zenon DEF Strikes

LEMMA GameTypes ==
    ASSUME NEW g, IsGame(g)
    PROVE  /\ g.b \in [Square -> Pieces] /\ g.t \in {-1, 1} /\ g.ov \in BOOLEAN /\ g.wi \in {-1, 0, 1}
           /\ g.ep = NoSquare \/ (g.ep \in Square /\ g.ep[2] \in {2, 5})
           /\ g.ck \in [0 .. 1 -> BOOLEAN] /\ g.cq \in [0 .. 1 -> BOOLEAN]
           /\ Index(g.t) \in 0 .. 1 /\ Index(-g.t) \in 0 .. 1 /\ Index(g.t) # Index(-g.t)
<1>1. g.b \in [Square -> Pieces] /\ g.t \in {-1, 1} /\ g.ov \in BOOLEAN /\ g.wi \in {-1, 0, 1}
      /\ g.ck \in [0 .. 1 -> BOOLEAN] /\ g.cq \in [0 .. 1 -> BOOLEAN]
  BY DEF IsGame, Pieces, cK
<1>2. g.ep = NoSquare \/ (g.ep \in Square /\ g.ep[2] \in {2, 5})
  <2>1. g.ep \in {NoSquare} \cup ((0 .. 7) \X {2, 5})
    BY DEF IsGame
  <2>2. ASSUME NEW e \in (0 .. 7) \X {2, 5} PROVE e \in Square /\ e[2] \in {2, 5}
    BY DEF Square
  <2> QED
    BY <2>1, <2>2
<1>3. Index(1) = 1 /\ Index(-1) = 0
  BY DEF Index
<1>4. Index(g.t) \in 0 .. 1 /\ Index(-g.t) \in 0 .. 1 /\ Index(g.t) # Index(-g.t)
  BY <1>1, <1>3
<1> QED
  BY <1>1, <1>2, <1>4

\* A legal move leaves its square, with a piece of the side to move, for one without.
LEMMA MoveKinds ==
    ASSUME NEW g, IsGame(g), NEW s \in Square, NEW t, lg(g, s, t)
    PROVE  /\ t \in Square /\ s # t /\ Colour(g.b[s]) = g.t /\ Colour(g.b[t]) # g.t
           /\ g.b[s] \in Pieces \ {0} /\ g.b[t] \in Pieces
           /\ Abs(g.b[s]) = cP => PawnMove(g, s, t)
           /\ Abs(g.b[s]) = cK => Strikes(g.b, s, t) \/ Castling(g, s, t)
           /\ Abs(g.b[s]) \notin {cP, cK} => Strikes(g.b, s, t)
           /\ SafeAfter(g, s, t)
<1>1. /\ t \in Square /\ Colour(g.b[s]) = g.t /\ Colour(g.b[t]) # g.t /\ g.b[s] # 0
      /\ SafeAfter(g, s, t)
  BY DEF lg
<1>2. cP # cK
  BY DEF cP, cK
<1>3. /\ Abs(g.b[s]) = cP => PawnMove(g, s, t)
      /\ Abs(g.b[s]) = cK => Strikes(g.b, s, t) \/ Castling(g, s, t)
      /\ Abs(g.b[s]) \notin {cP, cK} => Strikes(g.b, s, t)
  BY <1>2 DEF lg
<1>4. g.b[s] \in Pieces /\ g.b[t] \in Pieces
  BY <1>1, GameTypes
<1> QED
  BY <1>1, <1>3, <1>4

LEMMA PieceIs ==
    ASSUME NEW g, IsGame(g), NEW s \in Square, NEW t \in Square, Colour(g.b[s]) = g.t
    PROVE  /\ PieceAfter(g, s, t) \in Pieces \ {0} /\ Colour(PieceAfter(g, s, t)) = g.t
           /\ PieceAfter(g, s, t) \in {g.b[s], g.t * cQ}
           /\ Abs(PieceAfter(g, s, t)) = cK => PieceAfter(g, s, t) = g.b[s]
           /\ Abs(g.b[s]) = cK => PieceAfter(g, s, t) = g.b[s]
           /\ Abs(PieceAfter(g, s, t)) = cP => PieceAfter(g, s, t) = g.b[s] /\ t[2] \notin {0, 7}
<1>1. g.b[s] \in Pieces /\ g.t \in {-1, 1}
  BY GameTypes
<1> QED
  BY <1>1 DEF PieceAfter, Colour, Abs, Pieces, cQ, cK, cP

LEMMA PlacesDiffer ==
    ASSUME NEW s \in Square, NEW t \in Square
    PROVE  /\ Corner(s, t) \in Square /\ Beside(s, t) \in Square 
           /\ Corner(s, t)[2] = s[2] /\ Corner(s, t)[1] \in {0, 7}
           /\ Beside(s, t)[2] = s[2] /\ Beside(s, t)[1] \in {3, 5}
           /\ <<t[1], s[2]>> \in Square
<1>1. s[1] \in 0 .. 7 /\ s[2] \in 0 .. 7 /\ t[1] \in 0 .. 7
  BY Squares
<1>2. <<t[1], s[2]>> \in Square
  BY <1>1, Squares
<1>3. ASSUME NEW x \in 0 .. 7 PROVE <<x, s[2]>> \in Square /\ <<x, s[2]>>[1] = x /\ <<x, s[2]>>[2] = s[2]
  BY <1>1, Squares
<1>4. CASE t[1] > s[1]
  <2>1. Corner(s, t) = <<7, s[2]>> /\ Beside(s, t) = <<5, s[2]>>
    BY <1>4 DEF Corner, Beside
  <2>2. 7 \in 0 .. 7 /\ 5 \in 0 .. 7
    OBVIOUS
  <2> QED
    BY <1>2, <1>3, <2>1, <2>2
<1>5. CASE ~(t[1] > s[1])
  <2>1. Corner(s, t) = <<0, s[2]>> /\ Beside(s, t) = <<3, s[2]>>
    BY <1>5 DEF Corner, Beside
  <2>2. 0 \in 0 .. 7 /\ 3 \in 0 .. 7
    OBVIOUS
  <2> QED
    BY <1>2, <1>3, <2>1, <2>2
<1> QED
  BY <1>4, <1>5

\* What stands on a square after a move.
LEMMA BoardIs ==
    ASSUME NEW g, IsGame(g), NEW s \in Square, NEW t \in Square, Colour(g.b[s]) = g.t
    PROVE  /\ BoardAfter(g, s, t) \in [Square -> Pieces]
           /\ \A q \in Square :
                BoardAfter(g, s, t)[q] =
                    IF q = s THEN 0 ELSE IF q = t THEN PieceAfter(g, s, t)
                    ELSE IF IsPassant(g, s, t) /\ q = <<t[1], s[2]>> THEN 0
                    ELSE IF IsCastling(g.b, s, t) /\ q = Corner(s, t) THEN 0
                    ELSE IF IsCastling(g.b, s, t) /\ q = Beside(s, t) THEN g.b[Corner(s, t)]
                    ELSE g.b[q]
<1> DEFINE e == Castled(g.b, s, t)
<1> DEFINE c == IF IsPassant(g, s, t) THEN [e EXCEPT ![<<t[1], s[2]>>] = 0] ELSE e
<1>1. g.b \in [Square -> Pieces] /\ 0 \in Pieces /\ PieceAfter(g, s, t) \in Pieces
  BY GameTypes, PieceIs DEF Pieces
<1>2. Corner(s, t) \in Square /\ Beside(s, t) \in Square /\ <<t[1], s[2]>> \in Square
  BY PlacesDiffer
<1>3. /\ e \in [Square -> Pieces]
      /\ \A q \in Square : e[q] = IF IsCastling(g.b, s, t) /\ q = Corner(s, t) THEN 0
                                  ELSE IF IsCastling(g.b, s, t) /\ q = Beside(s, t) THEN g.b[Corner(s, t)]
                                  ELSE g.b[q]
  <2>1. CASE IsCastling(g.b, s, t)
    <3>1. e = [g.b EXCEPT ![Beside(s, t)] = g.b[Corner(s, t)], ![Corner(s, t)] = 0]
      BY <2>1, Zenon DEF Castled
    <3> HIDE DEF e
    <3> QED
      BY <1>1, <1>2, <2>1, <3>1
  <2>2. CASE ~IsCastling(g.b, s, t)
    <3>1. e = g.b
      BY <2>2, Zenon DEF Castled
    <3> HIDE DEF e
    <3> QED
      BY <1>1, <2>2, <3>1
  <2> QED
    BY <2>1, <2>2
<1> HIDE DEF e
<1>4. /\ c \in [Square -> Pieces]
      /\ \A q \in Square : c[q] = IF IsPassant(g, s, t) /\ q = <<t[1], s[2]>> THEN 0 ELSE e[q]
  BY <1>1, <1>2, <1>3
<1> HIDE DEF c
<1>5. BoardAfter(g, s, t) = [c EXCEPT ![t] = PieceAfter(g, s, t), ![s] = 0]
  BY Zenon DEF BoardAfter, c, e
<1>6. BoardAfter(g, s, t) \in [Square -> Pieces]
  BY <1>1, <1>4, <1>5
<1>7. \A q \in Square : BoardAfter(g, s, t)[q] = IF q = s THEN 0 ELSE IF q = t THEN PieceAfter(g, s, t) ELSE c[q]
  BY <1>4, <1>5
<1> QED
  BY <1>3, <1>4, <1>6, <1>7

\* Castling starts at the king's home, and ends on a bare square nothing strikes.
LEMMA CastlingMove ==
    ASSUME NEW g, IsGame(g), RightsAreKept(g), NEW s \in Square, NEW t, lg(g, s, t),
           IsCastling(g.b, s, t)
    PROVE  /\ s[1] = 4 /\ t[2] = s[2] /\ s[2] \in {0, 7} /\ g.b[s] = g.t * cK /\ g.b[t] = 0
           /\ \A q \in Square : g.b[q] = g.t * cK => q = s
           /\ g.b[Beside(s, t)] = 0 /\ ~at(g.b, t, -g.t)
           /\ \/ t[1] = 6 /\ Corner(s, t) = <<7, s[2]>> /\ Beside(s, t) = <<5, s[2]>>
              \/ t[1] = 2 /\ Corner(s, t) = <<0, s[2]>> /\ Beside(s, t) = <<3, s[2]>> /\ g.b[<<1, s[2]>>] = 0
<1>1. t \in Square /\ Colour(g.b[s]) = g.t /\ g.b[s] \in Pieces /\ g.t \in {-1, 1}
  BY MoveKinds, GameTypes
<1>2. s[1] \in 0 .. 7 /\ s[2] \in 0 .. 7 /\ t[1] \in 0 .. 7 /\ t[2] \in 0 .. 7 /\ s = <<s[1], s[2]>> /\ t = <<t[1], t[2]>>
  BY <1>1, Squares
<1>3. Abs(g.b[s]) = cK /\ Abs(t[1] - s[1]) = 2
  BY DEF IsCastling
<1>4. g.b[s] = g.t * cK
  BY <1>1, <1>3 DEF Abs, Colour, cK, Pieces
<1>5. ~Strikes(g.b, s, t)
  BY <1>3 DEF Strikes, NextTo, cP, cN, cB, cR, cQ, cK
<1>6. Castling(g, s, t)
  BY <1>3, <1>5, MoveKinds
<1>7. /\ t[2] = s[2] /\ s[2] = (IF g.t = 1 THEN 7 ELSE 0)
      /\ g.ck[Index(g.t)] \/ g.cq[Index(g.t)]
  BY <1>6 DEF Castling
<1>8. \A q \in Square : g.b[q] = g.t * cK => q = Home(g.t)
  BY <1>1, <1>7 DEF RightsAreKept, Home
<1>9. s = Home(g.t)
  BY <1>4, <1>8
<1>10. s[1] = 4
  <2>1. Home(g.t)[1] = 4
    BY DEF Home
  <2> QED
    BY <1>9, <2>1
<1>11. \/ t[1] - s[1] = 2 /\ (\A x \in 5 .. 6 : g.b[<<x, s[2]>>] = 0) /\ \A x \in 4 .. 6 : ~at(g.b, <<x, s[2]>>, -g.t)
       \/ t[1] - s[1] = -2 /\ (\A x \in 1 .. 3 : g.b[<<x, s[2]>>] = 0) /\ \A x \in 2 .. 4 : ~at(g.b, <<x, s[2]>>, -g.t)
  BY <1>6 DEF Castling
<1>12. CASE t[1] - s[1] = 2 /\ (\A x \in 5 .. 6 : g.b[<<x, s[2]>>] = 0) /\ \A x \in 4 .. 6 : ~at(g.b, <<x, s[2]>>, -g.t)
  <2>1. t[1] = 6 /\ t[1] > s[1]
    BY <1>2, <1>10, <1>12
  <2>2. Corner(s, t) = <<7, s[2]>> /\ Beside(s, t) = <<5, s[2]>>
    BY <2>1 DEF Corner, Beside
  <2>3. t = <<6, s[2]>>
    BY <1>2, <1>7, <2>1
  <2>4. 5 \in 5 .. 6 /\ 6 \in 5 .. 6 /\ 6 \in 4 .. 6
    OBVIOUS
  <2>5. g.b[<<5, s[2]>>] = 0 /\ g.b[<<6, s[2]>>] = 0 /\ ~at(g.b, <<6, s[2]>>, -g.t)
    BY <1>12, <2>4, Zenon
  <2>6. g.b[Beside(s, t)] = 0 /\ g.b[t] = 0 /\ ~at(g.b, t, -g.t)
    BY <2>2, <2>3, <2>5, Zenon
  <2> QED
    BY <1>4, <1>7, <1>8, <1>9, <1>10, <2>1, <2>2, <2>6
<1>13. CASE t[1] - s[1] = -2 /\ (\A x \in 1 .. 3 : g.b[<<x, s[2]>>] = 0) /\ \A x \in 2 .. 4 : ~at(g.b, <<x, s[2]>>, -g.t)
  <2>1. t[1] = 2 /\ ~(t[1] > s[1])
    BY <1>2, <1>10, <1>13
  <2>2. Corner(s, t) = <<0, s[2]>> /\ Beside(s, t) = <<3, s[2]>>
    BY <2>1 DEF Corner, Beside
  <2>3. t = <<2, s[2]>>
    BY <1>2, <1>7, <2>1
  <2>4. 1 \in 1 .. 3 /\ 2 \in 1 .. 3 /\ 3 \in 1 .. 3 /\ 2 \in 2 .. 4
    OBVIOUS
  <2>5. g.b[<<1, s[2]>>] = 0 /\ g.b[<<2, s[2]>>] = 0 /\ g.b[<<3, s[2]>>] = 0 /\ ~at(g.b, <<2, s[2]>>, -g.t)
    BY <1>13, <2>4, Zenon
  <2>6. g.b[Beside(s, t)] = 0 /\ g.b[t] = 0 /\ ~at(g.b, t, -g.t)
    BY <2>2, <2>3, <2>5, Zenon
  <2> QED
    BY <1>4, <1>7, <1>8, <1>9, <1>10, <2>1, <2>2, <2>5, <2>6
<1> QED
  BY <1>11, <1>12, <1>13

\* A move that changes no more than lg looks at leaves the own king out of check: who
\* strikes it on the new board struck it on the board that lg looks at.
LEMMA OwnKingStaysSafe ==
    ASSUME NEW g, IsGame(g), RightsAreKept(g), NEW s \in Square, NEW t, lg(g, s, t),
           ~IsPassant(g, s, t), ~CarriesKing(g.b, s, t)
    PROVE  ~ic(BoardAfter(g, s, t), g.t)
<1> DEFINE e == BoardAfter(g, s, t)
<1> DEFINE d == [g.b EXCEPT ![t] = g.b[s], ![s] = 0]
<1>1. /\ t \in Square /\ s # t /\ Colour(g.b[s]) = g.t /\ Colour(g.b[t]) # g.t /\ g.b[s] # 0
      /\ g.t \in {-1, 1} /\ ~ic(d, g.t)
  BY MoveKinds, GameTypes DEF SafeAfter
<1>0. d = [g.b EXCEPT ![t] = g.b[s], ![s] = 0]
  OBVIOUS
<1> HIDE DEF d
<1>2. /\ d[s] = 0 /\ d[t] = g.b[s] /\ \A q \in Square \ {s, t} : d[q] = g.b[q]
  <2>1. g.b \in [Square -> Pieces] /\ s \in Square /\ t \in Square /\ s # t
    BY <1>1, GameTypes
  <2> QED
    BY <1>0, <2>1
<1>3. /\ e \in [Square -> Pieces]
      /\ \A q \in Square : e[q] = IF q = s THEN 0 ELSE IF q = t THEN PieceAfter(g, s, t)
                    ELSE IF IsCastling(g.b, s, t) /\ q = Corner(s, t) THEN 0
                    ELSE IF IsCastling(g.b, s, t) /\ q = Beside(s, t) THEN g.b[Corner(s, t)]
                    ELSE g.b[q]
  BY <1>1, BoardIs
<1>4. /\ PieceAfter(g, s, t) \in Pieces \ {0} /\ Colour(PieceAfter(g, s, t)) = g.t
      /\ Abs(PieceAfter(g, s, t)) = cK => PieceAfter(g, s, t) = g.b[s]
  BY <1>1, PieceIs
<1>5. Colour(0) = 0 /\ Abs(0) = 0 /\ Abs(g.t * cK) = cK /\ g.t * cK # 0 /\ -g.t # g.t /\ -g.t # 0 /\ cK # 0
  BY <1>1 DEF Colour, Abs, cK
<1> HIDE DEF d, e
<1> SUFFICES ASSUME NEW k \in Square, e[k] = g.t * cK, NEW a \in Square, Colour(e[a]) = -g.t, Strikes(e, a, k)
             PROVE  FALSE
  BY Zenon DEF ic, at, e
<1>6. a # s /\ a # t /\ k # s
  BY <1>3, <1>4, <1>5
<1>7. ASSUME d[k] = g.t * cK, Colour(d[a]) = -g.t, d[a] = e[a], \A q \in Square \ {a, k} : ~IsCorner(q) /\ e[q] = 0 => d[q] = 0
      PROVE  FALSE
  <2>1. Strikes(d, a, k)
    BY <1>7, StrikesToo
  <2>2. ic(d, g.t)
    BY <1>7, <2>1 DEF ic, at
  <2> QED
    BY <1>1, <2>2
<1>8. CASE ~IsCastling(g.b, s, t)
  <2>1. \A q \in Square : q # t => e[q] = d[q]
    BY <1>2, <1>3, <1>8
  <2>2. e[t] = PieceAfter(g, s, t) /\ e[t] # 0
    BY <1>1, <1>3, <1>4
  <2>3. d[k] = g.t * cK
    BY <1>2, <1>4, <1>5, <2>1, <2>2
  <2>4. d[a] = e[a]
    BY <1>6, <2>1
  <2>5. \A q \in Square \ {a, k} : ~IsCorner(q) /\ e[q] = 0 => d[q] = 0
    BY <2>1, <2>2
  <2> QED
    BY <1>7, <2>3, <2>4, <2>5
<1>9. CASE IsCastling(g.b, s, t)
  <2>0. /\ s[1] = 4 /\ t[2] = s[2] /\ s[2] \in {0, 7} /\ g.b[s] = g.t * cK /\ g.b[t] = 0
        /\ \A q \in Square : g.b[q] = g.t * cK => q = s
        /\ g.b[Beside(s, t)] = 0 /\ ~at(g.b, t, -g.t)
        /\ \/ t[1] = 6 /\ Corner(s, t) = <<7, s[2]>> /\ Beside(s, t) = <<5, s[2]>>
           \/ t[1] = 2 /\ Corner(s, t) = <<0, s[2]>> /\ Beside(s, t) = <<3, s[2]>> /\ g.b[<<1, s[2]>>] = 0
    BY <1>9, CastlingMove, Zenon
  <2>1. /\ s[1] = 4 /\ t[2] = s[2] /\ s[2] \in {0, 7} /\ g.b[s] = g.t * cK /\ g.b[t] = 0
        /\ \A q \in Square : g.b[q] = g.t * cK => q = s
        /\ g.b[Beside(s, t)] = 0 /\ ~at(g.b, t, -g.t)
    BY <2>0
  <2>2. \/ t[1] = 6 /\ Corner(s, t) = <<7, s[2]>> /\ Beside(s, t) = <<5, s[2]>>
        \/ t[1] = 2 /\ Corner(s, t) = <<0, s[2]>> /\ Beside(s, t) = <<3, s[2]>> /\ g.b[<<1, s[2]>>] = 0
    BY <2>0
  <2>3. Abs(g.b[Corner(s, t)]) # cK /\ Corner(s, t) \in Square /\ Beside(s, t) \in Square
    BY <1>1, <1>9, PlacesDiffer DEF CarriesKing
  <2>4. k = t
    BY <1>3, <1>5, <1>6, <1>9, <2>1, <2>3
  <2>5. d[k] = g.t * cK
    BY <1>2, <2>1, <2>4
  <2>6. Beside(s, t) # s /\ Beside(s, t) # t /\ Corner(s, t) # s /\ Corner(s, t) # t
    <3>1. Beside(s, t)[1] \in {3, 5} /\ Corner(s, t)[1] \in {0, 7}
      BY <1>1, PlacesDiffer
    <3> QED
      BY <2>1, <2>2, <3>1
  <2>7. a # Corner(s, t)
    BY <1>3, <1>5, <1>9, <2>6
  <2>8. CASE a # Beside(s, t)
    <3>1. e[a] = g.b[a] /\ d[a] = g.b[a]
      BY <1>2, <1>3, <1>6, <1>9, <2>7, <2>8
    <3>2. ASSUME NEW q \in Square \ {a, k}, ~IsCorner(q), e[q] = 0 PROVE d[q] = 0
      <4>1. q # Corner(s, t)
        <5>1. IsCorner(Corner(s, t))
          <6>1. Corner(s, t)[1] \in {0, 7} /\ Corner(s, t)[2] = s[2]
            BY <1>1, PlacesDiffer
          <6> QED
            BY <2>1, <6>1 DEF IsCorner
        <5> QED
          BY <3>2, <5>1
      <4>2. q # t
        BY <2>4
      <4>3. CASE q = s \/ q = Beside(s, t)
        BY <1>2, <2>1, <2>6, <4>2, <4>3
      <4>4. CASE q # s /\ q # Beside(s, t)
        BY <1>2, <1>3, <3>2, <4>1, <4>2, <4>4
      <4> QED
        BY <4>3, <4>4
    <3> QED
      BY <1>7, <2>5, <3>1, <3>2
  <2>9. CASE a = Beside(s, t)
    <3> DEFINE v == g.b[Corner(s, t)]
    <3>1. e[a] = v
      BY <1>3, <1>6, <1>9, <2>7, <2>9
    <3>2. v \in Pieces /\ Abs(v) # cK /\ Colour(v) = -g.t
      BY <2>3, <3>1, GameTypes
    <3>3. a[2] = t[2] /\ Abs(t[1] - a[1]) = 1 /\ t[2] \in 0 .. 7
      <4>1. a[2] = s[2] /\ a[1] \in 0 .. 7 /\ t[2] \in 0 .. 7
        BY <1>1, <2>9, PlacesDiffer, Squares
      <4>2. <<5, s[2]>>[1] = 5 /\ <<3, s[2]>>[1] = 3
        OBVIOUS
      <4>3. (t[1] = 6 /\ a[1] = 5) \/ (t[1] = 2 /\ a[1] = 3)
        BY <2>2, <2>9, <4>2
      <4> QED
        BY <2>1, <4>1, <4>3 DEF Abs
    <3>4. Abs(t[2] - a[2]) = 0 /\ t[2] - a[2] = 0
      BY <3>3 DEF Abs
    <3>5. ~KnightsMove(a, t) /\ ~Diagonal(a, t)
      BY <3>3, <3>4 DEF KnightsMove, Diagonal
    <3>6. Abs(v) \in {cR, cQ}
      <4>1. Strikes(e, a, t)
        BY <2>4
      <4>2. ~(t[2] - a[2] = -Colour(v))
        BY <1>1, <3>2, <3>4
      <4> QED
        BY <3>1, <3>2, <3>5, <4>1, <4>2 DEF Strikes
    <3> HIDE DEF v
    <3> DEFINE r == Corner(s, t)
    <3>7. Straight(r, t)
      BY <2>1, <2>6, PlacesDiffer, <1>1 DEF Straight
    <3>8. Open(g.b, r, t)
      <4>1. r[2] = t[2] /\ t[2] \in 0 .. 7
        BY <1>1, <2>1, <3>3, PlacesDiffer
      <4>2. Abs(t[2] - r[2]) = 0 /\ Colour(t[2] - r[2]) = 0
        BY <4>1 DEF Abs, Colour
      <4>3. CASE t[1] = 6 /\ r = <<7, s[2]>>
        <5>1. Abs(t[1] - r[1]) = 1
          <6>1. r[1] = 7
            BY <4>3
          <6>2. t[1] - r[1] = -1
            BY <4>3, <6>1
          <6> QED
            BY <6>2 DEF Abs
        <5>2. Larger(Abs(t[1] - r[1]), Abs(t[2] - r[2])) - 1 = 0
          BY <4>2, <5>1 DEF Larger
        <5>3. 1 .. 0 = {}
          OBVIOUS
        <5> QED
          BY <5>2, <5>3 DEF Open
      <4>4. CASE t[1] = 2 /\ r = <<0, s[2]>> /\ g.b[<<1, s[2]>>] = 0
        <5>1. Abs(t[1] - r[1]) = 2 /\ Colour(t[1] - r[1]) = 1 /\ r[1] = 0
          BY <4>4 DEF Abs, Colour
        <5>2. Larger(Abs(t[1] - r[1]), Abs(t[2] - r[2])) - 1 = 1
          BY <4>2, <5>1 DEF Larger
        <5>3. ASSUME NEW i \in 1 .. 1 PROVE r[1] + i * 1 = 1 /\ r[2] + i * 0 = s[2]
          BY <2>1, <4>1, <5>1
        <5>4. ASSUME NEW i \in 1 .. 1 PROVE g.b[<<r[1] + i * Colour(t[1] - r[1]), r[2] + i * Colour(t[2] - r[2])>>] = 0
          BY <4>2, <4>4, <5>1, <5>3
        <5> QED
          BY <5>2, <5>4, Zenon DEF Open
      <4> QED
        BY <2>2, <4>3, <4>4
    <3>9. Strikes(g.b, r, t)
      BY <3>6, <3>7, <3>8, Zenon DEF Strikes, v
    <3>10. at(g.b, t, -g.t)
      BY <2>3, <3>2, <3>9 DEF at, v
    <3> QED
      BY <2>1, <3>10
  <2> QED
    BY <2>8, <2>9
<1> QED
  BY <1>8, <1>9

\* One king each, without counting.
LEMMA KingsAre ==
    ASSUME NEW g
    PROVE  OneKingEach(g) <=> \A c \in {-1, 1} : \E k \in Square : \A q \in Square : g.b[q] = c * cK <=> q = k
<1>1. IsFiniteSet(Square)
  <2>1. IsFiniteSet(0 .. 7)
    <3>1. 0 \in Int /\ 7 \in Int
      OBVIOUS
    <3> QED
      BY <3>1, FS_Interval
  <2> QED
    BY <2>1, FS_Product DEF Square
<1> SUFFICES ASSUME NEW c \in {-1, 1}
             PROVE  Cardinality({q \in Square : g.b[q] = c * cK}) = 1
                    <=> \E k \in Square : \A q \in Square : g.b[q] = c * cK <=> q = k
  BY Zenon DEF OneKingEach
<1> DEFINE K == {q \in Square : g.b[q] = c * cK}
<1>2. IsFiniteSet(K)
  BY <1>1, FS_Subset
<1> HIDE DEF K
<1>3. Cardinality(K) = 1 <=> \E k : K = {k}
  BY <1>2, FS_Singleton
<1>4. (\E k : K = {k}) <=> \E k \in Square : \A q \in Square : g.b[q] = c * cK <=> q = k
  <2>1. ASSUME NEW k, K = {k} PROVE k \in Square /\ \A q \in Square : g.b[q] = c * cK <=> q = k
    <3>1. k \in K
      BY <2>1
    <3>2. \A q : q \in K <=> q = k
      BY <2>1
    <3> QED
      BY <3>1, <3>2 DEF K
  <2>2. ASSUME NEW k \in Square, \A q \in Square : g.b[q] = c * cK <=> q = k PROVE K = {k}
    BY <2>2 DEF K
  <2> QED
    BY <2>1, <2>2
<1> QED
  BY <1>3, <1>4 DEF K

\* No legal move takes the other king: it was not in check.
LEMMA KingIsNotTaken ==
    ASSUME NEW g, IsGame(g), OwnKingIsSafe(g), RightsAreKept(g), NEW s \in Square, NEW t, lg(g, s, t)
    PROVE  g.b[t] # (-g.t) * cK
<1>1. /\ t \in Square /\ Colour(g.b[s]) = g.t /\ g.t \in {-1, 1}
  BY MoveKinds, GameTypes
<1> SUFFICES ASSUME g.b[t] = (-g.t) * cK PROVE FALSE
  OBVIOUS
<1>2. g.b[t] # 0 /\ -(-g.t) = g.t
  BY <1>1 DEF cK
<1>3. ~Strikes(g.b, s, t)
  <2> SUFFICES ASSUME Strikes(g.b, s, t) PROVE FALSE
    OBVIOUS
  <2>1. at(g.b, t, -(-g.t))
    BY <1>1, <1>2 DEF at
  <2> QED
    BY <1>1, <2>1 DEF ic, OwnKingIsSafe
<1>4. ~PawnMove(g, s, t)
  BY <1>2, <1>3 DEF PawnMove
<1>5. ~(Abs(g.b[s]) = cK /\ Castling(g, s, t))
  <2> SUFFICES ASSUME Abs(g.b[s]) = cK, Castling(g, s, t) PROVE FALSE
    OBVIOUS
  <2>1. t[1] - s[1] = 2 \/ t[1] - s[1] = -2
    BY DEF Castling
  <2>2. IsCastling(g.b, s, t)
    BY <2>1 DEF IsCastling, Abs
  <2>3. g.b[t] = 0
    BY <2>2, CastlingMove, Zenon
  <2> QED
    BY <1>2, <2>3
<1> QED
  BY <1>3, <1>4, <1>5, MoveKinds

\* Each side keeps its king, if no corner with the other one moves.
LEMMA KingsStay ==
    ASSUME NEW g, IsGame(g), OwnKingIsSafe(g), OneKingEach(g), RightsAreKept(g),
           NEW s \in Square, NEW t, lg(g, s, t), ~IsPassant(g, s, t), ~CarriesKing(g.b, s, t),
           NEW c \in {-1, 1}
    PROVE  \E k \in Square : \A q \in Square : BoardAfter(g, s, t)[q] = c * cK <=> q = k
<1> DEFINE e == BoardAfter(g, s, t)
<1>1. /\ t \in Square /\ s # t /\ Colour(g.b[s]) = g.t /\ Colour(g.b[t]) # g.t /\ g.b[s] # 0
      /\ g.t \in {-1, 1} /\ g.b[t] # (-g.t) * cK /\ g.b[s] \in Pieces /\ g.b[t] \in Pieces
  BY MoveKinds, GameTypes, KingIsNotTaken
<1>2. /\ e \in [Square -> Pieces]
      /\ \A q \in Square : e[q] = IF q = s THEN 0 ELSE IF q = t THEN PieceAfter(g, s, t)
                    ELSE IF IsCastling(g.b, s, t) /\ q = Corner(s, t) THEN 0
                    ELSE IF IsCastling(g.b, s, t) /\ q = Beside(s, t) THEN g.b[Corner(s, t)]
                    ELSE g.b[q]
  BY <1>1, BoardIs
<1>3. /\ PieceAfter(g, s, t) \in Pieces \ {0} /\ Colour(PieceAfter(g, s, t)) = g.t
      /\ Abs(PieceAfter(g, s, t)) = cK => PieceAfter(g, s, t) = g.b[s]
      /\ Abs(g.b[s]) = cK => PieceAfter(g, s, t) = g.b[s]
  BY <1>1, PieceIs
<1>4. /\ Abs(c * cK) = cK /\ Colour(c * cK) = c /\ c * cK # 0 /\ 0 # cK
      /\ c = g.t \/ c = -g.t
  BY <1>1 DEF Colour, Abs, cK
<1>5. IsCastling(g.b, s, t) => /\ Abs(g.b[Corner(s, t)]) # cK /\ Corner(s, t) \in Square /\ Beside(s, t) \in Square
                               /\ g.b[Beside(s, t)] = 0
  <2>1. IsCastling(g.b, s, t) => g.b[Beside(s, t)] = 0
    <3> SUFFICES ASSUME IsCastling(g.b, s, t) PROVE g.b[Beside(s, t)] = 0
      OBVIOUS
    <3>1. /\ s[1] = 4 /\ t[2] = s[2] /\ s[2] \in {0, 7} /\ g.b[s] = g.t * cK /\ g.b[t] = 0
          /\ \A q \in Square : g.b[q] = g.t * cK => q = s
          /\ g.b[Beside(s, t)] = 0 /\ ~at(g.b, t, -g.t)
          /\ \/ t[1] = 6 /\ Corner(s, t) = <<7, s[2]>> /\ Beside(s, t) = <<5, s[2]>>
             \/ t[1] = 2 /\ Corner(s, t) = <<0, s[2]>> /\ Beside(s, t) = <<3, s[2]>> /\ g.b[<<1, s[2]>>] = 0
      BY CastlingMove, Zenon
    <3> QED
      BY <3>1
  <2> QED
    BY <1>1, <2>1, PlacesDiffer DEF CarriesKing
<1> HIDE DEF e
<1>6. PICK k \in Square : \A q \in Square : g.b[q] = c * cK <=> q = k
  BY KingsAre
\* Away from s and t the kings stand where they stood.
<1>7. ASSUME NEW q \in Square \ {s, t} PROVE e[q] = c * cK <=> g.b[q] = c * cK
  BY <1>2, <1>4, <1>5
<1>8. g.b[t] # c * cK
  <2>1. CASE c = g.t
    BY <1>1, <1>4, <2>1
  <2>2. CASE c = -g.t
    BY <1>1, <2>2
  <2> QED
    BY <1>4, <2>1, <2>2
<1>9. CASE g.b[s] = c * cK
  <2>1. e[t] = c * cK /\ e[s] = 0 /\ k = s
    BY <1>1, <1>2, <1>3, <1>4, <1>6, <1>9
  <2>2. \A q \in Square : e[q] = c * cK <=> q = t
    BY <1>1, <1>4, <1>6, <1>7, <2>1
  <2> QED
    BY <1>1, <2>2 DEF e
<1>10. CASE g.b[s] # c * cK
  <2>1. e[t] # c * cK /\ e[s] # c * cK
    BY <1>1, <1>2, <1>3, <1>4, <1>10
  <2>2. \A q \in Square : e[q] = c * cK <=> q = k
    BY <1>1, <1>6, <1>7, <1>8, <1>10, <2>1
  <2> QED
    BY <2>2 DEF e
<1> QED
  BY <1>9, <1>10

LEMMA RightsStay ==
    ASSUME NEW g, IsGame(g), RightsAreKept(g), NEW s \in Square, NEW t, lg(g, s, t),
           NEW c \in {-1, 1}, NEW q \in Square, BoardAfter(g, s, t)[q] = c * cK,
           RightsAfter(g, s, t, g.ck, 7)[Index(c)] \/ RightsAfter(g, s, t, g.cq, 0)[Index(c)]
    PROVE  q = Home(c)
<1>1. /\ t \in Square /\ s # t /\ Colour(g.b[s]) = g.t /\ g.b[s] # 0
      /\ g.t \in {-1, 1} /\ g.b[s] \in Pieces
  BY MoveKinds, GameTypes
<1>2. Index(c) \in 0 .. 1 /\ (Index(c) = Index(g.t) <=> c = g.t)
  BY <1>1 DEF Index
<1>3. (g.ck[Index(c)] \/ g.cq[Index(c)]) /\ ~(c = g.t /\ Abs(g.b[s]) = cK)
  BY <1>2 DEF RightsAfter
<1>4. \A p \in Square : g.b[p] = c * cK => p = Home(c)
  BY <1>3 DEF RightsAreKept, Home
<1>5. /\ Abs(c * cK) = cK /\ Colour(c * cK) = c /\ c * cK # 0 /\ 0 # cK
  BY DEF Colour, Abs, cK
<1>6. /\ PieceAfter(g, s, t) \in Pieces \ {0} /\ Colour(PieceAfter(g, s, t)) = g.t
      /\ Abs(PieceAfter(g, s, t)) = cK => PieceAfter(g, s, t) = g.b[s]
  BY <1>1, PieceIs
<1>7. q # s /\ q # t /\ (g.b[q] = c * cK \/ g.b[Corner(s, t)] = c * cK)
  BY <1>1, <1>3, <1>5, <1>6, BoardIs
<1>8. g.b[Corner(s, t)] # c * cK
  <2>1. Corner(s, t) \in Square /\ Corner(s, t)[1] \in {0, 7}
    BY <1>1, PlacesDiffer
  <2>2. Home(c)[1] = 4
    BY DEF Home
  <2> QED
    BY <1>4, <2>1, <2>2
<1> QED
  BY <1>4, <1>7, <1>8

LEMMA PawnsStay ==
    ASSUME NEW g, IsGame(g), NoPawnAtTheEnd(g), NEW s \in Square, NEW t, lg(g, s, t),
           NEW q \in Square, q[2] \in {0, 7}
    PROVE  Abs(BoardAfter(g, s, t)[q]) # cP
<1>1. /\ t \in Square /\ s # t /\ Colour(g.b[s]) = g.t
  BY MoveKinds
<1>2. Abs(PieceAfter(g, s, t)) = cP => t[2] \notin {0, 7}
  BY <1>1, PieceIs
<1>3. Abs(0) # cP
  BY DEF Abs, cP
<1>4. Abs(g.b[q]) # cP
  BY DEF NoPawnAtTheEnd
<1>5. q = Beside(s, t) => Abs(g.b[Corner(s, t)]) # cP
  <2>1. Corner(s, t) \in Square /\ Corner(s, t)[2] = s[2] /\ Beside(s, t)[2] = s[2]
    BY <1>1, PlacesDiffer
  <2>2. q = Beside(s, t) => Corner(s, t)[2] \in {0, 7}
    BY <2>1
  <2> QED
    BY <2>1, <2>2, Zenon DEF NoPawnAtTheEnd
<1> QED
  BY <1>1, <1>2, <1>3, <1>4, <1>5, BoardIs

\* A double step leaves the square behind the pawn empty.
LEMMA PawnStepped ==
    ASSUME NEW g, IsGame(g), NEW s \in Square, NEW t, lg(g, s, t),
           Abs(PieceAfter(g, s, t)) = cP, Abs(t[2] - s[2]) = 2,
           NEW e, e = <<s[1], (s[2] + t[2]) \div 2>>
    PROVE  /\ e \in (0 .. 7) \X {2, 5} /\ BoardAfter(g, s, t)[e] = 0
           /\ BoardAfter(g, s, t)[<<e[1], e[2] + (-g.t)>>] = -(-g.t) * cP
<1>1. /\ t \in Square /\ s # t /\ Colour(g.b[s]) = g.t /\ g.b[s] \in Pieces /\ g.t \in {-1, 1}
      /\ (g.ep = NoSquare \/ g.ep[2] \in {2, 5})
  BY MoveKinds, GameTypes
<1>2. PieceAfter(g, s, t) = g.b[s]
  BY <1>1, PieceIs
<1>3. Abs(g.b[s]) = cP /\ g.b[s] = g.t * cP
  BY <1>1, <1>2 DEF Abs, Colour, cP, Pieces
<1>4. PawnMove(g, s, t)
  BY <1>3, MoveKinds
<1>5. s[1] \in 0 .. 7 /\ s[2] \in 0 .. 7 /\ t[1] \in 0 .. 7 /\ t[2] \in 0 .. 7 /\ s = <<s[1], s[2]>> /\ t = <<t[1], t[2]>>
  BY <1>1, Squares
<1>6. t[2] - s[2] # -g.t /\ t[2] - s[2] # -Colour(g.b[s])
  BY <1>1, <1>5 DEF Abs
<1>7. ~Strikes(g.b, s, t)
  BY <1>3, <1>6 DEF Strikes, cP, cN, cB, cR, cQ, cK
<1>8. /\ t[2] - s[2] = -2 * g.t /\ t[1] = s[1] /\ s[2] = (IF g.t = 1 THEN 6 ELSE 1)
      /\ g.b[<<s[1], s[2] - g.t>>] = 0
  BY <1>4, <1>6, <1>7 DEF PawnMove
<1> DEFINE y == s[2] - g.t
<1>9. /\ y \in {2, 5} /\ (s[2] + t[2]) \div 2 = y /\ y \in 0 .. 7 /\ y # s[2] /\ y # t[2]
      /\ y + (-g.t) = t[2] /\ t[2] \in {3, 4}
  BY <1>1, <1>5, <1>8
<1> DEFINE p == <<s[1], y>>
<1>10. p \in (0 .. 7) \X {2, 5} /\ p \in Square /\ p[1] = s[1] /\ p[2] = y
  BY <1>5, <1>9, Squares
<1>11. p # s /\ p # t /\ <<p[1], p[2] + (-g.t)>> = t
  BY <1>5, <1>8, <1>9, <1>10
<1>12. t # NoSquare
  BY <1>1, Squares
<1>13. ~IsPassant(g, s, t)
  BY <1>1, <1>9, <1>12 DEF IsPassant
<1>14. ~IsCastling(g.b, s, t)
  BY <1>3 DEF IsCastling, cP, cK
<1> HIDE DEF p
<1>15. BoardAfter(g, s, t)[p] = 0 /\ BoardAfter(g, s, t)[t] = g.b[s]
  <2>1. g.b[p] = 0
    BY <1>8, Zenon DEF p, y
  <2> QED
    BY <1>1, <1>2, <1>10, <1>11, <1>13, <1>14, <2>1, BoardIs
<1>16. e = p
  BY <1>9 DEF p
<1>17. -(-g.t) * cP = g.b[s]
  BY <1>1, <1>3 DEF cP
<1> QED
  BY <1>10, <1>11, <1>15, <1>16, <1>17

\* The back rank: no pawns, and one king, on the fifth square.
LEMMA BackRank ==
    ASSUME NEW x \in 0 .. 7
    PROVE  Back[x + 1] \in 2 .. 6 /\ (Back[x + 1] = 6 <=> x = 4)
<1>1. x = 0 \/ x = 1 \/ x = 2 \/ x = 3 \/ x = 4 \/ x = 5 \/ x = 6 \/ x = 7
  OBVIOUS
<1>2. /\ Back[0 + 1] = 4 /\ Back[1 + 1] = 2 /\ Back[2 + 1] = 3 /\ Back[3 + 1] = 5
      /\ Back[4 + 1] = 6 /\ Back[5 + 1] = 3 /\ Back[6 + 1] = 2 /\ Back[7 + 1] = 4
  BY DEF Back, cR, cN, cB, cQ, cK
<1> QED
  BY <1>1, <1>2

LEMMA NewBoard ==
    /\ newCh = [b |-> newCh.b, t |-> 1, ov |-> FALSE, wi |-> 0, ep |-> NoSquare,
                ck |-> newCh.ck, cq |-> newCh.cq]
    /\ newCh.t = 1 /\ newCh.ov = FALSE /\ newCh.wi = 0 /\ newCh.ep = NoSquare
    /\ newCh.ck \in [0 .. 1 -> BOOLEAN] /\ newCh.cq \in [0 .. 1 -> BOOLEAN]
    /\ newCh.b \in [Square -> Pieces]
    /\ \A s \in Square :
         /\ s[2] = 0 => newCh.b[s] \in -6 .. -2 /\ (newCh.b[s] = -6 <=> s[1] = 4)
         /\ s[2] = 1 => newCh.b[s] = -1
         /\ s[2] = 6 => newCh.b[s] = 1
         /\ s[2] = 7 => newCh.b[s] \in 2 .. 6 /\ (newCh.b[s] = 6 <=> s[1] = 4)
         /\ s[2] \in 2 .. 5 => newCh.b[s] = 0
<1> DEFINE b == [s \in Square |-> CASE s[2] = 0 -> -Back[s[1] + 1] [] s[2] = 1 -> -cP
                               [] s[2] = 6 -> cP [] s[2] = 7 -> Back[s[1] + 1] [] OTHER -> 0]
<1> DEFINE r == [i \in 0 .. 1 |-> TRUE]
<1>1. newCh = [b |-> b, t |-> 1, ov |-> FALSE, wi |-> 0, ep |-> NoSquare, ck |-> r, cq |-> r]
  BY Zenon DEF newCh
<1>2. r \in [0 .. 1 -> BOOLEAN]
  OBVIOUS
<1>3. ASSUME NEW s \in Square
      PROVE  /\ s[2] = 0 => b[s] \in -6 .. -2 /\ (b[s] = -6 <=> s[1] = 4)
             /\ s[2] = 1 => b[s] = -1
             /\ s[2] = 6 => b[s] = 1
             /\ s[2] = 7 => b[s] \in 2 .. 6 /\ (b[s] = 6 <=> s[1] = 4)
             /\ s[2] \in 2 .. 5 => b[s] = 0
  <2>1. b[s] = CASE s[2] = 0 -> -Back[s[1] + 1] [] s[2] = 1 -> -cP
                               [] s[2] = 6 -> cP [] s[2] = 7 -> Back[s[1] + 1] [] OTHER -> 0
    OBVIOUS
  <2>2. s[1] \in 0 .. 7 /\ s[2] \in 0 .. 7
    BY Squares
  <2>3. Back[s[1] + 1] \in 2 .. 6 /\ (Back[s[1] + 1] = 6 <=> s[1] = 4)
    BY <2>2, BackRank
  <2> HIDE DEF b
  <2> QED
    BY <2>1, <2>2, <2>3 DEF cP
<1>4. b \in [Square -> Pieces]
  <2>1. ASSUME NEW s \in Square PROVE b[s] \in Pieces
    <3>1. s[2] \in 0 .. 7
      BY Squares
    <3> HIDE DEF b
    <3> QED
      BY <1>3, <3>1 DEF Pieces
  <2>2. b = [s \in Square |-> b[s]]
    OBVIOUS
  <2> HIDE DEF b
  <2> QED
    BY <2>1, <2>2
<1> HIDE DEF b, r
<1>5. newCh.b = b /\ newCh.ck = r /\ newCh.cq = r /\ newCh.t = 1 /\ newCh.ov = FALSE /\ newCh.wi = 0 /\ newCh.ep = NoSquare
  BY <1>1
<1>6. newCh = [b |-> newCh.b, t |-> 1, ov |-> FALSE, wi |-> 0, ep |-> NoSquare,
                ck |-> newCh.ck, cq |-> newCh.cq]
  BY <1>1, <1>5, Zenon
<1> QED
  BY <1>2, <1>3, <1>4, <1>5, <1>6

\* From the last two rows of the other side, no piece strikes a king at home behind a pawn.
LEMMA TooFar ==
    ASSUME NEW d \in [Square -> Int], NEW a \in Square, NEW k \in Square, NEW y \in {1, 6},
           k[1] = 4, \/ k[2] = 0 /\ y = 1 /\ a[2] \in {6, 7}
                     \/ k[2] = 7 /\ y = 6 /\ a[2] \in {0, 1},
           d[<<4, y>>] # 0
    PROVE  ~Strikes(d, a, k)
<1>1. a[1] \in 0 .. 7 /\ a[2] \in 0 .. 7
  BY Squares
<1>2. Abs(k[2] - a[2]) \in {6, 7} /\ Abs(k[2] - a[2]) >= 6 /\ Abs(k[1] - a[1]) <= 4 /\ Abs(k[1] - a[1]) \in Nat
      /\ k[2] - a[2] # 1 /\ k[2] - a[2] # -1
  BY <1>1 DEF Abs
<1>3. ~Diagonal(a, k) /\ ~KnightsMove(a, k) /\ ~NextTo(a, k)
  BY <1>2 DEF Diagonal, KnightsMove, NextTo
<1>4. d[a] # 0 => k[2] - a[2] # -Colour(d[a])
  BY <1>2 DEF Colour
<1>5. ~(Straight(a, k) /\ Open(d, a, k))
  <2> SUFFICES ASSUME Straight(a, k), Open(d, a, k) PROVE FALSE
    OBVIOUS
  <2>1. a[1] = 4
    BY <1>2 DEF Straight, Abs
  <2>2. Abs(k[1] - a[1]) = 0 /\ Colour(k[1] - a[1]) = 0
    BY <2>1 DEF Abs, Colour
  <2>3. Larger(Abs(k[1] - a[1]), Abs(k[2] - a[2])) = Abs(k[2] - a[2])
    BY <1>2, <2>2 DEF Larger
  <2> DEFINE i == Abs(k[2] - a[2]) - 1
  <2>4. i \in 1 .. Larger(Abs(k[1] - a[1]), Abs(k[2] - a[2])) - 1
    BY <1>2, <2>3
  <2>5. a[1] + i * Colour(k[1] - a[1]) = 4
    BY <1>2, <2>1, <2>2
  <2>6. a[2] + i * Colour(k[2] - a[2]) = y
    <3>1. CASE k[2] = 0
      <4>1. Colour(k[2] - a[2]) = -1 /\ i = a[2] - 1
        BY <1>2, <3>1 DEF Colour, Abs
      <4>2. i * (-1) = -i
        BY <4>1, <1>1
      <4> QED
        BY <1>1, <3>1, <4>1, <4>2
    <3>2. CASE k[2] = 7
      <4>1. Colour(k[2] - a[2]) = 1 /\ i = 7 - a[2] - 1
        BY <1>2, <3>2 DEF Colour, Abs
      <4>2. i * 1 = i
        BY <4>1, <1>1
      <4> QED
        BY <1>1, <3>2, <4>1, <4>2
    <3> QED
      BY <3>1, <3>2
  <2> HIDE DEF i
  <2>7. d[<<a[1] + i * Colour(k[1] - a[1]), a[2] + i * Colour(k[2] - a[2])>>] = 0
    BY <2>4, Zenon DEF Open
  <2> QED
    BY <2>5, <2>6, <2>7
<1>6. d[a] = 0 => Abs(d[a]) = 0
  BY DEF Abs
<1> QED
  BY <1>3, <1>4, <1>5, <1>6 DEF Strikes, cP, cN, cB, cR, cQ, cK

\* What the property says of a game, and what it needs.
GameParts(g) == IsGame(g) /\ NoPawnAtTheEnd(g) /\ PawnBehind(g) /\ WonInCheck(g) /\ RightsAreKept(g)

LEMMA NewKings ==
    /\ \A s \in Square : newCh.b[s] = 6 <=> s = <<4, 7>>
    /\ \A s \in Square : newCh.b[s] = -6 <=> s = <<4, 0>>
    /\ \A s \in Square : (newCh.b[s] > 0 => s[2] \in {6, 7}) /\ (newCh.b[s] < 0 => s[2] \in {0, 1})
<1>1. <<4, 7>> \in Square /\ <<4, 0>> \in Square /\ <<4, 7>>[1] = 4 /\ <<4, 7>>[2] = 7
      /\ <<4, 0>>[1] = 4 /\ <<4, 0>>[2] = 0
  <2>1. 4 \in 0 .. 7 /\ 0 \in 0 .. 7 /\ 7 \in 0 .. 7
    OBVIOUS
  <2> QED
    BY <2>1, Squares
<1> SUFFICES ASSUME NEW s \in Square
             PROVE  /\ newCh.b[s] = 6 <=> s = <<4, 7>>
                    /\ newCh.b[s] = -6 <=> s = <<4, 0>>
                    /\ (newCh.b[s] > 0 => s[2] \in {6, 7}) /\ (newCh.b[s] < 0 => s[2] \in {0, 1})
  OBVIOUS
<1>2. s[2] \in {0, 1, 6, 7} \cup 2 .. 5
  BY Squares
<1>3. /\ s = <<4, 7>> <=> s[1] = 4 /\ s[2] = 7
      /\ s = <<4, 0>> <=> s[1] = 4 /\ s[2] = 0
  BY <1>1, Squares
<1> DEFINE v == newCh.b[s]
<1>4. /\ s[2] = 0 => v \in -6 .. -2 /\ (v = -6 <=> s[1] = 4)
      /\ s[2] = 1 => v = -1
      /\ s[2] = 6 => v = 1
      /\ s[2] = 7 => v \in 2 .. 6 /\ (v = 6 <=> s[1] = 4)
      /\ s[2] \in 2 .. 5 => v = 0
  BY NewBoard
<1> HIDE DEF v
<1>5. /\ v = 6 <=> s[1] = 4 /\ s[2] = 7
      /\ v = -6 <=> s[1] = 4 /\ s[2] = 0
      /\ (v > 0 => s[2] \in {6, 7}) /\ (v < 0 => s[2] \in {0, 1})
  BY <1>2, <1>4
<1> QED
  BY <1>3, <1>5 DEF v

LEMMA Minus == ASSUME NEW c \in Int PROVE -(-c) = c /\ (c = 1 => -c = -1)
OBVIOUS

LEMMA NewGame == GameParts(newCh) /\ OwnKingIsSafe(newCh) /\ OneKingEach(newCh)
<1>1. <<4, 7>> \in Square /\ <<4, 0>> \in Square /\ <<4, 1>> \in Square /\ <<4, 0>>[1] = 4 /\ <<4, 0>>[2] = 0
      /\ <<4, 1>>[2] = 1
  <2>1. 4 \in 0 .. 7 /\ 0 \in 0 .. 7 /\ 7 \in 0 .. 7 /\ 1 \in 0 .. 7
    OBVIOUS
  <2> QED
    BY <2>1, Squares
<1>2. IsGame(newCh)
  BY NewBoard DEF IsGame, Pieces, cK
<1>3. NoPawnAtTheEnd(newCh)
  <2> SUFFICES ASSUME NEW s \in Square, s[2] \in {0, 7} PROVE Abs(newCh.b[s]) # cP
    BY DEF NoPawnAtTheEnd
  <2>1. newCh.b[s] \in -6 .. -2 \/ newCh.b[s] \in 2 .. 6
    BY NewBoard
  <2> QED
    BY <2>1 DEF Abs, cP
<1>4. PawnBehind(newCh) /\ WonInCheck(newCh)
  BY NewBoard DEF PawnBehind, WonInCheck
<1>5. 1 * cK = 6 /\ (-1) * cK = -6
  BY DEF cK
<1>6. RightsAreKept(newCh)
  BY <1>5, NewKings DEF RightsAreKept
<1>7. OneKingEach(newCh)
  <2>1. \E k \in Square : \A q \in Square : newCh.b[q] = 1 * cK <=> q = k
    BY <1>1, <1>5, NewKings
  <2>2. \E k \in Square : \A q \in Square : newCh.b[q] = (-1) * cK <=> q = k
    BY <1>1, <1>5, NewKings
  <2>3. \A c \in {-1, 1} : \E k \in Square : \A q \in Square : newCh.b[q] = c * cK <=> q = k
    BY <2>1, <2>2
  <2> QED
    BY <2>3, KingsAre
<1>8. OwnKingIsSafe(newCh)
  <2>1. newCh.t = 1
    BY NewBoard
  <2>0. -newCh.t = -1 /\ -(-newCh.t) = newCh.t
    <3>1. newCh.t \in Int
      BY <2>1
    <3> QED
      BY <2>1, <3>1, Minus, Zenon
  <2> SUFFICES ASSUME NEW k \in Square, newCh.b[k] = (-1) * cK, NEW a \in Square, Colour(newCh.b[a]) = 1,
                      Strikes(newCh.b, a, k)
               PROVE  FALSE
    BY <2>0, <2>1 DEF OwnKingIsSafe, ic, at
  <2>2. k = <<4, 0>>
    BY <1>5, NewKings
  <2>3. newCh.b \in [Square -> Int] /\ newCh.b[a] \in Int
    BY NewBoard DEF Pieces
  <2>4. a[2] \in {6, 7}
    BY <2>3, NewKings DEF Colour
  <2>5. newCh.b[<<4, 1>>] # 0
    <3>1. newCh.b[<<4, 1>>] = -1
      BY <1>1, NewBoard
    <3> QED
      BY <3>1
  <2>6. k[1] = 4 /\ k[2] = 0
    BY <1>1, <2>2
  <2>7. 1 \in {1, 6}
    OBVIOUS
  <2> QED
    BY <2>3, <2>4, <2>5, <2>6, <2>7, TooFar
<1> QED
  BY <1>2, <1>3, <1>4, <1>6, <1>7, <1>8 DEF GameParts

\* White can begin: the pawn before the rook takes a step.
LEMMA NewMoves == hm(newCh, 1)
<1> DEFINE s == <<0, 6>>
<1> DEFINE t == <<0, 5>>
<1> DEFINE b == newCh.b
<1> DEFINE d == [b EXCEPT ![t] = b[s], ![s] = 0]
<1>1. s \in Square /\ t \in Square /\ s[2] = 6 /\ t[2] = 5 /\ s # t /\ s[1] = 0 /\ t[1] = 0
  <2>1. 0 \in 0 .. 7 /\ 6 \in 0 .. 7 /\ 5 \in 0 .. 7
    OBVIOUS
  <2> QED
    BY <2>1, Squares
<1>2. b[s] = 1 /\ b[t] = 0 /\ newCh.t = 1
  BY <1>1, NewBoard
<1>3. Colour(b[s]) = 1 /\ Colour(b[t]) = 0 /\ Abs(b[s]) = cP
  BY <1>2 DEF Colour, Abs, cP
<1>4. t[2] - s[2] = -newCh.t
  BY <1>1, <1>2
<1>5. PawnMove(newCh, s, t)
  BY <1>1, <1>2, <1>4 DEF PawnMove
<1>6. ~ic(d, 1)
  <2>1. /\ b \in [Square -> Pieces] /\ 0 \in Pieces
    BY NewBoard DEF Pieces
  <2>2. b[s] \in Pieces
    BY <1>1, <2>1
  <2> HIDE DEF b, s, t
  <2>3. /\ d \in [Square -> Pieces] /\ d[s] = 0 /\ d[t] = 1
        /\ \A q \in Square \ {s, t} : d[q] = b[q]
    BY <1>1, <1>2, <2>1, <2>2
  <2> HIDE DEF d
  <2> SUFFICES ASSUME NEW k \in Square, d[k] = 1 * cK, NEW a \in Square, Colour(d[a]) = -1, Strikes(d, a, k)
               PROVE  FALSE
    BY DEF ic, at
  <2>4. 1 * cK = 6 /\ 6 # 0 /\ Colour(0) = 0 /\ Colour(1) = 1
    BY DEF cK, Colour
  <2>5. k # s /\ k # t /\ b[k] = 6 /\ a # s /\ a # t /\ Colour(b[a]) = -1
    BY <2>3, <2>4
  <2>6. k = <<4, 7>>
    BY <2>5, NewKings DEF b
  <2>7. k[1] = 4 /\ k[2] = 7
    BY <2>6
  <2>8. a[2] \in {0, 1}
    <3>1. b[a] \in Int /\ b[a] < 0
      BY <2>1, <2>5 DEF Colour, Pieces
    <3> QED
      BY <3>1, NewKings DEF b
  <2>9. d[<<4, 6>>] # 0
    <3>1. <<4, 6>> \in Square /\ <<4, 6>>[2] = 6 /\ <<4, 6>>[1] = 4
      <4>1. 4 \in 0 .. 7 /\ 6 \in 0 .. 7
        OBVIOUS
      <4> QED
        BY <4>1, Squares
    <3>2. b[<<4, 6>>] = 1
      BY <3>1, NewBoard DEF b
    <3>3. <<4, 6>> # s /\ <<4, 6>> # t
      BY <1>1, <3>1
    <3>4. d[<<4, 6>>] = 1
      BY <2>3, <3>1, <3>2, <3>3
    <3> QED
      BY <3>4
  <2>10. d \in [Square -> Int] /\ 6 \in {1, 6}
    BY <2>3 DEF Pieces
  <2> QED
    BY <2>7, <2>8, <2>9, <2>10, TooFar
<1>7. SafeAfter(newCh, s, t)
  BY <1>2, <1>6 DEF SafeAfter
<1>8. lg(newCh, s, t)
  <2> HIDE DEF s, t
  <2>1. /\ newCh.b[s] # 0 /\ Colour(newCh.b[s]) = newCh.t /\ Colour(newCh.b[t]) # newCh.t
        /\ Abs(newCh.b[s]) = cP
    BY <1>2, <1>3
  <2> HIDE DEF b
  <2> QED
    BY <1>1, <1>5, <1>7, <2>1 DEF lg, cP, cK
<1> QED
  BY <1>1, <1>3, <1>8 DEF hm, b

\* Whether a side can move does not depend on ov and wi.
LEMMA SameMoves ==
    ASSUME NEW g, NEW h, h.b = g.b, h.t = g.t, h.ep = g.ep, h.ck = g.ck, h.cq = g.cq, NEW c
    PROVE  hm(h, c) <=> hm(g, c)
<1>1. ASSUME NEW s, NEW t PROVE lg(h, s, t) <=> lg(g, s, t)
  <2>1. PawnMove(h, s, t) <=> PawnMove(g, s, t)
    BY Zenon DEF PawnMove
  <2>2. Castling(h, s, t) <=> Castling(g, s, t)
    BY Zenon DEF Castling
  <2>3. SafeAfter(h, s, t) <=> SafeAfter(g, s, t)
    BY Zenon DEF SafeAfter
  <2> QED
    BY <2>1, <2>2, <2>3 DEF lg
<1> QED
  BY <1>1, Zenon DEF hm

LEMMA PlayedIs ==
    ASSUME NEW g, IsGame(g), NEW s, NEW t, NEW h, h = Played(g, s, t)
    PROVE  /\ h = [b |-> h.b, t |-> h.t, ov |-> h.ov, wi |-> h.wi, ep |-> h.ep, ck |-> h.ck, cq |-> h.cq]
           /\ h.b = BoardAfter(g, s, t) /\ h.t = -g.t /\ h.ov = g.ov /\ h.wi = g.wi
           /\ h.ep = IF Abs(PieceAfter(g, s, t)) = cP /\ Abs(t[2] - s[2]) = 2
                     THEN <<s[1], (s[2] + t[2]) \div 2>> ELSE NoSquare
           /\ h.ck = RightsAfter(g, s, t, g.ck, 7) /\ h.cq = RightsAfter(g, s, t, g.cq, 0)
<1> DEFINE b == BoardAfter(g, s, t)
<1> DEFINE ep == IF Abs(PieceAfter(g, s, t)) = cP /\ Abs(t[2] - s[2]) = 2
                     THEN <<s[1], (s[2] + t[2]) \div 2>> ELSE NoSquare
<1> DEFINE ck == RightsAfter(g, s, t, g.ck, 7)
<1> DEFINE cq == RightsAfter(g, s, t, g.cq, 0)
<1>1. g = [b |-> g.b, t |-> g.t, ov |-> g.ov, wi |-> g.wi, ep |-> g.ep, ck |-> g.ck, cq |-> g.cq]
  BY DEF IsGame
<1>2. h = [g EXCEPT !.b = b, !.t = -@, !.ep = ep, !.ck = RightsAfter(g, s, t, @, 7), !.cq = RightsAfter(g, s, t, @, 0)]
  BY Zenon DEF Played
<1>3. h = [g EXCEPT !.b = b, !.t = -g.t, !.ep = ep, !.ck = ck, !.cq = cq]
  BY <1>2
<1> HIDE DEF b, ep, ck, cq
<1>4. h = [b |-> b, t |-> -g.t, ov |-> g.ov, wi |-> g.wi, ep |-> ep, ck |-> ck, cq |-> cq]
  BY <1>1, <1>3
<1>5. h.b = b /\ h.t = -g.t /\ h.ov = g.ov /\ h.wi = g.wi /\ h.ep = ep /\ h.ck = ck /\ h.cq = cq
  BY <1>4
<1>6. h = [b |-> h.b, t |-> h.t, ov |-> h.ov, wi |-> h.wi, ep |-> h.ep, ck |-> h.ck, cq |-> h.cq]
  BY <1>4, <1>5, Zenon
<1> QED
  BY <1>5, <1>6 DEF b, ep, ck, cq

\* A legal move of a game that is not over leads to a game.
LEMMA PlayedIsGame ==
    ASSUME NEW g, GameParts(g), ~g.ov, NEW s \in Square, NEW t, lg(g, s, t)
    PROVE  GameParts(Played(g, s, t))
<1> DEFINE h == Played(g, s, t)
<1>1. h = Played(g, s, t)
  OBVIOUS
<1> HIDE DEF h
<1>2. IsGame(g) /\ NoPawnAtTheEnd(g) /\ WonInCheck(g) /\ RightsAreKept(g)
  BY DEF GameParts
<1>3. /\ h = [b |-> h.b, t |-> h.t, ov |-> h.ov, wi |-> h.wi, ep |-> h.ep, ck |-> h.ck, cq |-> h.cq]
      /\ h.b = BoardAfter(g, s, t) /\ h.t = -g.t /\ h.ov = g.ov /\ h.wi = g.wi
      /\ h.ep = IF Abs(PieceAfter(g, s, t)) = cP /\ Abs(t[2] - s[2]) = 2
                     THEN <<s[1], (s[2] + t[2]) \div 2>> ELSE NoSquare
      /\ h.ck = RightsAfter(g, s, t, g.ck, 7) /\ h.cq = RightsAfter(g, s, t, g.cq, 0)
  <2>1. IsGame(g)
    BY <1>2
  <2> QED
    BY <1>1, <2>1, PlayedIs
<1>4. /\ t \in Square /\ Colour(g.b[s]) = g.t /\ g.t \in {-1, 1} /\ g.ov \in BOOLEAN /\ g.wi \in {-1, 0, 1}
      /\ g.ck \in [0 .. 1 -> BOOLEAN] /\ g.cq \in [0 .. 1 -> BOOLEAN]
  BY <1>2, MoveKinds, GameTypes
<1>5. h.b \in [Square -> Pieces]
  BY <1>2, <1>3, <1>4, BoardIs
<1>6. h.wi = 0
  BY <1>2, <1>3 DEF WonInCheck
<1>7. h.t \in {-1, 1}
  BY <1>3, <1>4
<1>10. h.ep \in {NoSquare} \cup ((0 .. 7) \X {2, 5}) /\ PawnBehind(h)
  <2>1. CASE Abs(PieceAfter(g, s, t)) = cP /\ Abs(t[2] - s[2]) = 2
    <3>1. h.ep = <<s[1], (s[2] + t[2]) \div 2>>
      BY <1>3, <2>1
    <3>2. /\ h.ep \in (0 .. 7) \X {2, 5} /\ BoardAfter(g, s, t)[h.ep] = 0
          /\ BoardAfter(g, s, t)[<<h.ep[1], h.ep[2] + (-g.t)>>] = -(-g.t) * cP
      <4>1. IsGame(g) /\ Abs(PieceAfter(g, s, t)) = cP /\ Abs(t[2] - s[2]) = 2
        BY <1>2, <2>1
      <4> QED
        BY <3>1, <4>1, PawnStepped
    <3> QED
      BY <1>3, <3>2 DEF PawnBehind
  <2>2. CASE ~(Abs(PieceAfter(g, s, t)) = cP /\ Abs(t[2] - s[2]) = 2)
    <3>1. h.ep = NoSquare
      BY <1>3, <2>2
    <3> QED
      BY <3>1 DEF PawnBehind
  <2> QED
    BY <2>1, <2>2
<1>11. h.ck \in [0 .. 1 -> BOOLEAN] /\ h.cq \in [0 .. 1 -> BOOLEAN]
  <2>1. ASSUME NEW r \in [0 .. 1 -> BOOLEAN], NEW x PROVE RightsAfter(g, s, t, r, x) \in [0 .. 1 -> BOOLEAN]
    BY DEF RightsAfter
  <2> QED
    BY <1>3, <1>4, <2>1
<1>12. IsGame(h)
  <2>1. h.b \in [Square -> -cK .. cK]
    BY <1>5 DEF cK, Pieces
  <2>2. h.wi \in {-1, 0, 1} /\ h.ov \in BOOLEAN
    BY <1>3, <1>4, <1>6
  <2> QED
    BY <1>3, <1>7, <1>10, <1>11, <2>1, <2>2, Zenon DEF IsGame
<1>13. NoPawnAtTheEnd(h)
  BY <1>2, <1>3, PawnsStay DEF NoPawnAtTheEnd
<1>14. RightsAreKept(h)
  <2> SUFFICES ASSUME NEW c \in {-1, 1}, NEW q \in Square, h.b[q] = c * cK, h.ck[Index(c)] \/ h.cq[Index(c)]
               PROVE  q = Home(c)
    BY Zenon DEF RightsAreKept, Home
  <2>1. BoardAfter(g, s, t)[q] = c * cK
    BY <1>3
  <2>2. RightsAfter(g, s, t, g.ck, 7)[Index(c)] \/ RightsAfter(g, s, t, g.cq, 0)[Index(c)]
    BY <1>3
  <2> QED
    BY <1>2, <2>1, <2>2, RightsStay
<1>15. WonInCheck(h)
  BY <1>6 DEF WonInCheck
<1> QED
  BY <1>1, <1>10, <1>12, <1>13, <1>14, <1>15 DEF GameParts

LEMMA ApIs ==
    ASSUME NEW g, GameParts(g), ~g.ov, NEW s \in Square, NEW t, lg(g, s, t),
           NEW h, h = ap(g, s, t)
    PROVE  /\ GameParts(h) /\ h.b = BoardAfter(g, s, t) /\ h.t = -g.t
           /\ h.ov <=> ~hm(h, h.t)
<1> DEFINE p == Played(g, s, t)
<1>1. p = Played(g, s, t) /\ GameParts(p)
  BY PlayedIsGame
<1>2. h = IF hm(p, p.t) THEN p
          ELSE [p EXCEPT !.ov = TRUE, !.wi = IF ic(p.b, p.t) THEN -p.t ELSE @]
  BY Zenon DEF ap
<1> HIDE DEF p
<1>3. IsGame(g) /\ IsGame(p)
  BY <1>1 DEF GameParts
<1>4. p.b = BoardAfter(g, s, t) /\ p.t = -g.t /\ p.ov = g.ov /\ p.wi = g.wi
  <2>1. p = Played(g, s, t) /\ IsGame(g)
    BY <1>1, <1>3
  <2>2. /\ p = [b |-> p.b, t |-> p.t, ov |-> p.ov, wi |-> p.wi, ep |-> p.ep, ck |-> p.ck, cq |-> p.cq]
        /\ p.b = BoardAfter(g, s, t) /\ p.t = -g.t /\ p.ov = g.ov /\ p.wi = g.wi
        /\ p.ep = IF Abs(PieceAfter(g, s, t)) = cP /\ Abs(t[2] - s[2]) = 2
                  THEN <<s[1], (s[2] + t[2]) \div 2>> ELSE NoSquare
        /\ p.ck = RightsAfter(g, s, t, g.ck, 7) /\ p.cq = RightsAfter(g, s, t, g.cq, 0)
    BY <2>1, PlayedIs
  <2> QED
    BY <2>2
<1>5. CASE hm(p, p.t)
  BY <1>1, <1>2, <1>4, <1>5
<1>6. CASE ~hm(p, p.t)
  <2> DEFINE w == IF ic(p.b, p.t) THEN -p.t ELSE p.wi
  <2>1. h = [p EXCEPT !.ov = TRUE, !.wi = w]
    BY <1>2, <1>6
  <2>2. w \in {-1, 0, 1} /\ (w # 0 => w = -p.t /\ ic(p.b, p.t))
    BY <1>1, <1>3, <1>4, GameTypes DEF GameParts, WonInCheck
  <2> HIDE DEF w
  <2>3. p = [b |-> p.b, t |-> p.t, ov |-> p.ov, wi |-> p.wi, ep |-> p.ep, ck |-> p.ck, cq |-> p.cq]
    BY <1>3 DEF IsGame
  <2>4. h = [b |-> p.b, t |-> p.t, ov |-> TRUE, wi |-> w, ep |-> p.ep, ck |-> p.ck, cq |-> p.cq]
    BY <2>1, <2>3
  <2>5. h.b = p.b /\ h.t = p.t /\ h.ov = TRUE /\ h.wi = w /\ h.ep = p.ep /\ h.ck = p.ck /\ h.cq = p.cq
    BY <2>4
  <2>6. h = [b |-> h.b, t |-> h.t, ov |-> h.ov, wi |-> h.wi, ep |-> h.ep, ck |-> h.ck, cq |-> h.cq]
    BY <2>4, <2>5, Zenon
  <2>7. IsGame(h)
    BY <1>3, <2>2, <2>5, <2>6 DEF IsGame
  <2>8. NoPawnAtTheEnd(h) /\ PawnBehind(h) /\ RightsAreKept(h)
    <3>1. NoPawnAtTheEnd(p) /\ PawnBehind(p) /\ RightsAreKept(p)
      BY <1>1 DEF GameParts
    <3>2. NoPawnAtTheEnd(h)
      BY <2>5, <3>1 DEF NoPawnAtTheEnd
    <3>3. PawnBehind(h)
      BY <2>5, <3>1 DEF PawnBehind
    <3>4. RightsAreKept(h)
      BY <2>5, <3>1 DEF RightsAreKept
    <3> QED
      BY <3>2, <3>3, <3>4
  <2>9. WonInCheck(h)
    BY <2>2, <2>5 DEF WonInCheck
  <2>10. ~hm(h, h.t)
    BY <1>6, <2>5, SameMoves
  <2> QED
    BY <1>4, <2>5, <2>7, <2>8, <2>9, <2>10 DEF GameParts
<1> QED
  BY <1>5, <1>6

\* What every state of a running game satisfies.
Sound(c) ==
    /\ c = [play |-> c.play, game |-> c.game, sel |-> c.sel, timers |-> c.timers,
            plies |-> c.plies, unseen |-> c.unseen]
    /\ c.sel \in Square \cup {NoSquare} /\ c.timers \in Int /\ c.plies \in Nat /\ c.unseen \in BOOLEAN
    /\ c.timers > 0 => c.plies > 0
    /\ GameParts(c.game)
    /\ c.unseen \/ (OwnKingIsSafe(c.game) /\ OneKingEach(c.game))
    /\ c.plies > 0 => (c.game.ov <=> ~hm(c.game, c.game.t))
ChessInv == chess.play # "idle" => Sound(chess)

LEMMA StartIsSound ==
    ASSUME NEW g \in Starts, NEW p, NEW c,
           c = [play |-> p, game |-> g, sel |-> NoSquare, timers |-> 0, plies |-> 0, unseen |-> FALSE]
    PROVE  Sound(c)
<1>1. c.play = p /\ c.game = g /\ c.sel = NoSquare /\ c.timers = 0 /\ c.plies = 0 /\ c.unseen = FALSE
  OBVIOUS
<1>2. c = [play |-> c.play, game |-> c.game, sel |-> c.sel, timers |-> c.timers,
            plies |-> c.plies, unseen |-> c.unseen]
  BY <1>1, Zenon
<1>3. GameParts(g) /\ OwnKingIsSafe(g) /\ OneKingEach(g)
  BY ChessAssumption DEF GameParts
<1> QED
  BY <1>1, <1>2, <1>3 DEF Sound

\* Any legal move of a game that is not over.
LEMMA MovedIsSound ==
    ASSUME NEW c, Sound(c), ~c.game.ov, NEW s \in Square, NEW t, lg(c.game, s, t),
           NEW k \in Int, NEW z \in Square \cup {NoSquare}, NEW d,
           d = [play |-> c.play, game |-> ap(c.game, s, t), sel |-> z, timers |-> k, plies |-> c.plies + 1,
                unseen |-> c.unseen \/ IsPassant(c.game, s, t) \/ CarriesKing(c.game.b, s, t)]
    PROVE  Sound(d)
<1> DEFINE u == c.unseen \/ IsPassant(c.game, s, t) \/ CarriesKing(c.game.b, s, t)
<1> DEFINE h == ap(c.game, s, t)
<1>1. /\ c.plies + 1 \in Nat /\ c.plies + 1 > 0 /\ GameParts(c.game)
      /\ c.unseen \/ (OwnKingIsSafe(c.game) /\ OneKingEach(c.game))
  BY DEF Sound
<1>2. /\ GameParts(h) /\ h.b = BoardAfter(c.game, s, t) /\ h.t = -c.game.t
      /\ h.ov <=> ~hm(h, h.t)
  BY <1>1, ApIs
<1>3. u \in BOOLEAN
  OBVIOUS
<1>4. ~u => OwnKingIsSafe(h) /\ OneKingEach(h)
  <2> SUFFICES ASSUME ~u PROVE OwnKingIsSafe(h) /\ OneKingEach(h)
    OBVIOUS
  <2> DEFINE g == c.game
  <2>1. /\ IsGame(g) /\ RightsAreKept(g) /\ OwnKingIsSafe(g) /\ OneKingEach(g)
        /\ ~IsPassant(g, s, t) /\ ~CarriesKing(g.b, s, t) /\ lg(g, s, t)
    BY <1>1 DEF GameParts
  <2>2. g.t \in {-1, 1} /\ g.t \in Int
    BY <2>1, GameTypes
  <2>3. h.b = BoardAfter(g, s, t) /\ h.t = -g.t
    BY <1>2
  <2> HIDE DEF g, h
  <2>4. -h.t = g.t
    BY <2>2, <2>3
  <2>5. ~ic(BoardAfter(g, s, t), g.t)
    BY <2>1, OwnKingStaysSafe
  <2>6. OwnKingIsSafe(h)
    BY <2>3, <2>4, <2>5, Zenon DEF OwnKingIsSafe
  <2>7. \A e \in {-1, 1} : \E p \in Square : \A q \in Square : BoardAfter(g, s, t)[q] = e * cK <=> q = p
    BY <2>1, KingsStay
  <2>8. \A e \in {-1, 1} : \E p \in Square : \A q \in Square : h.b[q] = e * cK <=> q = p
    BY <2>3, <2>7, Zenon
  <2>9. OneKingEach(h)
    BY <2>8, KingsAre
  <2> QED
    BY <2>6, <2>9
<1>5. d = [play |-> c.play, game |-> h, sel |-> z, timers |-> k, plies |-> c.plies + 1, unseen |-> u]
  BY Zenon
<1> HIDE DEF u, h
<1>6. d.play = c.play /\ d.game = h /\ d.sel = z /\ d.timers = k /\ d.plies = c.plies + 1 /\ d.unseen = u
  BY <1>5
<1>7. d = [play |-> d.play, game |-> d.game, sel |-> d.sel, timers |-> d.timers,
            plies |-> d.plies, unseen |-> d.unseen]
  BY <1>5, <1>6, Zenon
<1>8. d.sel \in Square \cup {NoSquare} /\ d.timers \in Int /\ d.plies \in Nat /\ d.plies > 0 /\ d.unseen \in BOOLEAN
  BY <1>1, <1>3, <1>6
<1>9. GameParts(d.game) /\ (d.unseen \/ (OwnKingIsSafe(d.game) /\ OneKingEach(d.game)))
  BY <1>2, <1>4, <1>6
<1>10. d.game.ov <=> ~hm(d.game, d.game.t)
  BY <1>2, <1>6
<1> QED
  BY <1>7, <1>8, <1>9, <1>10 DEF Sound

\* Steps that leave the game as it is.
LEMMA SameGame ==
    ASSUME NEW c, Sound(c), NEW p, NEW z \in Square \cup {NoSquare}, NEW k \in Int, k <= c.timers, NEW d,
           d = [play |-> p, game |-> c.game, sel |-> z, timers |-> k, plies |-> c.plies, unseen |-> c.unseen]
    PROVE  Sound(d)
<1>1. d.play = p /\ d.game = c.game /\ d.sel = z /\ d.timers = k /\ d.plies = c.plies /\ d.unseen = c.unseen
  OBVIOUS
<1>2. d = [play |-> d.play, game |-> d.game, sel |-> d.sel, timers |-> d.timers,
            plies |-> d.plies, unseen |-> d.unseen]
  BY <1>1, Zenon
<1>3. /\ c.timers \in Int /\ c.plies \in Nat /\ c.unseen \in BOOLEAN
      /\ c.timers > 0 => c.plies > 0
      /\ GameParts(c.game)
      /\ c.unseen \/ (OwnKingIsSafe(c.game) /\ OneKingEach(c.game))
      /\ c.plies > 0 => (c.game.ov <=> ~hm(c.game, c.game.t))
  BY DEF Sound
<1>4. d.timers \in Int /\ d.plies \in Nat /\ d.unseen \in BOOLEAN /\ (d.timers > 0 => d.plies > 0)
      /\ d.sel \in Square \cup {NoSquare}
  BY <1>1, <1>3
<1>5. /\ GameParts(d.game)
      /\ d.unseen \/ (OwnKingIsSafe(d.game) /\ OneKingEach(d.game))
      /\ d.plies > 0 => (d.game.ov <=> ~hm(d.game, d.game.t))
  BY <1>1, <1>3
<1> QED
  BY <1>2, <1>4, <1>5 DEF Sound

LEMMA RestartIsSound ==
    ASSUME NEW c, Sound(c), NEW d,
           d = [play |-> c.play, game |-> newCh, sel |-> NoSquare, timers |-> c.timers, plies |-> c.plies, unseen |-> FALSE]
    PROVE  Sound(d)
<1>1. d.play = c.play /\ d.game = newCh /\ d.sel = NoSquare /\ d.timers = c.timers /\ d.plies = c.plies /\ d.unseen = FALSE
  OBVIOUS
<1>2. d = [play |-> d.play, game |-> d.game, sel |-> d.sel, timers |-> d.timers,
            plies |-> d.plies, unseen |-> d.unseen]
  BY <1>1, Zenon
<1>3. c.timers \in Int /\ c.plies \in Nat /\ (c.timers > 0 => c.plies > 0)
  BY DEF Sound
<1>4. GameParts(newCh) /\ OwnKingIsSafe(newCh) /\ OneKingEach(newCh)
  BY NewGame
<1>5. newCh.ov <=> ~hm(newCh, newCh.t)
  <2>1. newCh.t = 1 /\ newCh.ov = FALSE
    BY NewBoard
  <2> QED
    BY <2>1, NewMoves
<1>6. d.timers \in Int /\ d.plies \in Nat /\ d.unseen \in BOOLEAN /\ (d.timers > 0 => d.plies > 0)
      /\ d.sel \in Square \cup {NoSquare}
  BY <1>1, <1>3
<1>7. /\ GameParts(d.game)
      /\ d.unseen \/ (OwnKingIsSafe(d.game) /\ OneKingEach(d.game))
      /\ d.plies > 0 => (d.game.ov <=> ~hm(d.game, d.game.t))
  BY <1>1, <1>4, <1>5
<1> QED
  BY <1>2, <1>6, <1>7 DEF Sound

\* A side that has a legal move is not mated.
LEMMA LegalIsOn ==
    ASSUME NEW c, Sound(c), c.plies > 0, NEW s \in Square, NEW t, lg(c.game, s, t)
    PROVE  ~c.game.ov
<1>1. Colour(c.game.b[s]) = c.game.t /\ t \in Square
  BY DEF lg
<1>2. hm(c.game, c.game.t)
  BY <1>1 DEF hm
<1> QED
  BY <1>2 DEF Sound

LEMMA ChessStep == ChessInv /\ [ChessNext]_chess => ChessInv'
<1> SUFFICES ASSUME ChessInv, [ChessNext]_chess PROVE ChessInv'
  OBVIOUS
<1> USE DEF ChessInv
<1>1. CASE PlayChess
  <2>1. PICK g \in Starts : chess' = [NoChess EXCEPT !.play = "on", !.game = g]
    BY <1>1 DEF PlayChess
  <2>2. chess' = [play |-> "on", game |-> g, sel |-> NoSquare, timers |-> 0, plies |-> 0, unseen |-> FALSE]
    BY <2>1 DEF NoChess
  <2>3. Sound(chess')
    BY <2>2, StartIsSound, Zenon
  <2>4. Sound(chess)'
    BY <2>3
  <2> QED
    BY <2>4
<1>2. ASSUME chess.play = "on" PROVE Sound(chess)
  BY <1>2
<1>3. ASSUME Sound(chess)
      PROVE  /\ chess = [play |-> chess.play, game |-> chess.game, sel |-> chess.sel, timers |-> chess.timers,
                         plies |-> chess.plies, unseen |-> chess.unseen]
             /\ chess.sel \in Square \cup {NoSquare} /\ chess.timers \in Int /\ chess.plies \in Nat
             /\ chess.timers > 0 => chess.plies > 0
  BY <1>3 DEF Sound
<1>4. CASE Select
  <2>1. Sound(chess)
    BY <1>2, <1>4 DEF Select
  <2>2. CASE \E m \in Moves : /\ Colour(chess.game.b[<<m[1], m[2]>>]) = chess.game.t
                              /\ chess' = [chess EXCEPT !.sel = <<m[1], m[2]>>]
    <3>1. PICK m \in Moves : chess' = [chess EXCEPT !.sel = <<m[1], m[2]>>]
      BY <2>2
    <3> DEFINE z == <<m[1], m[2]>>
    <3>2. z \in Square
      BY ChessAssumption DEF Square
    <3> HIDE DEF z
    <3>3. chess' = [chess EXCEPT !.sel = z]
      BY <3>1 DEF z
    <3>4. chess' = [play |-> chess.play, game |-> chess.game, sel |-> z, timers |-> chess.timers,
                    plies |-> chess.plies, unseen |-> chess.unseen]
      BY <1>3, <2>1, <3>3
    <3>5. chess.timers \in Int /\ chess.timers <= chess.timers /\ z \in Square \cup {NoSquare}
      BY <1>3, <2>1, <3>2
    <3> QED
      BY <2>1, <3>4, <3>5, SameGame
  <2>3. CASE chess' = [chess EXCEPT !.play = "panic"]
    <3>1. chess' = [play |-> "panic", game |-> chess.game, sel |-> chess.sel, timers |-> chess.timers,
                    plies |-> chess.plies, unseen |-> chess.unseen]
      BY <1>3, <2>1, <2>3
    <3>2. chess.timers \in Int /\ chess.timers <= chess.timers /\ chess.sel \in Square \cup {NoSquare}
      BY <1>3, <2>1
    <3> QED
      BY <2>1, <3>1, <3>2, SameGame
  <2> QED
    BY <1>4, <2>2, <2>3 DEF Select
<1>5. CASE MoveTo
  <2>1. Sound(chess) /\ ~chess.game.ov /\ chess.sel # NoSquare
    BY <1>2, <1>5 DEF MoveTo
  <2>2. chess.sel \in Square
    BY <1>3, <2>1
  <2>3. PICK m \in Moves :
           /\ lg(chess.game, chess.sel, <<m[3], m[4]>>)
           /\ LET c == Moved(chess.sel, <<m[3], m[4]>>)
              IN chess' = [c EXCEPT !.sel = NoSquare, !.timers = IF c.game.ov THEN @ ELSE @ + 1]
    BY <1>5 DEF MoveTo
  <2> DEFINE s == chess.sel
  <2> DEFINE t == <<m[3], m[4]>>
  <2> DEFINE c == Moved(s, t)
  <2> DEFINE h == ap(chess.game, s, t)
  <2> DEFINE u == chess.unseen \/ IsPassant(chess.game, s, t) \/ CarriesKing(chess.game.b, s, t)
  <2> DEFINE k == IF c.game.ov THEN chess.timers ELSE chess.timers + 1
  <2>4. c = [chess EXCEPT !.game = h, !.plies = @ + 1, !.unseen = u]
    BY Zenon DEF Moved
  <2>5. chess' = [c EXCEPT !.sel = NoSquare, !.timers = IF c.game.ov THEN @ ELSE @ + 1]
    BY <2>3, Zenon
  <2>6. k \in Int
    BY <1>3, <2>1
  <2>7. lg(chess.game, chess.sel, t)
    BY <2>3
  <2> HIDE DEF h, u, c, s, t
  <2>8. c = [play |-> chess.play, game |-> h, sel |-> chess.sel, timers |-> chess.timers,
             plies |-> chess.plies + 1, unseen |-> u]
    BY <1>3, <2>1, <2>4
  <2>9. c.timers = chess.timers
    BY <2>8
  <2>10. chess' = [c EXCEPT !.sel = NoSquare, !.timers = k]
    BY <2>5, <2>9
  <2> HIDE DEF k
  <2>11. chess' = [play |-> chess.play, game |-> h, sel |-> NoSquare, timers |-> k,
                   plies |-> chess.plies + 1, unseen |-> u]
    BY <2>8, <2>10
  <2>12. chess' = [play |-> chess.play, game |-> ap(chess.game, chess.sel, t), sel |-> NoSquare, timers |-> k,
                   plies |-> chess.plies + 1,
                   unseen |-> chess.unseen \/ IsPassant(chess.game, chess.sel, t)
                              \/ CarriesKing(chess.game.b, chess.sel, t)]
    BY <2>11, Zenon DEF h, u, s
  <2>13. NoSquare \in Square \cup {NoSquare}
    OBVIOUS
  <2> QED
    BY <2>1, <2>2, <2>6, <2>7, <2>12, <2>13, MovedIsSound, Zenon
<1>6. CASE Deselect
  <2>1. Sound(chess) /\ chess' = [chess EXCEPT !.sel = NoSquare]
    BY <1>2, <1>6 DEF Deselect
  <2>2. chess' = [play |-> chess.play, game |-> chess.game, sel |-> NoSquare, timers |-> chess.timers,
                  plies |-> chess.plies, unseen |-> chess.unseen]
    BY <1>3, <2>1
  <2>3. chess.timers \in Int /\ chess.timers <= chess.timers /\ NoSquare \in Square \cup {NoSquare}
    BY <1>3, <2>1
  <2> QED
    BY <2>1, <2>2, <2>3, SameGame
<1>7. CASE ai
  <2>1. Sound(chess) /\ chess.timers > 0
    BY <1>2, <1>7 DEF ai
  <2>2. chess.plies > 0 /\ chess.timers - 1 \in Int /\ chess.timers - 1 <= chess.timers
        /\ chess.sel \in Square \cup {NoSquare}
    BY <1>3, <2>1
  <2>3. CASE chess' = [chess EXCEPT !.timers = @ - 1]
    <3>1. chess' = [play |-> chess.play, game |-> chess.game, sel |-> chess.sel, timers |-> chess.timers - 1,
                    plies |-> chess.plies, unseen |-> chess.unseen]
      BY <1>3, <2>1, <2>3
    <3> QED
      BY <2>1, <2>2, <3>1, SameGame
  <2>4. CASE \E m \in AIMoves(chess.game) : chess' = [Moved(m[1], m[2]) EXCEPT !.timers = @ - 1]
    <3>1. PICK m \in AIMoves(chess.game) : chess' = [Moved(m[1], m[2]) EXCEPT !.timers = @ - 1]
      BY <2>4
    <3>2. m \in Square \X Square /\ lg(chess.game, m[1], m[2])
      BY Zenon DEF AIMoves
    <3> DEFINE s == m[1]
    <3> DEFINE t == m[2]
    <3>3. s \in Square /\ lg(chess.game, s, t)
      BY <3>2
    <3> DEFINE c == Moved(s, t)
    <3> DEFINE h == ap(chess.game, s, t)
    <3> DEFINE u == chess.unseen \/ IsPassant(chess.game, s, t) \/ CarriesKing(chess.game.b, s, t)
    <3>4. c = [chess EXCEPT !.game = h, !.plies = @ + 1, !.unseen = u]
      BY Zenon DEF Moved
    <3>5. chess' = [c EXCEPT !.timers = @ - 1]
      BY <3>1, Zenon
    <3> HIDE DEF h, u, c, s, t
    <3>6. c = [play |-> chess.play, game |-> h, sel |-> chess.sel, timers |-> chess.timers,
               plies |-> chess.plies + 1, unseen |-> u]
      BY <1>3, <2>1, <3>4
    <3>7. chess' = [play |-> chess.play, game |-> h, sel |-> chess.sel, timers |-> chess.timers - 1,
                    plies |-> chess.plies + 1, unseen |-> u]
      BY <3>5, <3>6
    <3>8. chess' = [play |-> chess.play, game |-> ap(chess.game, s, t), sel |-> chess.sel,
                    timers |-> chess.timers - 1, plies |-> chess.plies + 1,
                    unseen |-> chess.unseen \/ IsPassant(chess.game, s, t) \/ CarriesKing(chess.game.b, s, t)]
      BY <3>7, Zenon DEF h, u
    <3>9. ~chess.game.ov
      BY <2>1, <2>2, <3>3, LegalIsOn
    <3> QED
      BY <2>1, <2>2, <3>3, <3>8, <3>9, MovedIsSound, Zenon
  <2> QED
    BY <1>7, <2>3, <2>4 DEF ai
<1>8. CASE RestartChess
  <2>1. Sound(chess) /\ chess' = [chess EXCEPT !.game = newCh, !.sel = NoSquare, !.unseen = FALSE]
    BY <1>2, <1>8 DEF RestartChess
  <2>2. chess' = [play |-> chess.play, game |-> newCh, sel |-> NoSquare, timers |-> chess.timers,
                  plies |-> chess.plies, unseen |-> FALSE]
    BY <1>3, <2>1
  <2> QED
    BY <2>1, <2>2, RestartIsSound
<1>9. CASE QuitChess
  <2>1. Sound(chess) /\ chess' = [chess EXCEPT !.play = "over"]
    BY <1>2, <1>9 DEF QuitChess
  <2>2. chess' = [play |-> "over", game |-> chess.game, sel |-> chess.sel, timers |-> chess.timers,
                  plies |-> chess.plies, unseen |-> chess.unseen]
    BY <1>3, <2>1
  <2>3. chess.timers \in Int /\ chess.timers <= chess.timers /\ chess.sel \in Square \cup {NoSquare}
    BY <1>3, <2>1
  <2> QED
    BY <2>1, <2>2, <2>3, SameGame
<1>10. CASE UNCHANGED chess
  BY <1>10
<1> QED
  BY <1>1, <1>4, <1>5, <1>6, <1>7, <1>8, <1>9, <1>10 DEF ChessNext

\* Chess (PositionsAreLegal), for every set of games to begin with and every sequence
\* of moves, of the user's and of the computer's: a legal move leaves the own king out
\* of check and both kings on the board, and the game ends exactly when a side cannot move.
THEOREM PositionsAreLegalHolds == ChessInit /\ [][ChessNext]_chess => []PositionsAreLegal
<1>1. ChessInit => ChessInv
  <2>1. NoChess.play = "idle"
    BY DEF NoChess
  <2> QED
    BY <2>1 DEF ChessInit, ChessInv
<1>2. ChessInv => PositionsAreLegal
  BY DEF ChessInv, Sound, GameParts, PositionsAreLegal
<1> QED
  BY <1>1, <1>2, ChessStep, PTL

-------------------------------------------------------------------------------
(* Sums: what the sums of 2048 and solitaire need.                        *)

\* Numbers to add: they are integers; the same; the same but one; the other way round; added
\* one by one.
Ints(f, n) == \A i \in 1 .. n : f[i] \in Int
Same(f, g, n) == \A i \in 1 .. n : f[i] = g[i]
Changed(f, g, n, k) == k \in 1 .. n /\ Ints(f, n) /\ g[k] \in Int /\ \A i \in 1 .. n : i # k => g[i] = f[i]
Turned(f, g, n) == \A i \in 1 .. n : g[i] = f[n + 1 - i]
Added(f, g, h, n) == Ints(f, n) /\ Ints(g, n) /\ \A i \in 1 .. n : h[i] = f[i] + g[i]

\* The numbers a[i][j], by rows and by columns.
ByRows(a, row, column, n, m) ==
    \A i \in 1 .. n, j \in 1 .. m :
        a[i][j] \in Int /\ row[i][j] = a[i][j] /\ column[j][i] = a[i][j]
SumOf(rows, row, n, m) == \A i \in 1 .. n : rows[i] = SumTo(row[i], m)

\* The sums of f are what a loop adds up.
Adds(f, n, h) == h[0] = 0 /\ \A i \in 1 .. n : h[i] = h[i - 1] + f[i]

LEMMA SumLoop ==
    ASSUME NEW f, NEW n \in Nat, \A i \in 1 .. n : f[i] \in Int
    PROVE  \E h \in [0 .. n -> Int] : Adds(f, n, h) /\ SumTo(f, n) = h[n]
<1> DEFINE step(h) == [i \in 0 .. n |-> IF i = 0 THEN 0 ELSE h[i - 1] + f[i]]
<1> DEFINE F == [p \in Nat \X Int |-> IF p[1] \in 1 .. n THEN p[2] + f[p[1]] ELSE p[2]]
<1>1. F \in [Nat \X Int -> Int]
  OBVIOUS
<1>2. \E g : Recursive_(g, Int, 0, F, n)
  <2> HIDE DEF F
  <2>1. 0 \in Int
    OBVIOUS
  <2> QED
    BY <1>1, <2>1, Recursion
<1>3. PICK g : Recursive_(g, Int, 0, F, n)
  BY <1>2
<1>4. g \in [0 .. n -> Int] /\ g[0] = 0
  BY <1>3 DEF Recursive_
<1>5. ASSUME NEW i \in 1 .. n
      PROVE  g[i] = g[i - 1] + f[i]
  <2>1. g[i] = F[<<i, g[i - 1]>>]
    <3> HIDE DEF F
    <3> QED
      BY <1>3 DEF Recursive_
  <2>2. i \in Nat /\ i - 1 \in 0 .. n
    OBVIOUS
  <2>3. g[i - 1] \in Int
    BY <1>4, <2>2
  <2> QED
    BY <2>1, <2>2, <2>3
<1>6. g = step(g)
  BY <1>4, <1>5
<1>7. \E h : h = step(h) /\ SumTo(f, n) = h[n]
  BY <1>6 DEF SumTo
<1>8. PICK h : h = step(h) /\ SumTo(f, n) = h[n]
  BY <1>7
<1>9. ASSUME NEW i \in 0 .. n PROVE h[i] = IF i = 0 THEN 0 ELSE h[i - 1] + f[i]
  <2>1. h[i] = step(h)[i]
    BY <1>8
  <2> QED
    BY <2>1
<1> DEFINE S == {i \in Nat : i \in 0 .. n => h[i] \in Int}
<1>10. 0 \in S
  BY <1>9
<1>11. ASSUME NEW i \in Nat, i \in S PROVE i + 1 \in S
  <2> SUFFICES ASSUME i + 1 \in 0 .. n PROVE h[i + 1] \in Int
    OBVIOUS
  <2>1. h[i] \in Int /\ i + 1 \in 1 .. n /\ (i + 1) - 1 = i /\ i + 1 # 0
    BY <1>11
  <2>2. h[i + 1] = h[i] + f[i + 1]
    BY <1>9, <2>1
  <2> QED
    BY <2>1, <2>2
<1>12. Nat \subseteq S
  <2> HIDE DEF S
  <2> QED
    BY <1>10, <1>11, SetInduction
<1>13. \A i \in 0 .. n : h[i] \in Int
  BY <1>12
<1>14. h = [i \in 0 .. n |-> h[i]]
  BY <1>8
<1>15. h \in [0 .. n -> Int]
  BY <1>13, <1>14
<1>16. Adds(f, n, h)
  BY <1>9 DEF Adds
<1> QED
  BY <1>8, <1>15, <1>16

\* Any loop that adds up the same numbers ends with the same sum.
LEMMA LoopsAgree ==
    ASSUME NEW n \in Nat, NEW f, NEW g, NEW h, NEW k,
           Adds(f, n, h), Adds(g, n, k), \A i \in 1 .. n : f[i] = g[i]
    PROVE  h[n] = k[n]
<1> DEFINE S == {i \in Nat : i \in 0 .. n => h[i] = k[i]}
<1>1. 0 \in S
  BY DEF Adds
<1>2. ASSUME NEW i \in Nat, i \in S PROVE i + 1 \in S
  <2> SUFFICES ASSUME i + 1 \in 0 .. n PROVE h[i + 1] = k[i + 1]
    OBVIOUS
  <2>1. h[i] = k[i] /\ i + 1 \in 1 .. n /\ (i + 1) - 1 = i
    BY <1>2
  <2> QED
    BY <2>1 DEF Adds
<1>3. Nat \subseteq S
  <2> HIDE DEF S
  <2> QED
    BY <1>1, <1>2, SetInduction
<1> QED
  BY <1>3

\* The sum up to n, of numbers, is the one before and the last number.
LEMMA SumZero == ASSUME NEW f PROVE SumTo(f, 0) = 0
<1>1. \A i \in 1 .. 0 : f[i] \in Int
  OBVIOUS
<1>2. PICK h : Adds(f, 0, h) /\ SumTo(f, 0) = h[0]
  BY <1>1, SumLoop
<1> QED
  BY <1>2 DEF Adds

LEMMA SumNext ==
    ASSUME NEW f, NEW n \in Nat, \A i \in 1 .. n + 1 : f[i] \in Int
    PROVE  SumTo(f, n) \in Int /\ SumTo(f, n + 1) = SumTo(f, n) + f[n + 1]
<1>1. PICK h \in [0 .. n + 1 -> Int] : Adds(f, n + 1, h) /\ SumTo(f, n + 1) = h[n + 1]
  BY SumLoop, n + 1 \in Nat
<1>2. \A i \in 1 .. n : f[i] \in Int
  OBVIOUS
<1>3. PICK k \in [0 .. n -> Int] : Adds(f, n, k) /\ SumTo(f, n) = k[n]
  BY <1>2, SumLoop
<1>4. Adds(f, n, h)
  BY <1>1 DEF Adds
<1>5. h[n] = k[n]
  BY <1>3, <1>4, LoopsAgree
<1>6. n + 1 \in 1 .. n + 1 /\ (n + 1) - 1 = n /\ n \in 0 .. n
  OBVIOUS
<1>7. h[n + 1] = h[n] + f[n + 1] /\ k[n] \in Int
  BY <1>1, <1>3, <1>6 DEF Adds
<1> QED
  BY <1>1, <1>3, <1>5, <1>7

LEMMA SumType ==
    ASSUME NEW f, NEW n \in Nat, Ints(f, n)
    PROVE  SumTo(f, n) \in Int
<1> USE DEF Ints
<1>1. PICK h \in [0 .. n -> Int] : SumTo(f, n) = h[n]
  BY SumLoop
<1> QED
  BY <1>1

LEMMA SumEqual ==
    ASSUME NEW n \in Nat, NEW f, NEW g, Ints(f, n), Same(f, g, n)
    PROVE  SumTo(f, n) = SumTo(g, n)
<1> USE DEF Ints, Same
<1>1. PICK h : Adds(f, n, h) /\ SumTo(f, n) = h[n]
  BY SumLoop
<1>2. \A i \in 1 .. n : g[i] \in Int
  OBVIOUS
<1>3. PICK k : Adds(g, n, k) /\ SumTo(g, n) = k[n]
  BY <1>2, SumLoop
<1> QED
  BY <1>1, <1>3, LoopsAgree

LEMMA SumPlus ==
    ASSUME NEW n \in Nat, NEW f, NEW g, NEW h, Added(f, g, h, n)
    PROVE  SumTo(h, n) = SumTo(f, n) + SumTo(g, n)
<1> USE DEF Ints, Added
<1> DEFINE S == {k \in Nat : k <= n => SumTo(h, k) = SumTo(f, k) + SumTo(g, k)}
<1>1. 0 \in S
  BY SumZero
<1>2. ASSUME NEW k \in Nat, k \in S PROVE k + 1 \in S
  <2> SUFFICES ASSUME k + 1 <= n PROVE SumTo(h, k + 1) = SumTo(f, k + 1) + SumTo(g, k + 1)
    OBVIOUS
  <2>1. SumTo(h, k) = SumTo(f, k) + SumTo(g, k) /\ k + 1 \in 1 .. n
    BY <1>2
  <2>2. \A i \in 1 .. k + 1 : i \in 1 .. n
    OBVIOUS
  <2>3. \A i \in 1 .. k + 1 : f[i] \in Int /\ g[i] \in Int /\ h[i] \in Int
    BY <2>2
  <2>4. SumTo(h, k) \in Int /\ SumTo(h, k + 1) = SumTo(h, k) + h[k + 1]
    BY <2>3, SumNext
  <2>5. SumTo(f, k) \in Int /\ SumTo(f, k + 1) = SumTo(f, k) + f[k + 1]
    BY <2>3, SumNext
  <2>6. SumTo(g, k) \in Int /\ SumTo(g, k + 1) = SumTo(g, k) + g[k + 1]
    BY <2>3, SumNext
  <2>7. h[k + 1] = f[k + 1] + g[k + 1] /\ f[k + 1] \in Int /\ g[k + 1] \in Int
    BY <2>1
  <2> QED
    BY <2>1, <2>4, <2>5, <2>6, <2>7
<1>3. Nat \subseteq S
  <2> HIDE DEF S
  <2> QED
    BY <1>1, <1>2, SetInduction
<1> QED
  BY <1>3

\* Where one number changes, the sum changes by as much.
LEMMA SumChange ==
    ASSUME NEW n \in Nat, NEW f, NEW g, NEW k, Changed(f, g, n, k)
    PROVE  SumTo(f, n) \in Int /\ SumTo(g, n) = SumTo(f, n) - f[k] + g[k]
<1> USE DEF Ints, Changed
<1> DEFINE S == {m \in Nat : m <= n => SumTo(g, m) = IF m < k THEN SumTo(f, m)
                                                    ELSE SumTo(f, m) - f[k] + g[k]}
<1>1. 0 \in S
  BY SumZero
<1>2. ASSUME NEW m \in Nat, m \in S PROVE m + 1 \in S
  <2> SUFFICES ASSUME m + 1 <= n
               PROVE  SumTo(g, m + 1) = IF m + 1 < k THEN SumTo(f, m + 1)
                                        ELSE SumTo(f, m + 1) - f[k] + g[k]
    OBVIOUS
  <2>1. SumTo(g, m) = (IF m < k THEN SumTo(f, m) ELSE SumTo(f, m) - f[k] + g[k]) /\ m + 1 \in 1 .. n
    BY <1>2
  <2>2. \A i \in 1 .. m + 1 : i \in 1 .. n
    OBVIOUS
  <2>3. \A i \in 1 .. m + 1 : f[i] \in Int /\ g[i] \in Int
    BY <2>2
  <2>4. SumTo(f, m) \in Int /\ SumTo(f, m + 1) = SumTo(f, m) + f[m + 1]
    BY <2>3, SumNext
  <2>5. SumTo(g, m) \in Int /\ SumTo(g, m + 1) = SumTo(g, m) + g[m + 1]
    BY <2>3, SumNext
  <2>6. f[k] \in Int /\ f[m + 1] \in Int /\ (m + 1 # k => g[m + 1] = f[m + 1])
    BY <2>1
  <2>7. CASE m + 1 < k
    BY <2>1, <2>4, <2>5, <2>6, <2>7
  <2>8. CASE m + 1 = k
    BY <2>1, <2>4, <2>5, <2>6, <2>8
  <2>9. CASE k < m + 1
    BY <2>1, <2>4, <2>5, <2>6, <2>9
  <2> QED
    BY <2>7, <2>8, <2>9
<1>3. Nat \subseteq S
  <2> HIDE DEF S
  <2> QED
    BY <1>1, <1>2, SetInduction
<1>4. SumTo(g, n) = SumTo(f, n) - f[k] + g[k]
  BY <1>3
<1>5. SumTo(f, n) \in Int
  BY SumType
<1> QED
  BY <1>4, <1>5

LEMMA SumReverse ==
    ASSUME NEW n \in Nat, NEW f, NEW g, Ints(f, n), Turned(f, g, n)
    PROVE  SumTo(g, n) = SumTo(f, n)
<1> USE DEF Ints, Turned
<1> DEFINE S == {m \in Nat : m <= n => SumTo(g, m) = SumTo(f, n) - SumTo(f, n - m)}
<1>0. SumTo(f, n) \in Int
  BY SumType
<1>1. 0 \in S
  BY <1>0, SumZero, n - 0 = n
<1>2. ASSUME NEW m \in Nat, m \in S PROVE m + 1 \in S
  <2> SUFFICES ASSUME m + 1 <= n
               PROVE  SumTo(g, m + 1) = SumTo(f, n) - SumTo(f, n - (m + 1))
    OBVIOUS
  <2> DEFINE k == n - (m + 1)
  <2>1. SumTo(g, m) = SumTo(f, n) - SumTo(f, n - m) /\ k \in Nat /\ n - m = k + 1
    BY <1>2
  <2>2. \A i \in 1 .. m + 1 : i \in 1 .. n /\ n + 1 - i \in 1 .. n
    OBVIOUS
  <2>3. \A i \in 1 .. m + 1 : g[i] \in Int
    BY <2>2
  <2>4. SumTo(g, m + 1) = SumTo(g, m) + g[m + 1]
    BY <2>3, SumNext
  <2>5. \A i \in 1 .. k + 1 : i \in 1 .. n
    OBVIOUS
  <2>6. \A i \in 1 .. k + 1 : f[i] \in Int
    BY <2>5
  <2>7. k \in Nat
    BY <2>1
  <2>8. SumTo(f, k) \in Int /\ SumTo(f, k + 1) = SumTo(f, k) + f[k + 1]
    <3> HIDE DEF k
    <3> QED
      BY <2>6, <2>7, SumNext
  <2>9. m + 1 \in 1 .. n /\ n + 1 - (m + 1) = k + 1 /\ k + 1 \in 1 .. n
    OBVIOUS
  <2>10. g[m + 1] = f[k + 1] /\ f[k + 1] \in Int
    <3> HIDE DEF k
    <3> QED
      BY <2>9
  <2>11. SumTo(f, n - m) = SumTo(f, k) + f[k + 1]
    BY <2>1, <2>8
  <2> HIDE DEF k
  <2>12. SumTo(g, m + 1) = SumTo(f, n) - SumTo(f, k)
    BY <1>0, <2>1, <2>4, <2>8, <2>10, <2>11
  <2> QED
    BY <2>12 DEF k
<1>3. Nat \subseteq S
  <2> HIDE DEF S
  <2> QED
    BY <1>1, <1>2, SetInduction
<1>4. SumTo(g, n) = SumTo(f, n) - SumTo(f, n - n)
  BY <1>3
<1> QED
  BY <1>0, <1>4, SumZero, n - n = 0

LEMMA SumNothing ==
    ASSUME NEW n \in Nat, NEW f, \A i \in 1 .. n : f[i] = 0
    PROVE  SumTo(f, n) = 0
<1>1. \A i \in 1 .. n : f[i] \in Int /\ f[i] = f[i] + f[i]
  OBVIOUS
<1>5. Ints(f, n) /\ Added(f, f, f, n)
  BY <1>1 DEF Ints, Added
<1>2. SumTo(f, n) = SumTo(f, n) + SumTo(f, n)
  BY <1>5, SumPlus
<1>3. SumTo(f, n) \in Int
  BY <1>5, SumType
<1>4. \A s \in Int : s = s + s => s = 0
  OBVIOUS
<1> QED
  BY <1>2, <1>3, <1>4

LEMMA SumNat ==
    ASSUME NEW n \in Nat, NEW f, \A i \in 1 .. n : f[i] \in Nat
    PROVE  SumTo(f, n) \in Nat /\ (SumTo(f, n) = 0 => \A i \in 1 .. n : f[i] = 0)
<1> DEFINE S == {k \in Nat : k <= n => /\ SumTo(f, k) \in Nat
                                       /\ SumTo(f, k) = 0 => \A i \in 1 .. k : f[i] = 0}
<1>1. 0 \in S
  BY SumZero
<1>2. ASSUME NEW k \in Nat, k \in S PROVE k + 1 \in S
  <2> SUFFICES ASSUME k + 1 <= n
               PROVE  SumTo(f, k + 1) \in Nat /\ (SumTo(f, k + 1) = 0 => \A i \in 1 .. k + 1 : f[i] = 0)
    OBVIOUS
  <2>1. SumTo(f, k) \in Nat /\ (SumTo(f, k) = 0 => \A i \in 1 .. k : f[i] = 0) /\ k + 1 \in 1 .. n
    BY <1>2
  <2>2. \A i \in 1 .. k + 1 : i \in 1 .. n /\ (i = k + 1 \/ i \in 1 .. k)
    OBVIOUS
  <2>3. \A i \in 1 .. k + 1 : f[i] \in Int
    BY <2>2
  <2>4. SumTo(f, k + 1) = SumTo(f, k) + f[k + 1] /\ f[k + 1] \in Nat
    BY <2>1, <2>3, SumNext
  <2>5. SumTo(f, k + 1) \in Nat /\ (SumTo(f, k + 1) = 0 => SumTo(f, k) = 0 /\ f[k + 1] = 0)
    BY <2>1, <2>4
  <2> QED
    BY <2>1, <2>2, <2>5
<1>3. Nat \subseteq S
  <2> HIDE DEF S
  <2> QED
    BY <1>1, <1>2, SetInduction
<1> QED
  BY <1>3

LEMMA SumConstant ==
    ASSUME NEW n \in Nat, NEW f, NEW c \in Int, \A i \in 1 .. n : f[i] = c
    PROVE  SumTo(f, n) = n * c
<1> DEFINE S == {k \in Nat : k <= n => SumTo(f, k) = k * c}
<1>1. 0 \in S
  BY SumZero
<1>2. ASSUME NEW k \in Nat, k \in S PROVE k + 1 \in S
  <2> SUFFICES ASSUME k + 1 <= n PROVE SumTo(f, k + 1) = (k + 1) * c
    OBVIOUS
  <2>1. SumTo(f, k) = k * c /\ k + 1 \in 1 .. n
    BY <1>2
  <2>2. \A i \in 1 .. k + 1 : i \in 1 .. n
    OBVIOUS
  <2>3. \A i \in 1 .. k + 1 : f[i] \in Int
    BY <2>2
  <2>4. SumTo(f, k + 1) = SumTo(f, k) + f[k + 1] /\ f[k + 1] = c
    BY <2>1, <2>3, SumNext
  <2>5. (k + 1) * c = k * c + c
    OBVIOUS
  <2> QED
    BY <2>1, <2>4, <2>5
<1>3. Nat \subseteq S
  <2> HIDE DEF S
  <2> QED
    BY <1>1, <1>2, SetInduction
<1> QED
  BY <1>3

\* A sum by rows is the sum by columns.
LEMMA SumSwap ==
    ASSUME NEW n \in Nat, NEW m \in Nat, NEW a, NEW rows, NEW columns, NEW row, NEW column,
           ByRows(a, row, column, n, m), SumOf(rows, row, n, m), SumOf(columns, column, m, n)
    PROVE  SumTo(rows, n) = SumTo(columns, m)
<1>8. \A i \in 1 .. n, j \in 1 .. m :
          a[i][j] \in Int /\ row[i][j] = a[i][j] /\ column[j][i] = a[i][j]
  BY DEF ByRows
<1>9. (\A i \in 1 .. n : rows[i] = SumTo(row[i], m)) /\ (\A j \in 1 .. m : columns[j] = SumTo(column[j], n))
  BY DEF SumOf
<1> DEFINE part(k) == [j \in 1 .. m |-> SumTo(column[j], k)]
<1> DEFINE S == {k \in Nat : k <= n => SumTo(rows, k) = SumTo(part(k), m)}
<1>0. \A i \in 1 .. n : \A j \in 1 .. m : row[i][j] \in Int
  BY <1>8
<1>1. \A i \in 1 .. n : rows[i] \in Int
  <2> SUFFICES ASSUME NEW i \in 1 .. n PROVE rows[i] \in Int
    OBVIOUS
  <2>0. Ints(row[i], m)
    BY <1>0 DEF Ints
  <2>1. SumTo(row[i], m) \in Int
    BY <2>0, SumType
  <2> QED
    BY <1>9, <2>1
<1>2. 0 \in S
  <2>1. \A j \in 1 .. m : part(0)[j] = 0
    BY SumZero
  <2>2. SumTo(part(0), m) = 0
    <3> HIDE DEF part
    <3> QED
      BY <2>1, SumNothing
  <2> QED
    BY <2>2, SumZero
<1>3. ASSUME NEW k \in Nat, k \in S PROVE k + 1 \in S
  <2> SUFFICES ASSUME k + 1 <= n PROVE SumTo(rows, k + 1) = SumTo(part(k + 1), m)
    OBVIOUS
  <2>1. SumTo(rows, k) = SumTo(part(k), m) /\ k + 1 \in 1 .. n /\ \A i \in 1 .. k + 1 : i \in 1 .. n
    BY <1>3
  <2>2. \A i \in 1 .. k + 1 : rows[i] \in Int
    BY <1>1, <2>1
  <2>3. SumTo(rows, k + 1) = SumTo(rows, k) + rows[k + 1]
    BY <2>2, SumNext
  <2>4. ASSUME NEW j \in 1 .. m
        PROVE  SumTo(column[j], k) \in Int /\ SumTo(column[j], k + 1) = SumTo(column[j], k) + row[k + 1][j]
    <3>1. \A i \in 1 .. k + 1 : column[j][i] \in Int
      BY <1>8, <2>1
    <3>2. SumTo(column[j], k) \in Int /\ SumTo(column[j], k + 1) = SumTo(column[j], k) + column[j][k + 1]
      BY <3>1, SumNext
    <3>3. column[j][k + 1] = row[k + 1][j]
      BY <1>8, <2>1
    <3> QED
      BY <3>2, <3>3
  <2>5. \A j \in 1 .. m : part(k)[j] \in Int /\ row[k + 1][j] \in Int /\ part(k + 1)[j] = part(k)[j] + row[k + 1][j]
    BY <1>0, <2>1, <2>4
  <2>6. SumTo(part(k + 1), m) = SumTo(part(k), m) + SumTo(row[k + 1], m)
    <3> HIDE DEF part
    <3>1. Added(part(k), row[k + 1], part(k + 1), m)
      BY <2>5 DEF Added, Ints
    <3> QED
      BY <3>1, SumPlus
  <2> HIDE DEF part
  <2>7. rows[k + 1] = SumTo(row[k + 1], m)
    BY <1>9, <2>1
  <2> QED
    BY <2>1, <2>3, <2>6, <2>7
<1>4. Nat \subseteq S
  <2> HIDE DEF S
  <2> QED
    BY <1>2, <1>3, SetInduction
<1>5. SumTo(rows, n) = SumTo(part(n), m)
  <2>1. n \in S
    <3> HIDE DEF S
    <3> QED
      BY <1>4
  <2> HIDE DEF part
  <2>2. n <= n
    OBVIOUS
  <2> QED
    BY <2>1, <2>2
<1>6. \A j \in 1 .. m : part(n)[j] \in Int /\ part(n)[j] = columns[j]
  <2> SUFFICES ASSUME NEW j \in 1 .. m PROVE SumTo(column[j], n) \in Int
    BY <1>9
  <2>1. \A i \in 1 .. n : column[j][i] \in Int
    BY <1>8
  <2>2. Ints(column[j], n)
    BY <2>1 DEF Ints
  <2> QED
    BY <2>2, SumType
<1>7. SumTo(part(n), m) = SumTo(columns, m)
  <2> HIDE DEF part
  <2>1. Ints(part(n), m) /\ Same(part(n), columns, m)
    BY <1>6 DEF Ints, Same
  <2> QED
    BY <2>1, SumEqual
<1> QED
  BY <1>5, <1>7

-------------------------------------------------------------------------------
(* 2048: the score is what was merged, the game ends when nothing can      *)
(* move, and rows merge by the rule, for boards of any size.               *)

USE TilesAssumption

\* What a tile is worth: the recursion reaches its end.
WorthUpTo(w, n) == \A v \in 0 .. n : w[v] = IF v <= 2 THEN 0 ELSE 2 * w[v \div 2] + v

LEMMA Halves == \A v \in Nat : /\ v \div 2 \in Nat /\ (2 * v) \div 2 = v
                               /\ v > 2 => v \div 2 < v
OBVIOUS

LEMMA WorthBegins ==
    ASSUME NEW n \in Nat
    PROVE  \E w \in [0 .. n -> Int] : WorthUpTo(w, n)
<1> DEFINE S == {k \in Nat : \E w \in [0 .. k -> Int] : WorthUpTo(w, k)}
<1>1. 0 \in S
  <2>1. [v \in 0 .. 0 |-> 0] \in [0 .. 0 -> Int] /\ WorthUpTo([v \in 0 .. 0 |-> 0], 0)
    BY DEF WorthUpTo
  <2> QED
    BY <2>1
<1>2. ASSUME NEW k \in Nat, k \in S PROVE k + 1 \in S
  <2>1. PICK w \in [0 .. k -> Int] : WorthUpTo(w, k)
    BY <1>2
  <2> DEFINE u == [v \in 0 .. k + 1 |-> IF v = k + 1 THEN IF v <= 2 THEN 0 ELSE 2 * w[v \div 2] + v ELSE w[v]]
  <2>2. ASSUME NEW v \in 0 .. k + 1
        PROVE  u[v] \in Int /\ u[v] = IF v <= 2 THEN 0 ELSE 2 * u[v \div 2] + v
    <3>1. CASE v <= 2
      <4>1. v # k + 1 => v \in 0 .. k
        OBVIOUS
      <4> QED
        BY <2>1, <3>1, <4>1 DEF WorthUpTo
    <3>2. CASE v > 2
      <4>1. v \div 2 \in 0 .. k /\ v \div 2 \in 0 .. k + 1 /\ v \div 2 # k + 1
        BY <3>2, Halves
      <4>2. u[v \div 2] = w[v \div 2] /\ w[v \div 2] \in Int
        BY <4>1
      <4>3. CASE v = k + 1
        BY <3>2, <4>2, <4>3
      <4>4. CASE v # k + 1
        <5>1. v \in 0 .. k
          BY <4>4
        <5>2. w[v] = 2 * w[v \div 2] + v
          BY <2>1, <3>2, <5>1 DEF WorthUpTo
        <5>3. u[v] = w[v] /\ w[v] \in Int
          BY <4>4, <5>1
        <5> HIDE DEF u
        <5> QED
          BY <3>2, <4>2, <5>2, <5>3
      <4> QED
        BY <4>3, <4>4
    <3> QED
      BY <3>1, <3>2
  <2>3. u = [v \in 0 .. k + 1 |-> u[v]]
    OBVIOUS
  <2> HIDE DEF u
  <2>4. u \in [0 .. k + 1 -> Int]
    BY <2>2, <2>3
  <2>5. WorthUpTo(u, k + 1)
    BY <2>2 DEF WorthUpTo
  <2> QED
    BY <2>4, <2>5
<1>3. Nat \subseteq S
  <2> HIDE DEF S
  <2> QED
    BY <1>1, <1>2, SetInduction
<1> QED
  BY <1>3

LEMMA WorthsAgree ==
    ASSUME NEW n \in Nat, NEW m \in Nat, NEW w, NEW u, WorthUpTo(w, n), WorthUpTo(u, m),
           NEW v \in Nat, v <= n, v <= m
    PROVE  w[v] = u[v]
<1> DEFINE S == {x \in Nat : x <= n /\ x <= m /\ w[x] # u[x]}
<1> SUFFICES ASSUME S # {} PROVE FALSE
  OBVIOUS
<1>1. PICK x \in S : \A y \in S : x <= y
  <2>1. S \in SUBSET Nat
    OBVIOUS
  <2> HIDE DEF S
  <2> QED
    BY <2>1, Least
<1>2. x \in 0 .. n /\ x \in 0 .. m /\ w[x] # u[x]
  OBVIOUS
<1>3. x > 2
  BY <1>2 DEF WorthUpTo
<1>4. x \div 2 \in Nat /\ x \div 2 < x
  BY <1>3, Halves
<1>5. w[x \div 2] = u[x \div 2]
  BY <1>1, <1>2, <1>4
<1> QED
  BY <1>2, <1>3, <1>5 DEF WorthUpTo

LEMMA WorthIs ==
    /\ Worth \in [Nat -> Int]
    /\ \A v \in Nat : Worth[v] = IF v <= 2 THEN 0 ELSE 2 * Worth[v \div 2] + v
<1> DEFINE step(w) == [v \in Nat |-> IF v <= 2 THEN 0 ELSE 2 * w[v \div 2] + v]
<1> DEFINE upto(n) == CHOOSE w : w \in [0 .. n -> Int] /\ WorthUpTo(w, n)
<1> DEFINE all == [v \in Nat |-> upto(v)[v]]
<1>1. ASSUME NEW n \in Nat PROVE upto(n) \in [0 .. n -> Int] /\ WorthUpTo(upto(n), n)
  <2>1. \E w : w \in [0 .. n -> Int] /\ WorthUpTo(w, n)
    BY WorthBegins
  <2> QED
    BY <2>1
<1> HIDE DEF upto
<1>2. ASSUME NEW v \in Nat
      PROVE  all[v] = (IF v <= 2 THEN 0 ELSE 2 * all[v \div 2] + v) /\ all[v] \in Int
  <2>1. upto(v) \in [0 .. v -> Int] /\ WorthUpTo(upto(v), v) /\ v \in 0 .. v
    BY <1>1
  <2>2. upto(v)[v] = IF v <= 2 THEN 0 ELSE 2 * upto(v)[v \div 2] + v
    BY <2>1 DEF WorthUpTo
  <2>3. ASSUME v > 2 PROVE upto(v)[v \div 2] = all[v \div 2]
    <3>1. v \div 2 \in Nat /\ v \div 2 <= v /\ v \div 2 <= v \div 2
      BY <2>3, Halves
    <3>2. WorthUpTo(upto(v \div 2), v \div 2)
      BY <1>1, <3>1
    <3>3. upto(v)[v \div 2] = upto(v \div 2)[v \div 2]
      <4> DEFINE h == v \div 2
      <4> HIDE DEF h
      <4> SUFFICES upto(v)[h] = upto(h)[h] BY DEF h
      <4> QED
        BY <2>1, <3>1, <3>2, WorthsAgree DEF h
    <3> QED
      BY <3>1, <3>3
  <2> QED
    BY <2>1, <2>2, <2>3
<1>3. all = step(all)
  BY <1>2
<1> HIDE DEF all
<1>4. \E w : w = step(w)
  BY <1>3
<1>5. Worth = step(Worth)
  BY <1>4 DEF Worth
<1>6. ASSUME NEW v \in Nat PROVE Worth[v] = IF v <= 2 THEN 0 ELSE 2 * Worth[v \div 2] + v
  <2>1. Worth[v] = step(Worth)[v]
    BY <1>5
  <2> QED
    BY <2>1
<1>7. ASSUME NEW v \in Nat PROVE Worth[v] \in Int
  <2>1. WorthUpTo(Worth, v)
    BY <1>6 DEF WorthUpTo
  <2>2. WorthUpTo(upto(v), v) /\ upto(v)[v] \in Int
    BY <1>1
  <2>3. Worth[v] = upto(v)[v]
    BY <2>1, <2>2, WorthsAgree
  <2> QED
    BY <2>2, <2>3
<1>8. Worth = [v \in Nat |-> Worth[v]]
  BY <1>5
<1> QED
  BY <1>6, <1>7, <1>8

LEMMA WorthValues ==
    /\ \A v \in Nat : Worth[v] \in Int
    /\ Worth[0] = 0 /\ Worth[2] = 0 /\ Worth[4] = 4
    /\ \A v \in Nat : v >= 2 => Worth[2 * v] = 2 * Worth[v] + 2 * v
<1>1. \A v \in Nat : Worth[v] \in Int
  BY WorthIs
<1>2. Worth[0] = 0 /\ Worth[2] = 0
  BY WorthIs
<1>3. Worth[4] = 2 * Worth[4 \div 2] + 4
  BY WorthIs
<1>4. 4 \div 2 = 2
  OBVIOUS
<1>5. ASSUME NEW v \in Nat, v >= 2 PROVE Worth[2 * v] = 2 * Worth[v] + 2 * v
  <2>1. 2 * v \in Nat /\ 2 * v > 2 /\ (2 * v) \div 2 = v
    BY <1>5, Halves
  <2>2. Worth[2 * v] = 2 * Worth[(2 * v) \div 2] + 2 * v
    BY <2>1, WorthIs
  <2> QED
    BY <2>1, <2>2
<1> QED
  BY <1>1, <1>2, <1>3, <1>4, <1>5

-------------------------------------------------------------------------------
\* A row that is being merged.
RowType(len) == [row : [1 .. len -> Nat], n : Nat, sc : Nat, fresh : BOOLEAN]

MergeIs(len, a, v, b) ==
    /\ b \in RowType(len)
    /\ v = 0 => b = a
    /\ v # 0 /\ a.fresh /\ a.row[a.n] = v =>
         b.row = [a.row EXCEPT ![a.n] = 2 * v] /\ b.n = a.n /\ b.sc = a.sc + 2 * v /\ b.fresh = FALSE
    /\ v # 0 /\ ~(a.fresh /\ a.row[a.n] = v) =>
         b.row = [a.row EXCEPT ![a.n + 1] = v] /\ b.n = a.n + 1 /\ b.sc = a.sc /\ b.fresh = TRUE
LEMMA MergesTo ==
    ASSUME NEW len \in Nat, NEW acc \in RowType(len), NEW v \in Nat
    PROVE  MergeIs(len, acc, v, Merge(acc, v))
<1>1. acc.row \in [1 .. len -> Nat] /\ acc.n \in Nat /\ acc.sc \in Nat /\ acc.fresh \in BOOLEAN
      /\ acc = [row |-> acc.row, n |-> acc.n, sc |-> acc.sc, fresh |-> acc.fresh]
  BY DEF RowType
<1>2. ASSUME NEW i \in Nat, NEW x \in Nat PROVE [acc.row EXCEPT ![i] = x] \in [1 .. len -> Nat]
  BY <1>1
<1>3. 2 * v \in Nat /\ acc.sc + 2 * v \in Nat /\ acc.n + 1 \in Nat
  BY <1>1
<1>7. \A row \in [1 .. len -> Nat], n \in Nat, sc \in Nat, fresh \in BOOLEAN :
          [row |-> row, n |-> n, sc |-> sc, fresh |-> fresh] \in RowType(len)
  BY DEF RowType
<1> DEFINE m == Merge(acc, v)
<1> USE DEF MergeIs
<1>4. CASE v = 0
  BY <1>4 DEF Merge
<1>5. CASE v # 0 /\ acc.fresh /\ acc.row[acc.n] = v
  <2>1. m = [row |-> [acc.row EXCEPT ![acc.n] = 2 * v], n |-> acc.n, sc |-> acc.sc + 2 * v, fresh |-> FALSE]
    BY <1>1, <1>5 DEF Merge
  <2>2. m.row = [acc.row EXCEPT ![acc.n] = 2 * v] /\ m.n = acc.n /\ m.sc = acc.sc + 2 * v /\ m.fresh = FALSE
    BY <2>1
  <2>3. [acc.row EXCEPT ![acc.n] = 2 * v] \in [1 .. len -> Nat] /\ acc.n \in Nat /\ acc.sc + 2 * v \in Nat /\ FALSE \in BOOLEAN
    BY <1>1, <1>2, <1>3
  <2>4. [row |-> [acc.row EXCEPT ![acc.n] = 2 * v], n |-> acc.n, sc |-> acc.sc + 2 * v, fresh |-> FALSE] \in RowType(len)
    BY <1>7, <2>3, Zenon
  <2>6. m \in RowType(len)
    BY <2>1, <2>4, Zenon
  <2> QED
    BY <1>5, <2>2, <2>6
<1>6. CASE v # 0 /\ ~(acc.fresh /\ acc.row[acc.n] = v)
  <2>1. m = [row |-> [acc.row EXCEPT ![acc.n + 1] = v], n |-> acc.n + 1, sc |-> acc.sc, fresh |-> TRUE]
    BY <1>1, <1>6 DEF Merge
  <2>2. m.row = [acc.row EXCEPT ![acc.n + 1] = v] /\ m.n = acc.n + 1 /\ m.sc = acc.sc /\ m.fresh = TRUE
    BY <2>1
  <2>3. [acc.row EXCEPT ![acc.n + 1] = v] \in [1 .. len -> Nat] /\ acc.n + 1 \in Nat /\ acc.sc \in Nat /\ TRUE \in BOOLEAN
    BY <1>1, <1>2, <1>3
  <2>4. [row |-> [acc.row EXCEPT ![acc.n + 1] = v], n |-> acc.n + 1, sc |-> acc.sc, fresh |-> TRUE] \in RowType(len)
    BY <1>7, <2>3, Zenon
  <2>6. m \in RowType(len)
    BY <2>1, <2>4, Zenon
  <2> QED
    BY <1>6, <2>2, <2>6
<1> QED
  BY <1>4, <1>5, <1>6

\* sl passes through rows that are being merged.
Merges(r, h) ==
    /\ h \in [0 .. Len(r) -> RowType(Len(r))]
    /\ h[0] = NoneSlid(Len(r))
    /\ \A i \in 1 .. Len(r) : h[i] = Merge(h[i - 1], r[i])

LEMMA SlMerges ==
    ASSUME NEW r \in Seq(Nat)
    PROVE  \E h : Merges(r, h) /\ sl(r) = h[Len(r)]
<1> DEFINE n == Len(r)
<1> DEFINE T == RowType(n)
<1> DEFINE step(h) == [i \in 0 .. n |-> IF i = 0 THEN NoneSlid(n) ELSE Merge(h[i - 1], r[i])]
<1> DEFINE F == [p \in Nat \X T |-> IF p[1] \in 1 .. n THEN Merge(p[2], r[p[1]]) ELSE p[2]]
<1>1. n \in Nat /\ \A i \in 1 .. n : r[i] \in Nat
  OBVIOUS
<1>2. NoneSlid(n) \in T
  BY DEF NoneSlid, RowType
<1>3. ASSUME NEW a \in T, NEW i \in 1 .. n PROVE Merge(a, r[i]) \in T
  <2>1. r[i] \in Nat
    BY <1>1
  <2> HIDE DEF n
  <2> QED
    BY <1>1, <2>1, MergesTo DEF MergeIs
<1> HIDE DEF n, T
<1>4. F \in [Nat \X T -> T]
  BY <1>3
<1>5. \E g : Recursive_(g, T, NoneSlid(n), F, n)
  <2> HIDE DEF F
  <2> QED
    BY <1>1, <1>2, <1>4, Recursion
<1>6. PICK g : Recursive_(g, T, NoneSlid(n), F, n)
  BY <1>5
<1>7. g \in [0 .. n -> T] /\ g[0] = NoneSlid(n)
  BY <1>6 DEF Recursive_
<1>8. ASSUME NEW i \in 1 .. n PROVE g[i] = Merge(g[i - 1], r[i])
  <2>1. g[i] = F[<<i, g[i - 1]>>]
    <3> HIDE DEF F
    <3> QED
      BY <1>6 DEF Recursive_
  <2>2. i \in Nat /\ i - 1 \in 0 .. n
    BY <1>1
  <2>3. g[i - 1] \in T
    BY <1>7, <2>2
  <2> QED
    BY <2>1, <2>2, <2>3
<1>9. g = step(g)
  <2>1. \A i \in 0 .. n : i # 0 => i \in 1 .. n
    BY <1>1
  <2> QED
    BY <1>7, <1>8, <2>1
<1>10. \E h : h = step(h) /\ sl(r) = h[n]
  BY <1>9 DEF sl, n
<1>11. PICK h : h = step(h) /\ sl(r) = h[n]
  BY <1>10
<1>12. ASSUME NEW i \in 0 .. n PROVE h[i] = IF i = 0 THEN NoneSlid(n) ELSE Merge(h[i - 1], r[i])
  <2>1. h[i] = step(h)[i]
    BY <1>11
  <2> QED
    BY <2>1
<1>13. \A i \in 1 .. n : i \in 0 .. n /\ i # 0
  BY <1>1
<1> DEFINE S == {i \in Nat : i \in 0 .. n => h[i] \in T}
<1>14. 0 \in S
  BY <1>2, <1>12
<1>15. ASSUME NEW i \in Nat, i \in S PROVE i + 1 \in S
  <2> SUFFICES ASSUME i + 1 \in 0 .. n PROVE h[i + 1] \in T
    OBVIOUS
  <2>1. h[i] \in T /\ i + 1 \in 1 .. n /\ (i + 1) - 1 = i /\ i + 1 # 0
    BY <1>1, <1>15
  <2>2. h[i + 1] = Merge(h[i], r[i + 1])
    BY <1>12, <2>1
  <2> QED
    BY <1>3, <2>1, <2>2
<1>16. Nat \subseteq S
  <2> HIDE DEF S
  <2> QED
    BY <1>14, <1>15, SetInduction
<1>17. \A i \in 0 .. n : h[i] \in T
  BY <1>1, <1>16
<1>18. h = [i \in 0 .. n |-> h[i]]
  BY <1>11
<1>19. h \in [0 .. n -> T]
  BY <1>17, <1>18
<1>20. Merges(r, h)
  <2>1. 0 \in 0 .. n
    BY <1>1
  <2>2. h[0] = NoneSlid(n)
    BY <1>12, <2>1
  <2>3. \A i \in 1 .. n : h[i] = Merge(h[i - 1], r[i])
    BY <1>12, <1>13
  <2> QED
    BY <1>19, <2>2, <2>3 DEF Merges, n, T
<1> QED
  BY <1>11, <1>20 DEF n

\* A property of the rows that holds at first and that each merge keeps holds of what sl
\* returns: P has the numbers of merges after which it holds.
LEMMA RowInduction ==
    ASSUME NEW n \in Nat, NEW P, 0 \in P, \A i \in 0 .. n - 1 : i \in P => i + 1 \in P
    PROVE  n \in P
<1> DEFINE S == {i \in Nat : i <= n => i \in P}
<1>1. 0 \in S
  OBVIOUS
<1>2. ASSUME NEW i \in Nat, i \in S PROVE i + 1 \in S
  <2> SUFFICES ASSUME i + 1 <= n PROVE i + 1 \in P
    OBVIOUS
  <2>1. i \in 0 .. n - 1 /\ i \in P
    BY <1>2
  <2> QED
    BY <2>1
<1>3. Nat \subseteq S
  <2> HIDE DEF S
  <2> QED
    BY <1>1, <1>2, SetInduction
<1> QED
  BY <1>3

Worths(r, n) == [j \in 1 .. n |-> Worth[r[j]]]

\* The row after i merges: tiles up to n and nothing behind them, worth what the tiles
\* merged so far are worth and the score.
SlideInv(r, len, i, a) ==
    /\ a \in RowType(len) /\ a.n <= i
    /\ \A j \in 1 .. len : (j <= a.n => a.row[j] >= 2) /\ (j > a.n => a.row[j] = 0)
    /\ a.fresh => a.n >= 1
    /\ SumTo(Worths(a.row, len), len) = SumTo(Worths(r, len), i) + a.sc
\* Where the tiles so far have no gaps, they are as many as before exactly when no two
\* neighbours are equal, and then they are the same.
Tight(r, i, a) ==
    \A m \in 0 .. i : (\A j \in 1 .. m : r[j] # 0) /\ (\A j \in m + 1 .. i : r[j] = 0) =>
        /\ a.n <= m
        /\ a.n = m <=> \A j \in 1 .. m - 1 : r[j] # r[j + 1]
        /\ a.n = m => (m >= 1 => a.fresh) /\ \A j \in 1 .. m : a.row[j] = r[j]

LEMMA SlideStep ==
    ASSUME NEW len \in Nat, NEW r \in [1 .. len -> Nat], \A j \in 1 .. len : r[j] = 0 \/ r[j] >= 2,
           NEW i \in 0 .. len - 1, NEW a, SlideInv(r, len, i, a)
    PROVE  SlideInv(r, len, i + 1, Merge(a, r[i + 1]))
<1> DEFINE v == r[i + 1]
<1> DEFINE b == Merge(a, v)
<1>1. i \in Nat /\ i + 1 \in 1 .. len /\ v \in Nat /\ (v = 0 \/ v >= 2)
  OBVIOUS
<1>2. /\ a \in RowType(len) /\ a.n <= i /\ a.n \in Nat /\ a.row \in [1 .. len -> Nat] /\ a.sc \in Nat
      /\ \A j \in 1 .. len : (j <= a.n => a.row[j] >= 2) /\ (j > a.n => a.row[j] = 0)
      /\ a.fresh => a.n >= 1
      /\ SumTo(Worths(a.row, len), len) = SumTo(Worths(r, len), i) + a.sc
  BY DEF SlideInv, RowType
<1> HIDE DEF v
<1>0. MergeIs(len, a, v, b)
  BY <1>1, <1>2, MergesTo
<1>3. /\ b \in RowType(len)
      /\ v = 0 => b = a
      /\ v # 0 /\ a.fresh /\ a.row[a.n] = v =>
           b.row = [a.row EXCEPT ![a.n] = 2 * v] /\ b.n = a.n /\ b.sc = a.sc + 2 * v /\ b.fresh = FALSE
      /\ v # 0 /\ ~(a.fresh /\ a.row[a.n] = v) =>
           b.row = [a.row EXCEPT ![a.n + 1] = v] /\ b.n = a.n + 1 /\ b.sc = a.sc /\ b.fresh = TRUE
  BY <1>0 DEF MergeIs
<1> HIDE DEF b
<1>4. SumTo(Worths(r, len), i) \in Int /\ SumTo(Worths(r, len), i + 1) = SumTo(Worths(r, len), i) + Worth[v]
  <2>1. \A j \in 1 .. i + 1 : j \in 1 .. len
    BY <1>1
  <2>2. \A j \in 1 .. i + 1 : Worths(r, len)[j] = Worth[r[j]]
    BY <2>1 DEF Worths
  <2>3. \A j \in 1 .. i + 1 : Worths(r, len)[j] \in Int
    BY <2>1, <2>2, WorthValues
  <2>4. i + 1 \in 1 .. i + 1
    BY <1>1
  <2>5. SumTo(Worths(r, len), i) \in Int
        /\ SumTo(Worths(r, len), i + 1) = SumTo(Worths(r, len), i) + Worths(r, len)[i + 1]
    BY <1>1, <2>3, SumNext
  <2> QED
    BY <2>2, <2>4, <2>5 DEF v
<1>5. Worth[v] \in Int /\ Worth[0] = 0
  BY <1>1, WorthValues
<1>6. ASSUME NEW k \in 1 .. len, NEW x \in Nat, b.row = [a.row EXCEPT ![k] = x]
      PROVE  SumTo(Worths(b.row, len), len) = SumTo(Worths(a.row, len), len) - Worth[a.row[k]] + Worth[x]
  <2>1. /\ Worths(b.row, len)[k] = Worth[x] /\ Worths(a.row, len)[k] = Worth[a.row[k]]
        /\ \A j \in 1 .. len : Worths(a.row, len)[j] = Worth[a.row[j]]
                               /\ (j # k => Worths(b.row, len)[j] = Worths(a.row, len)[j])
    BY <1>2, <1>6 DEF Worths
  <2>2. Worth[x] \in Int /\ \A j \in 1 .. len : Worth[a.row[j]] \in Int
    BY <1>2, WorthValues
  <2>4. /\ Worths(b.row, len)[k] \in Int
        /\ \A j \in 1 .. len : /\ Worths(a.row, len)[j] \in Int
                               /\ j # k => Worths(b.row, len)[j] = Worths(a.row, len)[j]
    BY <2>1, <2>2
  <2>3. SumTo(Worths(b.row, len), len)
            = SumTo(Worths(a.row, len), len) - Worths(a.row, len)[k] + Worths(b.row, len)[k]
    <3>1. Changed(Worths(a.row, len), Worths(b.row, len), len, k)
      BY <2>4 DEF Changed, Ints
    <3> QED
      BY <3>1, SumChange
  <2> QED
    BY <2>1, <2>3
<1>11. a.sc \in Nat /\ SumTo(Worths(a.row, len), len) = SumTo(Worths(r, len), i) + a.sc
  BY <1>2
<1>12. SumTo(Worths(r, len), i) \in Int /\ Worth[v] \in Int /\ v \in Int /\ a.sc \in Int /\ v \in Nat
  BY <1>1, <1>4, <1>5, <1>11
<1>7. SumTo(Worths(a.row, len), len) \in Int
  <2>1. Ints(Worths(a.row, len), len)
    BY <1>2, WorthValues DEF Worths, Ints
  <2> QED
    BY <2>1, SumType
<1>8. CASE v = 0
  <2>1. b = a
    BY <1>3, <1>8
  <2>2. SumTo(Worths(r, len), i + 1) = SumTo(Worths(r, len), i)
    BY <1>4, <1>5, <1>8
  <2>3. a.n <= i + 1
    BY <1>1, <1>2
  <2>4. SlideInv(r, len, i + 1, a)
    BY <1>2, <2>2, <2>3 DEF SlideInv
  <2> QED
    BY <2>1, <2>4 DEF b, v
<1>9. CASE v # 0 /\ a.fresh /\ a.row[a.n] = v
  <2>1. b.row = [a.row EXCEPT ![a.n] = 2 * v] /\ b.n = a.n /\ b.sc = a.sc + 2 * v /\ b.fresh = FALSE
    BY <1>3, <1>9
  <2>2. a.n \in 1 .. len /\ 2 * v \in Nat /\ v >= 2
    BY <1>1, <1>2, <1>9
  <2>3. SumTo(Worths(b.row, len), len) = SumTo(Worths(a.row, len), len) - Worth[v] + Worth[2 * v]
    BY <1>6, <1>9, <2>1, <2>2
  <2>4. Worth[2 * v] = 2 * Worth[v] + 2 * v
    BY <1>1, <2>2, WorthValues
  <2>5. SumTo(Worths(b.row, len), len) = SumTo(Worths(r, len), i + 1) + b.sc
    <3>1. SumTo(Worths(b.row, len), len)
              = (SumTo(Worths(r, len), i) + a.sc) - Worth[v] + (2 * Worth[v] + 2 * v)
      BY <1>11, <2>3, <2>4, Zenon
    <3>2. SumTo(Worths(r, len), i + 1) = SumTo(Worths(r, len), i) + Worth[v] /\ b.sc = a.sc + 2 * v
      BY <1>4, <2>1
    <3>3. (SumTo(Worths(r, len), i) + a.sc) - Worth[v] + (2 * Worth[v] + 2 * v)
              = (SumTo(Worths(r, len), i) + Worth[v]) + (a.sc + 2 * v)
      <4> DEFINE s == SumTo(Worths(r, len), i)
      <4> DEFINE w == Worth[v]
      <4> DEFINE c == a.sc
      <4>1. s \in Int /\ w \in Int /\ c \in Int /\ v \in Int
        BY <1>12
      <4> HIDE DEF s, w, c
      <4>2. (s + c) - w + (2 * w + 2 * v) = (s + w) + (c + 2 * v)
        BY <4>1
      <4> QED
        BY <4>2 DEF s, w, c
    <3> QED
      BY <3>1, <3>2, <3>3, Zenon
  <2>6. \A j \in 1 .. len : (j <= b.n => b.row[j] >= 2) /\ (j > b.n => b.row[j] = 0)
    <3> SUFFICES ASSUME NEW j \in 1 .. len PROVE (j <= b.n => b.row[j] >= 2) /\ (j > b.n => b.row[j] = 0)
      OBVIOUS
    <3>1. (j <= a.n => a.row[j] >= 2) /\ (j > a.n => a.row[j] = 0)
      BY <1>2
    <3>2. b.row[j] = IF j = a.n THEN 2 * v ELSE a.row[j]
      BY <1>2, <2>1
    <3>3. j \in Int /\ a.n \in Int /\ v \in Nat /\ 2 * v >= 2 /\ b.n = a.n
      BY <1>12, <1>2, <2>1, <2>2
    <3> QED
      BY <3>1, <3>2, <3>3
  <2>7. b.n <= i + 1
    BY <1>1, <1>2, <2>1
  <2>8. SlideInv(r, len, i + 1, b)
    BY <1>3, <2>1, <2>5, <2>6, <2>7 DEF SlideInv
  <2> QED
    BY <2>8 DEF b, v
<1>10. CASE v # 0 /\ ~(a.fresh /\ a.row[a.n] = v)
  <2>1. b.row = [a.row EXCEPT ![a.n + 1] = v] /\ b.n = a.n + 1 /\ b.sc = a.sc /\ b.fresh = TRUE
    BY <1>3, <1>10
  <2>2. a.n + 1 \in 1 .. len /\ v >= 2 /\ a.n + 1 > a.n
    BY <1>1, <1>2, <1>10
  <2>3. a.row[a.n + 1] = 0
    BY <1>2, <2>2
  <2>9. SumTo(Worths(b.row, len), len) = SumTo(Worths(a.row, len), len) - Worth[a.row[a.n + 1]] + Worth[v]
    <3>1. a.n + 1 \in 1 .. len /\ v \in Nat /\ b.row = [a.row EXCEPT ![a.n + 1] = v]
      BY <1>1, <2>1, <2>2
    <3> QED
      BY <1>6, <3>1
  <2>4. SumTo(Worths(b.row, len), len) = SumTo(Worths(a.row, len), len) - Worth[0] + Worth[v]
    BY <2>3, <2>9, Zenon
  <2>5. SumTo(Worths(b.row, len), len) = SumTo(Worths(r, len), i + 1) + b.sc
    <3>1. SumTo(Worths(b.row, len), len) = (SumTo(Worths(r, len), i) + a.sc) - 0 + Worth[v]
      BY <1>5, <1>11, <2>4, Zenon
    <3>2. SumTo(Worths(r, len), i + 1) = SumTo(Worths(r, len), i) + Worth[v] /\ b.sc = a.sc
      BY <1>4, <2>1
    <3>3. (SumTo(Worths(r, len), i) + a.sc) - 0 + Worth[v] = (SumTo(Worths(r, len), i) + Worth[v]) + a.sc
      <4> DEFINE s == SumTo(Worths(r, len), i)
      <4> DEFINE w == Worth[v]
      <4> DEFINE c == a.sc
      <4>1. s \in Int /\ w \in Int /\ c \in Int
        BY <1>12
      <4> HIDE DEF s, w, c
      <4>2. (s + c) - 0 + w = (s + w) + c
        BY <4>1
      <4> QED
        BY <4>2 DEF s, w, c
    <3> QED
      BY <3>1, <3>2, <3>3, Zenon
  <2>6. \A j \in 1 .. len : (j <= b.n => b.row[j] >= 2) /\ (j > b.n => b.row[j] = 0)
    <3> SUFFICES ASSUME NEW j \in 1 .. len PROVE (j <= b.n => b.row[j] >= 2) /\ (j > b.n => b.row[j] = 0)
      OBVIOUS
    <3>1. (j <= a.n => a.row[j] >= 2) /\ (j > a.n => a.row[j] = 0)
      BY <1>2
    <3>2. b.row[j] = IF j = a.n + 1 THEN v ELSE a.row[j]
      BY <1>2, <2>1
    <3>3. j \in Int /\ a.n \in Int /\ v >= 2 /\ b.n = a.n + 1
      BY <1>2, <2>1, <2>2
    <3> QED
      BY <3>1, <3>2, <3>3
  <2>7. b.n <= i + 1 /\ b.n >= 1
    BY <1>1, <1>2, <2>1
  <2>8. SlideInv(r, len, i + 1, b)
    BY <1>3, <2>1, <2>5, <2>6, <2>7 DEF SlideInv
  <2> QED
    BY <2>8 DEF b, v
<1> QED
  BY <1>8, <1>9, <1>10

LEMMA TightStep ==
    ASSUME NEW len \in Nat, NEW r \in [1 .. len -> Nat], \A j \in 1 .. len : r[j] = 0 \/ r[j] >= 2,
           NEW i \in 0 .. len - 1, NEW a, SlideInv(r, len, i, a), Tight(r, i, a)
    PROVE  Tight(r, i + 1, Merge(a, r[i + 1]))
<1> DEFINE v == r[i + 1]
<1> DEFINE b == Merge(a, v)
<1>1. i \in Nat /\ i + 1 \in 1 .. len /\ v \in Nat
  OBVIOUS
<1>2. /\ a \in RowType(len) /\ a.n <= i /\ a.n \in Nat /\ a.row \in [1 .. len -> Nat]
      /\ a.fresh => a.n >= 1
  BY DEF SlideInv, RowType
<1> SUFFICES ASSUME NEW m \in 0 .. i + 1, \A j \in 1 .. m : r[j] # 0, \A j \in m + 1 .. i + 1 : r[j] = 0
             PROVE  /\ b.n <= m
                    /\ b.n = m <=> \A j \in 1 .. m - 1 : r[j] # r[j + 1]
                    /\ b.n = m => (m >= 1 => b.fresh) /\ \A j \in 1 .. m : b.row[j] = r[j]
  BY DEF Tight
<1> HIDE DEF v
<1>0. MergeIs(len, a, v, b)
  BY <1>1, <1>2, MergesTo
<1>3. /\ v = 0 => b = a
      /\ v # 0 /\ a.fresh /\ a.row[a.n] = v => b.n = a.n
      /\ v # 0 /\ ~(a.fresh /\ a.row[a.n] = v) =>
           b.row = [a.row EXCEPT ![a.n + 1] = v] /\ b.n = a.n + 1 /\ b.fresh = TRUE
  BY <1>0 DEF MergeIs
<1> HIDE DEF b
<1>4. CASE v = 0
  <2>1. m # i + 1
    BY <1>1, <1>4 DEF v
  <2>2. m \in 0 .. i /\ \A j \in m + 1 .. i : r[j] = 0
    BY <1>1, <2>1
  <2>3. b = a
    BY <1>3, <1>4
  <2> QED
    BY <2>2, <2>3 DEF Tight
<1>5. ASSUME v # 0
      PROVE  /\ m = i + 1 /\ \A j \in 1 .. i : r[j] # 0
             /\ a.n = i <=> \A j \in 1 .. i - 1 : r[j] # r[j + 1]
             /\ a.n = i => (i >= 1 => a.fresh) /\ \A j \in 1 .. i : a.row[j] = r[j]
  <2>1. m = i + 1
    <3> SUFFICES ASSUME m <= i PROVE FALSE
      BY <1>1
    <3>1. i + 1 \in m + 1 .. i + 1
      BY <1>1
    <3> QED
      BY <1>5, <3>1 DEF v
  <2>2. \A j \in 1 .. i : j \in 1 .. m
    BY <1>1, <2>1
  <2>3. \A j \in 1 .. i : r[j] # 0
    BY <2>2
  <2>4. i \in 0 .. i /\ \A j \in i + 1 .. i : r[j] = 0
    BY <1>1
  <2> QED
    BY <2>1, <2>3, <2>4 DEF Tight
<1>6. CASE v # 0 /\ a.fresh /\ a.row[a.n] = v
  <2>4. m = i + 1
    BY <1>5, <1>6
  <2>5. b.n = a.n /\ a.fresh
    BY <1>3, <1>6
  <2>1. b.n = a.n /\ a.n >= 1 /\ b.n < m
    BY <1>1, <1>2, <2>4, <2>5
  <2>2. \E j \in 1 .. m - 1 : r[j] = r[j + 1]
    <3>1. CASE a.n = i
      <4>1. i \in 1 .. m - 1 /\ i \in 1 .. i
        BY <1>1, <1>5, <1>6, <2>1, <3>1
      <4>2. r[i] = r[i + 1]
        BY <1>5, <1>6, <3>1, <4>1 DEF v
      <4> QED
        BY <4>1, <4>2
    <3>2. CASE a.n # i
      <4>1. PICK j \in 1 .. i - 1 : r[j] = r[j + 1]
        BY <1>5, <1>6, <3>2
      <4>2. j \in 1 .. m - 1
        BY <1>1, <1>5, <1>6
      <4> QED
        BY <4>1, <4>2
    <3> QED
      BY <3>1, <3>2
  <2>3. b.n <= m /\ b.n # m
    BY <1>1, <1>2, <2>1
  <2> QED
    BY <2>2, <2>3
<1>7. CASE v # 0 /\ ~(a.fresh /\ a.row[a.n] = v)
  <2>1. b.row = [a.row EXCEPT ![a.n + 1] = v] /\ b.n = a.n + 1 /\ b.fresh = TRUE
    BY <1>3, <1>7
  <2>5. m = i + 1
    BY <1>5, <1>7
  <2>2. b.n <= m /\ (b.n = m <=> a.n = i)
    BY <1>1, <1>2, <2>1, <2>5
  <2>3. CASE a.n = i
    <3>1. \A j \in 1 .. i : a.row[j] = r[j]
      BY <1>5, <1>7, <2>3
    <3>2. ASSUME NEW j \in 1 .. m - 1 PROVE r[j] # r[j + 1]
      <4>1. CASE j = i
        <5>1. i >= 1 /\ i \in 1 .. i
          BY <1>1, <4>1
        <5>2. a.fresh /\ a.row[i] = r[i]
          BY <1>5, <1>7, <2>3, <5>1
        <5> QED
          BY <1>7, <2>3, <4>1, <5>2 DEF v
      <4>2. CASE j # i
        <5>1. j \in 1 .. i - 1
          BY <1>1, <1>5, <1>7, <4>2
        <5> QED
          BY <1>5, <1>7, <2>3, <5>1
      <4> QED
        BY <4>1, <4>2
    <3>3. ASSUME NEW j \in 1 .. m PROVE b.row[j] = r[j]
      <4>1. i + 1 \in 1 .. len /\ m = i + 1
        BY <1>1, <1>5, <1>7
      <4>2. CASE j = i + 1
        BY <1>2, <2>1, <2>3, <4>1, <4>2 DEF v
      <4>3. CASE j # i + 1
        <5>1. j \in 1 .. i /\ j \in 1 .. len
          BY <1>1, <4>1, <4>3
        <5> QED
          BY <1>2, <2>1, <2>3, <3>1, <4>3, <5>1
      <4> QED
        BY <4>2, <4>3
    <3> QED
      BY <2>1, <2>2, <2>3, <3>2, <3>3
  <2>4. CASE a.n # i
    <3>1. PICK j \in 1 .. i - 1 : r[j] = r[j + 1]
      BY <1>5, <1>7, <2>4
    <3>2. j \in 1 .. m - 1
      BY <1>1, <1>5, <1>7
    <3> QED
      BY <2>2, <2>4, <3>1, <3>2
  <2> QED
    BY <2>3, <2>4
<1> QED
  BY <1>4, <1>6, <1>7

LEMMA SlidRow ==
    ASSUME NEW len \in Nat, NEW r \in [1 .. len -> Nat], \A j \in 1 .. len : r[j] = 0 \/ r[j] >= 2
    PROVE  SlideInv(r, len, len, sl(r)) /\ Tight(r, len, sl(r))
<1>1. r \in Seq(Nat) /\ Len(r) = len
  OBVIOUS
<1>2. PICK h : Merges(r, h) /\ sl(r) = h[len]
  BY <1>1, SlMerges
<1> DEFINE P == {i \in 0 .. len : SlideInv(r, len, i, h[i]) /\ Tight(r, i, h[i])}
<1>3. 0 \in P
  <2>1. h[0] = NoneSlid(len)
    BY <1>1, <1>2 DEF Merges
  <2> DEFINE a == NoneSlid(len)
  <2>2. a.row = [j \in 1 .. len |-> 0] /\ a.n = 0 /\ a.sc = 0 /\ a.fresh = FALSE /\ a \in RowType(len)
    BY DEF NoneSlid, RowType
  <2> HIDE DEF a
  <2>3. \A j \in 1 .. len : Worths(a.row, len)[j] = 0
    BY <2>2, WorthValues DEF Worths
  <2>4. SumTo(Worths(a.row, len), len) = 0 /\ SumTo(Worths(r, len), 0) = 0
    BY <2>3, SumNothing, SumZero
  <2>5. SlideInv(r, len, 0, a)
    BY <2>2, <2>4 DEF SlideInv
  <2>6. Tight(r, 0, a)
    BY <2>2 DEF Tight
  <2> QED
    BY <2>1, <2>5, <2>6 DEF a
<1>4. ASSUME NEW i \in 0 .. len - 1, i \in P PROVE i + 1 \in P
  <2>1. SlideInv(r, len, i, h[i]) /\ Tight(r, i, h[i])
    BY <1>4
  <2>2. i + 1 \in 1 .. len /\ (i + 1) - 1 = i /\ i + 1 \in 0 .. len
    OBVIOUS
  <2>3. h[i + 1] = Merge(h[i], r[i + 1])
    BY <1>1, <1>2, <2>2 DEF Merges
  <2>4. SlideInv(r, len, i + 1, Merge(h[i], r[i + 1]))
    BY <2>1, SlideStep
  <2>5. Tight(r, i + 1, Merge(h[i], r[i + 1]))
    BY <2>1, TightStep
  <2> QED
    BY <2>2, <2>3, <2>4, <2>5
<1>5. len \in P
  <2> HIDE DEF P
  <2> QED
    BY <1>3, <1>4, RowInduction
<1> QED
  BY <1>2, <1>5

\* What merging a row leaves unchanged.
LEMMA RowStays ==
    ASSUME NEW len \in Nat, NEW r \in [1 .. len -> Nat], \A j \in 1 .. len : r[j] = 0 \/ r[j] >= 2
    PROVE  /\ (\A j \in 1 .. len : r[j] # 0) /\ (\A j \in 1 .. len - 1 : r[j] # r[j + 1]) => sl(r).row = r
           /\ sl(r).row = r =>
                /\ \A j, k \in 1 .. len : j < k /\ r[k] # 0 => r[j] # 0
                /\ \A j \in 1 .. len - 1 : r[j] # 0 => r[j] # r[j + 1]
<1> DEFINE a == sl(r)
<1>1. SlideInv(r, len, len, a) /\ Tight(r, len, a)
  BY SlidRow
<1> HIDE DEF a
<1>2. /\ a.n \in Nat /\ a.n <= len /\ a.row \in [1 .. len -> Nat]
      /\ \A j \in 1 .. len : (j <= a.n => a.row[j] >= 2) /\ (j > a.n => a.row[j] = 0)
  BY <1>1 DEF SlideInv, RowType
<1>3. ASSUME \A j \in 1 .. len : r[j] # 0, \A j \in 1 .. len - 1 : r[j] # r[j + 1]
      PROVE  a.row = r
  <2>1. len \in 0 .. len /\ \A j \in len + 1 .. len : r[j] = 0
    OBVIOUS
  <2>2. \A j \in 1 .. len : a.row[j] = r[j]
    BY <1>1, <1>3, <2>1 DEF Tight
  <2> QED
    BY <1>2, <2>2
<1>4. ASSUME a.row = r
      PROVE  /\ \A j, k \in 1 .. len : j < k /\ r[k] # 0 => r[j] # 0
             /\ \A j \in 1 .. len - 1 : r[j] # 0 => r[j] # r[j + 1]
  <2>1. /\ \A j \in 1 .. len : (j <= a.n => r[j] >= 2) /\ (j > a.n => r[j] = 0)
    BY <1>2, <1>4
  <2>2. a.n \in 0 .. len /\ (\A j \in 1 .. a.n : r[j] # 0) /\ (\A j \in a.n + 1 .. len : r[j] = 0)
    BY <1>2, <2>1
  <2>3. \A j \in 1 .. a.n - 1 : r[j] # r[j + 1]
    BY <1>1, <2>2 DEF Tight
  <2>4. \A j, k \in 1 .. len : j < k /\ r[k] # 0 => r[j] # 0
    <3> SUFFICES ASSUME NEW j \in 1 .. len, NEW k \in 1 .. len, j < k, r[k] # 0 PROVE r[j] # 0
      OBVIOUS
    <3>1. k <= a.n
      BY <1>2, <2>1
    <3>2. j \in 1 .. a.n
      BY <1>2, <3>1
    <3> QED
      BY <2>2, <3>2
  <2>5. ASSUME NEW j \in 1 .. len - 1, r[j] # 0 PROVE r[j] # r[j + 1]
    <3>1. j <= a.n /\ j + 1 \in 1 .. len
      BY <1>2, <2>1, <2>5
    <3>2. CASE j = a.n
      BY <2>1, <2>5, <3>1, <3>2
    <3>3. CASE j # a.n
      <4>1. j \in 1 .. a.n - 1
        BY <1>2, <3>1, <3>3
      <4> QED
        BY <2>3, <4>1
    <3> QED
      BY <3>2, <3>3
  <2> QED
    BY <2>4, <2>5
<1> QED
  BY <1>3, <1>4 DEF a

IsGrid(g) ==
    /\ g \in [1 .. Dim -> [1 .. Dim -> Nat]]
    /\ \A y, x \in 1 .. Dim : g[y][x] = 0 \/ g[y][x] >= 2

LEMMA LineAt ==
    ASSUME NEW g, NEW i \in 1 .. Dim, NEW j \in 1 .. Dim
    PROVE  /\ Line(g, "up", i)[j] = g[j][i] /\ Line(g, "down", i)[j] = g[Dim + 1 - j][i]
           /\ Line(g, "left", i)[j] = g[i][j] /\ Line(g, "right", i)[j] = g[i][Dim + 1 - j]
<1>1. /\ PlaceOf("up", i, j) = <<j, i>> /\ PlaceOf("down", i, j) = <<Dim + 1 - j, i>>
      /\ PlaceOf("left", i, j) = <<i, j>> /\ PlaceOf("right", i, j) = <<i, Dim + 1 - j>>
  BY DEF PlaceOf
<1> QED
  BY <1>1 DEF Line

LinesAt(g, i, j) ==
    /\ Line(g, "up", i)[j] = g[j][i] /\ Line(g, "down", i)[j] = g[Dim + 1 - j][i]
    /\ Line(g, "left", i)[j] = g[i][j] /\ Line(g, "right", i)[j] = g[i][Dim + 1 - j]
LEMMA LinesAre == ASSUME NEW g, NEW i \in 1 .. Dim, NEW j \in 1 .. Dim PROVE LinesAt(g, i, j)
BY LineAt DEF LinesAt

LEMMA LineType ==
    ASSUME NEW g, IsGrid(g), NEW d \in Directions, NEW i \in 1 .. Dim
    PROVE  Line(g, d, i) \in [1 .. Dim -> Nat] /\ \A j \in 1 .. Dim : Line(g, d, i)[j] = 0 \/ Line(g, d, i)[j] >= 2
<1>1. \A j \in 1 .. Dim : Dim + 1 - j \in 1 .. Dim
  OBVIOUS
<1>2. ASSUME NEW j \in 1 .. Dim
      PROVE  Line(g, d, i)[j] \in Nat /\ (Line(g, d, i)[j] = 0 \/ Line(g, d, i)[j] >= 2)
  <2>1. \A y, x \in 1 .. Dim : g[y][x] \in Nat /\ (g[y][x] = 0 \/ g[y][x] >= 2)
    BY DEF IsGrid
  <2>2. /\ Line(g, "up", i)[j] = g[j][i] /\ Line(g, "down", i)[j] = g[Dim + 1 - j][i]
            /\ Line(g, "left", i)[j] = g[i][j] /\ Line(g, "right", i)[j] = g[i][Dim + 1 - j]
    <3>1. LinesAt(g, i, j)
      BY LinesAre
    <3> QED
      BY <3>1 DEF LinesAt
  <2>3. Dim + 1 - j \in 1 .. Dim
    BY <1>1
  <2>4. d = "up" \/ d = "down" \/ d = "left" \/ d = "right"
    BY DEF Directions
  <2> QED
    BY <2>1, <2>2, <2>3, <2>4
<1>3. Line(g, d, i) = [j \in 1 .. Dim |-> Line(g, d, i)[j]]
  BY DEF Line
<1> QED
  BY <1>2, <1>3

\* Grids with the same lines in a direction are the same.
LEMMA GridOfLines ==
    ASSUME NEW g, IsGrid(g), NEW h, IsGrid(h), NEW d \in Directions,
           \A i \in 1 .. Dim : Line(g, d, i) = Line(h, d, i)
    PROVE  g = h
<1>1. ASSUME NEW y \in 1 .. Dim, NEW x \in 1 .. Dim PROVE g[y][x] = h[y][x]
  <2>1. Dim + 1 - y \in 1 .. Dim /\ Dim + 1 - (Dim + 1 - y) = y
        /\ Dim + 1 - x \in 1 .. Dim /\ Dim + 1 - (Dim + 1 - x) = x
    OBVIOUS
  <2>2. CASE d = "up"
    <3>1. Line(g, "up", x)[y] = g[y][x] /\ Line(h, "up", x)[y] = h[y][x]
      <4>1. LinesAt(g, x, y) /\ LinesAt(h, x, y)
        BY LinesAre
      <4> QED
        BY <4>1 DEF LinesAt
    <3> QED
      BY <2>2, <3>1
  <2>3. CASE d = "down"
    <3> DEFINE k == Dim + 1 - y
    <3>1. Line(g, "down", x)[k] = g[Dim + 1 - k][x] /\ Line(h, "down", x)[k] = h[Dim + 1 - k][x]
      <4>1. k \in 1 .. Dim
        BY <2>1
      <4> HIDE DEF k
      <4> QED
        BY <4>1, LineAt
    <3> QED
      BY <2>1, <2>3, <3>1
  <2>4. CASE d = "left"
    <3>1. Line(g, "left", y)[x] = g[y][x] /\ Line(h, "left", y)[x] = h[y][x]
      <4>1. LinesAt(g, y, x) /\ LinesAt(h, y, x)
        BY LinesAre
      <4> QED
        BY <4>1 DEF LinesAt
    <3> QED
      BY <2>4, <3>1
  <2>5. CASE d = "right"
    <3> DEFINE k == Dim + 1 - x
    <3>1. Line(g, "right", y)[k] = g[y][Dim + 1 - k] /\ Line(h, "right", y)[k] = h[y][Dim + 1 - k]
      <4>1. k \in 1 .. Dim
        BY <2>1
      <4> HIDE DEF k
      <4> QED
        BY <4>1, LineAt
    <3> QED
      BY <2>1, <2>5, <3>1
  <2> QED
    BY <2>2, <2>3, <2>4, <2>5 DEF Directions
<1>2. g \in [1 .. Dim -> [1 .. Dim -> Nat]] /\ h \in [1 .. Dim -> [1 .. Dim -> Nat]]
  BY DEF IsGrid
<1>3. ASSUME NEW y \in 1 .. Dim PROVE g[y] = h[y]
  <2>1. g[y] \in [1 .. Dim -> Nat] /\ h[y] \in [1 .. Dim -> Nat]
    BY <1>2
  <2> QED
    BY <1>1, <2>1
<1> QED
  BY <1>2, <1>3

LEMMA SlidAt ==
    ASSUME NEW g, NEW y \in 1 .. Dim, NEW x \in 1 .. Dim
    PROVE  /\ Slid(g, "up")[y][x] = sl(Line(g, "up", x)).row[y]
           /\ Slid(g, "down")[y][x] = sl(Line(g, "down", x)).row[Dim + 1 - y]
           /\ Slid(g, "left")[y][x] = sl(Line(g, "left", y)).row[x]
           /\ Slid(g, "right")[y][x] = sl(Line(g, "right", y)).row[Dim + 1 - x]
BY DEF Slid

\* Sliding a grid merges each of its lines.
LEMMA SlidLine ==
    ASSUME NEW g, IsGrid(g), NEW d \in Directions, NEW i \in 1 .. Dim
    PROVE  /\ SlideInv(Line(g, d, i), Dim, Dim, sl(Line(g, d, i)))
           /\ sl(Line(g, d, i)).row \in [1 .. Dim -> Nat]
           /\ \A j \in 1 .. Dim : sl(Line(g, d, i)).row[j] = 0 \/ sl(Line(g, d, i)).row[j] >= 2
           /\ sl(Line(g, d, i)).sc \in Nat
           /\ Line(Slid(g, d), d, i) = sl(Line(g, d, i)).row
<1> DEFINE r == Line(g, d, i)
<1> DEFINE a == sl(r)
<1>1. r \in [1 .. Dim -> Nat] /\ \A j \in 1 .. Dim : r[j] = 0 \/ r[j] >= 2
  BY LineType
<1>2. SlideInv(r, Dim, Dim, a)
  <2> HIDE DEF r
  <2> QED
    BY <1>1, SlidRow
<1> HIDE DEF r, a
<1>3. /\ a.row \in [1 .. Dim -> Nat] /\ a.sc \in Nat /\ a.n \in Nat
      /\ \A j \in 1 .. Dim : a.row[j] = 0 \/ a.row[j] >= 2
  BY <1>2 DEF SlideInv, RowType
<1>4. ASSUME NEW j \in 1 .. Dim PROVE Line(Slid(g, d), d, i)[j] = a.row[j]
  <2> DEFINE k == Dim + 1 - j
  <2>1. k \in 1 .. Dim /\ Dim + 1 - k = j
    OBVIOUS
  <2> HIDE DEF k
  <2>2. CASE d = "up"
    <3> DEFINE s == Slid(g, "up")
    <3>2. /\ Line(s, "up", i)[j] = s[j][i] /\ Line(s, "down", i)[j] = s[Dim + 1 - j][i]
            /\ Line(s, "left", i)[j] = s[i][j] /\ Line(s, "right", i)[j] = s[i][Dim + 1 - j]
      <4> HIDE DEF s
      <4> QED
        <5>1. LinesAt(s, i, j)
          BY LinesAre
        <5> QED
          BY <5>1 DEF LinesAt
    <3>1. Line(Slid(g, "up"), "up", i)[j] = Slid(g, "up")[j][i]
      BY <3>2
    <3> QED
      BY <2>2, <3>1, SlidAt DEF a, r
  <2>3. CASE d = "down"
    <3>1. Line(Slid(g, "down"), "down", i)[j] = Slid(g, "down")[k][i]
      BY LineAt DEF k
    <3>2. Slid(g, "down")[k][i] = sl(Line(g, "down", i)).row[Dim + 1 - k]
      BY <2>1, SlidAt
    <3> QED
      BY <2>1, <2>3, <3>1, <3>2 DEF a, r
  <2>4. CASE d = "left"
    <3>1. Line(Slid(g, "left"), "left", i)[j] = Slid(g, "left")[i][j]
      <4>1. LinesAt(Slid(g, "left"), i, j)
        BY LinesAre
      <4> QED
        BY <4>1 DEF LinesAt
    <3> QED
      BY <2>4, <3>1, SlidAt DEF a, r
  <2>5. CASE d = "right"
    <3>1. Line(Slid(g, "right"), "right", i)[j] = Slid(g, "right")[i][k]
      BY LineAt DEF k
    <3>2. Slid(g, "right")[i][k] = sl(Line(g, "right", i)).row[Dim + 1 - k]
      BY <2>1, SlidAt
    <3> QED
      BY <2>1, <2>5, <3>1, <3>2 DEF a, r
  <2> QED
    BY <2>2, <2>3, <2>4, <2>5 DEF Directions
<1>5. Line(Slid(g, d), d, i) = [j \in 1 .. Dim |-> Line(Slid(g, d), d, i)[j]]
  BY DEF Line
<1>6. Line(Slid(g, d), d, i) = a.row
  BY <1>3, <1>4, <1>5
<1> QED
  BY <1>2, <1>3, <1>6 DEF a, r

LEMMA SlidGrid ==
    ASSUME NEW g, IsGrid(g), NEW d \in Directions
    PROVE  IsGrid(Slid(g, d))
<1>1. ASSUME NEW y \in 1 .. Dim, NEW x \in 1 .. Dim
      PROVE  Slid(g, d)[y][x] \in Nat /\ (Slid(g, d)[y][x] = 0 \/ Slid(g, d)[y][x] >= 2)
  <2>1. Dim + 1 - y \in 1 .. Dim /\ Dim + 1 - x \in 1 .. Dim
    OBVIOUS
  <2>2. ASSUME NEW i \in 1 .. Dim, NEW j \in 1 .. Dim
        PROVE  /\ sl(Line(g, d, i)).row[j] \in Nat
               /\ sl(Line(g, d, i)).row[j] = 0 \/ sl(Line(g, d, i)).row[j] >= 2
    BY SlidLine
  <2>3. /\ Slid(g, "up")[y][x] = sl(Line(g, "up", x)).row[y]
        /\ Slid(g, "down")[y][x] = sl(Line(g, "down", x)).row[Dim + 1 - y]
        /\ Slid(g, "left")[y][x] = sl(Line(g, "left", y)).row[x]
        /\ Slid(g, "right")[y][x] = sl(Line(g, "right", y)).row[Dim + 1 - x]
    BY SlidAt
  <2>4. d = "up" \/ d = "down" \/ d = "left" \/ d = "right"
    BY DEF Directions
  <2> QED
    BY <2>1, <2>2, <2>3, <2>4
<1> DEFINE s == Slid(g, d)
<1>2. s = [y \in 1 .. Dim |-> s[y]]
  BY DEF Slid
<1>4. ASSUME NEW y \in 1 .. Dim PROVE s[y] \in [1 .. Dim -> Nat]
  <2> DEFINE e(x) ==
        CASE d = "up" -> sl(Line(g, d, x)).row[y] [] d = "down" -> sl(Line(g, d, x)).row[Dim + 1 - y]
          [] d = "left" -> sl(Line(g, d, y)).row[x] [] d = "right" -> sl(Line(g, d, y)).row[Dim + 1 - x]
  <2>1. s[y] = [x \in 1 .. Dim |-> e(x)]
    BY Zenon DEF Slid
  <2> HIDE DEF e, s
  <2>2. ASSUME NEW x \in 1 .. Dim PROVE e(x) \in Nat
    <3>1. s[y][x] = e(x)
      BY <2>1
    <3>2. s[y][x] \in Nat
      BY <1>1 DEF s
    <3> QED
      BY <3>1, <3>2
  <2> QED
    BY <2>1, <2>2
<1> HIDE DEF s
<1>5. s \in [1 .. Dim -> [1 .. Dim -> Nat]]
  BY <1>2, <1>4
<1> QED
  BY <1>1, <1>5 DEF IsGrid, s

\* A direction leaves the grid if merging leaves each of its lines.
LEMMA Unmoved ==
    ASSUME NEW g, IsGrid(g), NEW d \in Directions
    PROVE  Slid(g, d) = g <=> \A i \in 1 .. Dim : sl(Line(g, d, i)).row = Line(g, d, i)
<1>1. ASSUME Slid(g, d) = g, NEW i \in 1 .. Dim PROVE sl(Line(g, d, i)).row = Line(g, d, i)
  BY <1>1, SlidLine
<1>2. ASSUME \A i \in 1 .. Dim : sl(Line(g, d, i)).row = Line(g, d, i) PROVE Slid(g, d) = g
  <2>1. \A i \in 1 .. Dim : Line(Slid(g, d), d, i) = Line(g, d, i)
    BY <1>2, SlidLine
  <2> QED
    BY <2>1, SlidGrid, GridOfLines
<1> QED
  BY <1>1, <1>2

\* can() agrees with mv(), where there is a tile.
LEMMA CanMove ==
    ASSUME NEW g, IsGrid(g), NEW ty \in 1 .. Dim, NEW tx \in 1 .. Dim, g[ty][tx] # 0
    PROVE  ~can(g) <=> \A d \in Directions : Slid(g, d) = g
<1>1. \A y, x \in 1 .. Dim : g[y][x] \in Nat
  BY DEF IsGrid
<1>2. ASSUME ~can(g), NEW d \in Directions PROVE Slid(g, d) = g
  <2>1. \A y, x \in 1 .. Dim : g[y][x] # 0
    <3>1. Free(g) = {}
      BY <1>2 DEF can
    <3>2. \A p \in Places : g[p[1]][p[2]] # 0
      BY <3>1 DEF Free
    <3> SUFFICES ASSUME NEW y \in 1 .. Dim, NEW x \in 1 .. Dim PROVE g[y][x] # 0
      OBVIOUS
    <3>3. <<y, x>> \in Places
      BY DEF Places
    <3> QED
      BY <3>2, <3>3
  <2>2. \A p \in Places : /\ p[2] < Dim => g[p[1]][p[2]] # g[p[1]][p[2] + 1]
                          /\ p[1] < Dim => g[p[1]][p[2]] # g[p[1] + 1][p[2]]
    BY <1>2 DEF can
  <2>3. ASSUME NEW y \in 1 .. Dim, NEW x \in 1 .. Dim
        PROVE  (x < Dim => g[y][x] # g[y][x + 1]) /\ (y < Dim => g[y][x] # g[y + 1][x])
    <3>1. <<y, x>> \in Places
      BY DEF Places
    <3> QED
      BY <2>2, <3>1
  <2>4. ASSUME NEW i \in 1 .. Dim PROVE sl(Line(g, d, i)).row = Line(g, d, i)
    <3> DEFINE r == Line(g, d, i)
    <3>1. ASSUME NEW j \in 1 .. Dim PROVE r[j] # 0
      <4>1. Dim + 1 - j \in 1 .. Dim
        OBVIOUS
      <4>2. /\ Line(g, "up", i)[j] = g[j][i] /\ Line(g, "down", i)[j] = g[Dim + 1 - j][i]
            /\ Line(g, "left", i)[j] = g[i][j] /\ Line(g, "right", i)[j] = g[i][Dim + 1 - j]
        <5>1. LinesAt(g, i, j)
          BY LinesAre
        <5> QED
          BY <5>1 DEF LinesAt
      <4>3. d = "up" \/ d = "down" \/ d = "left" \/ d = "right"
        BY DEF Directions
      <4>4. g[j][i] # 0 /\ g[i][j] # 0 /\ g[Dim + 1 - j][i] # 0 /\ g[i][Dim + 1 - j] # 0
        BY <2>1, <4>1
      <4> QED
        BY <4>2, <4>3, <4>4
    <3>2. ASSUME NEW j \in 1 .. Dim - 1 PROVE r[j] # r[j + 1]
      <4>1. j \in 1 .. Dim /\ j + 1 \in 1 .. Dim /\ j < Dim
        OBVIOUS
      <4> DEFINE k == Dim + 1 - (j + 1)
      <4>2. k \in 1 .. Dim /\ k < Dim /\ Dim + 1 - j = k + 1
        OBVIOUS
      <4>8. LinesAt(g, i, j) /\ LinesAt(g, i, j + 1)
        BY <4>1, LinesAre
      <4>3. CASE d = "up"
        <5>1. r[j] = g[j][i] /\ r[j + 1] = g[j + 1][i]
          BY <4>1, <4>3, <4>8 DEF LinesAt
        <5> QED
          BY <2>3, <4>1, <5>1
      <4>4. CASE d = "left"
        <5>1. r[j] = g[i][j] /\ r[j + 1] = g[i][j + 1]
          BY <4>4, <4>8 DEF LinesAt
        <5> QED
          BY <2>3, <4>1, <5>1
      <4>5. CASE d = "down"
        <5>1. r[j] = g[Dim + 1 - j][i] /\ r[j + 1] = g[k][i]
          BY <4>5, <4>8 DEF LinesAt
        <5>2. g[k][i] # g[k + 1][i]
          <6> HIDE DEF k
          <6> QED
            BY <2>3, <4>2
        <5> HIDE DEF k, r
        <5> QED
          BY <4>2, <5>1, <5>2
      <4>6. CASE d = "right"
        <5>1. r[j] = g[i][Dim + 1 - j] /\ r[j + 1] = g[i][k]
          BY <4>6, <4>8 DEF LinesAt
        <5>2. g[i][k] # g[i][k + 1]
          <6> HIDE DEF k
          <6> QED
            BY <2>3, <4>2
        <5> HIDE DEF k, r
        <5> QED
          BY <4>2, <5>1, <5>2
      <4> QED
        BY <4>3, <4>4, <4>5, <4>6 DEF Directions
    <3>3. r \in [1 .. Dim -> Nat] /\ \A j \in 1 .. Dim : r[j] = 0 \/ r[j] >= 2
      BY LineType
    <3> HIDE DEF r
    <3>4. sl(r).row = r
      BY <3>1, <3>2, <3>3, RowStays
    <3> QED
      BY <3>4 DEF r
  <2> QED
    BY <2>4, Unmoved
<1>3. ASSUME \A d \in Directions : Slid(g, d) = g PROVE ~can(g)
  <2>1. ASSUME NEW d \in Directions, NEW i \in 1 .. Dim
        PROVE  /\ \A j, k \in 1 .. Dim : j < k /\ Line(g, d, i)[k] # 0 => Line(g, d, i)[j] # 0
               /\ \A j \in 1 .. Dim - 1 : Line(g, d, i)[j] # 0 => Line(g, d, i)[j] # Line(g, d, i)[j + 1]
    <3>1. sl(Line(g, d, i)).row = Line(g, d, i)
      BY <1>3, Unmoved
    <3> DEFINE r == Line(g, d, i)
    <3>2. r \in [1 .. Dim -> Nat] /\ \A j \in 1 .. Dim : r[j] = 0 \/ r[j] >= 2
      BY LineType
    <3>3. sl(r).row = r
      BY <3>1
    <3> HIDE DEF r
    <3>4. /\ \A j, k \in 1 .. Dim : j < k /\ r[k] # 0 => r[j] # 0
          /\ \A j \in 1 .. Dim - 1 : r[j] # 0 => r[j] # r[j + 1]
      BY <3>2, <3>3, RowStays
    <3> QED
      BY <3>4 DEF r
  \* A row or a column with a tile has no free cell.
  <2>2. ASSUME NEW i \in 1 .. Dim, NEW j \in 1 .. Dim, NEW k \in 1 .. Dim
        PROVE  (g[i][k] # 0 => g[i][j] # 0) /\ (g[k][i] # 0 => g[j][i] # 0)
    <3>1. CASE j = k
      BY <3>1
    <3>2. CASE j < k
      <4>1. /\ Line(g, "up", i)[j] = g[j][i] /\ Line(g, "down", i)[j] = g[Dim + 1 - j][i]
            /\ Line(g, "left", i)[j] = g[i][j] /\ Line(g, "right", i)[j] = g[i][Dim + 1 - j]
        <5>1. LinesAt(g, i, j)
          BY LinesAre
        <5> QED
          BY <5>1 DEF LinesAt
      <4>3. /\ Line(g, "up", i)[k] = g[k][i] /\ Line(g, "down", i)[k] = g[Dim + 1 - k][i]
            /\ Line(g, "left", i)[k] = g[i][k] /\ Line(g, "right", i)[k] = g[i][Dim + 1 - k]
        <5>1. LinesAt(g, i, k)
          BY LinesAre
        <5> QED
          BY <5>1 DEF LinesAt
      <4>2. "left" \in Directions /\ "up" \in Directions
        BY DEF Directions
      <4> QED
        BY <2>1, <3>2, <4>1, <4>2, <4>3
    <3>3. CASE k < j
      <4> DEFINE a == Dim + 1 - j
      <4> DEFINE b == Dim + 1 - k
      <4>1. a \in 1 .. Dim /\ b \in 1 .. Dim /\ a < b /\ Dim + 1 - a = j /\ Dim + 1 - b = k
        BY <3>3
      <4> HIDE DEF a, b
      <4>2. LinesAt(g, i, a) /\ LinesAt(g, i, b)
        BY <4>1, LinesAre
      <4>5. /\ Line(g, "right", i)[a] = g[i][j] /\ Line(g, "right", i)[b] = g[i][k]
            /\ Line(g, "down", i)[a] = g[j][i] /\ Line(g, "down", i)[b] = g[k][i]
        BY <4>1, <4>2 DEF LinesAt
      <4>3. "right" \in Directions /\ "down" \in Directions
        BY DEF Directions
      <4> QED
        BY <2>1, <4>1, <4>3, <4>5
    <3> QED
      BY <3>1, <3>2, <3>3
  <2>3. ASSUME NEW y \in 1 .. Dim, NEW x \in 1 .. Dim PROVE g[y][x] # 0
    BY <2>2
  <2>4. ASSUME NEW y \in 1 .. Dim, NEW x \in 1 .. Dim
        PROVE  (x < Dim => g[y][x] # g[y][x + 1]) /\ (y < Dim => g[y][x] # g[y + 1][x])
    <3>1. ASSUME x < Dim PROVE g[y][x] # g[y][x + 1]
      <4>1. x \in 1 .. Dim - 1 /\ x + 1 \in 1 .. Dim
        BY <3>1
      <4>2. Line(g, "left", y)[x] = g[y][x]
        <5>1. LinesAt(g, y, x)
          BY LinesAre
        <5> QED
          BY <5>1 DEF LinesAt
      <4>4. Line(g, "left", y)[x + 1] = g[y][x + 1]
        BY <4>1, LineAt
      <4>3. "left" \in Directions
        BY DEF Directions
      <4> QED
        BY <2>1, <2>3, <4>1, <4>2, <4>3, <4>4
    <3>2. ASSUME y < Dim PROVE g[y][x] # g[y + 1][x]
      <4>1. y \in 1 .. Dim - 1 /\ y + 1 \in 1 .. Dim
        BY <3>2
      <4>5. LinesAt(g, x, y)
        BY LinesAre
      <4>2. Line(g, "up", x)[y] = g[y][x]
        BY <4>5 DEF LinesAt
      <4>4. Line(g, "up", x)[y + 1] = g[y + 1][x]
        BY <4>1, LineAt
      <4>3. "up" \in Directions
        BY DEF Directions
      <4> QED
        BY <2>1, <2>3, <4>1, <4>2, <4>3, <4>4
    <3> QED
      BY <3>1, <3>2
  <2>5. Free(g) = {}
    BY <2>3 DEF Free, Places
  <2>6. ~\E p \in Places : \/ p[2] < Dim /\ g[p[1]][p[2]] = g[p[1]][p[2] + 1]
                           \/ p[1] < Dim /\ g[p[1]][p[2]] = g[p[1] + 1][p[2]]
    BY <2>4 DEF Places
  <2> QED
    BY <2>5, <2>6 DEF can
<1> QED
  BY <1>2, <1>3

-------------------------------------------------------------------------------
\* What the board is worth, line by line, in each direction.
LineWorths(g, d) == [i \in 1 .. Dim |-> SumTo(Worths(Line(g, d, i), Dim), Dim)]

LEMMA WorthByLines ==
    ASSUME NEW g, IsGrid(g), NEW d \in Directions
    PROVE  WorthOf(g) = SumTo(LineWorths(g, d), Dim)
<1> DEFINE a == [y \in 1 .. Dim |-> [x \in 1 .. Dim |-> Worth[g[y][x]]]]
<1> DEFINE c == [x \in 1 .. Dim |-> [y \in 1 .. Dim |-> Worth[g[y][x]]]]
<1> DEFINE rows == [y \in 1 .. Dim |-> SumTo(a[y], Dim)]
<1> DEFINE columns == [x \in 1 .. Dim |-> SumTo(c[x], Dim)]
<1>0. Dim \in Nat
  OBVIOUS
<1>1. \A y, x \in 1 .. Dim : Worth[g[y][x]] \in Int
  BY WorthValues DEF IsGrid
<1>2. WorthOf(g) = SumTo(rows, Dim)
  <2>1. rows = [y \in 1 .. Dim |-> SumTo([x \in 1 .. Dim |-> Worth[g[y][x]]], Dim)]
    BY Zenon
  <2> QED
    BY <2>1 DEF WorthOf
<1>3. \A y, x \in 1 .. Dim : a[y][x] \in Int /\ a[y][x] = a[y][x] /\ c[x][y] = a[y][x]
                             /\ a[y][x] = Worth[g[y][x]]
  BY <1>1
<1>4. SumTo(rows, Dim) = SumTo(columns, Dim)
  <2>1. \A y \in 1 .. Dim : rows[y] = SumTo(a[y], Dim)
    BY Zenon
  <2>2. \A x \in 1 .. Dim : columns[x] = SumTo(c[x], Dim)
    BY Zenon
  <2> HIDE DEF a, c, rows, columns
  <2>3. ByRows(a, a, c, Dim, Dim)
    BY <1>3 DEF ByRows
  <2>4. SumOf(rows, a, Dim, Dim) /\ SumOf(columns, c, Dim, Dim)
    BY <2>1, <2>2 DEF SumOf
  <2> QED
    BY <1>0, <2>3, <2>4, SumSwap
<1>5. ASSUME NEW i \in 1 .. Dim
      PROVE  /\ rows[i] \in Int /\ columns[i] \in Int
             /\ SumTo(Worths(Line(g, "left", i), Dim), Dim) = rows[i]
             /\ SumTo(Worths(Line(g, "right", i), Dim), Dim) = rows[i]
             /\ SumTo(Worths(Line(g, "up", i), Dim), Dim) = columns[i]
             /\ SumTo(Worths(Line(g, "down", i), Dim), Dim) = columns[i]
  <2>1. rows[i] = SumTo(a[i], Dim) /\ columns[i] = SumTo(c[i], Dim)
    BY Zenon
  <2>2. \A j \in 1 .. Dim : a[i][j] \in Int /\ c[i][j] \in Int /\ a[i][j] = Worth[g[i][j]]
                            /\ c[i][j] = Worth[g[j][i]] /\ Dim + 1 - j \in 1 .. Dim
    BY <1>3
  <2>3. ASSUME NEW j \in 1 .. Dim
        PROVE  /\ Worths(Line(g, "left", i), Dim)[j] = a[i][j]
               /\ Worths(Line(g, "right", i), Dim)[j] = a[i][Dim + 1 - j]
               /\ Worths(Line(g, "up", i), Dim)[j] = c[i][j]
               /\ Worths(Line(g, "down", i), Dim)[j] = c[i][Dim + 1 - j]
    <3>1. /\ Worths(Line(g, "left", i), Dim)[j] = Worth[g[i][j]]
          /\ Worths(Line(g, "right", i), Dim)[j] = Worth[g[i][Dim + 1 - j]]
          /\ Worths(Line(g, "up", i), Dim)[j] = Worth[g[j][i]]
          /\ Worths(Line(g, "down", i), Dim)[j] = Worth[g[Dim + 1 - j][i]]
      BY LineAt DEF Worths
    <3> HIDE DEF a, c
    <3> QED
      BY <2>2, <3>1
  <2> HIDE DEF a, c, rows, columns
  <2>9. Ints(a[i], Dim) /\ Ints(c[i], Dim)
    BY <2>2 DEF Ints
  <2>4. rows[i] \in Int /\ columns[i] \in Int
    BY <1>0, <2>1, <2>9, SumType
  <2>10. /\ Same(a[i], Worths(Line(g, "left", i), Dim), Dim)
         /\ Same(c[i], Worths(Line(g, "up", i), Dim), Dim)
    BY <2>3 DEF Same
  <2>11. /\ Turned(a[i], Worths(Line(g, "right", i), Dim), Dim)
         /\ Turned(c[i], Worths(Line(g, "down", i), Dim), Dim)
    BY <2>3 DEF Turned
  <2>5. SumTo(a[i], Dim) = SumTo(Worths(Line(g, "left", i), Dim), Dim)
    BY <1>0, <2>9, <2>10, SumEqual
  <2>6. SumTo(c[i], Dim) = SumTo(Worths(Line(g, "up", i), Dim), Dim)
    BY <1>0, <2>9, <2>10, SumEqual
  <2>7. SumTo(Worths(Line(g, "right", i), Dim), Dim) = SumTo(a[i], Dim)
    BY <1>0, <2>9, <2>11, SumReverse
  <2>8. SumTo(Worths(Line(g, "down", i), Dim), Dim) = SumTo(c[i], Dim)
    BY <1>0, <2>9, <2>11, SumReverse
  <2> QED
    BY <2>1, <2>4, <2>5, <2>6, <2>7, <2>8
<1> HIDE DEF rows, columns
<1>6. CASE d \in {"left", "right"}
  <2>1. Ints(rows, Dim) /\ Same(rows, LineWorths(g, d), Dim)
    BY <1>5, <1>6 DEF LineWorths, Ints, Same
  <2> QED
    BY <1>0, <1>2, <2>1, SumEqual
<1>7. CASE d \in {"up", "down"}
  <2>1. Ints(columns, Dim) /\ Same(columns, LineWorths(g, d), Dim)
    BY <1>5, <1>7 DEF LineWorths, Ints, Same
  <2> QED
    BY <1>0, <1>2, <1>4, <2>1, SumEqual
<1> QED
  BY <1>6, <1>7 DEF Directions

\* Sliding makes the board worth as much more as it adds to the score.
LEMMA WorthOfSlid ==
    ASSUME NEW g, IsGrid(g), NEW d \in Directions
    PROVE  /\ WorthOf(Slid(g, d)) = WorthOf(g) + Gain(g, d)
           /\ WorthOf(g) \in Int /\ Gain(g, d) \in Int
<1> DEFINE gains == [i \in 1 .. Dim |-> sl(Line(g, d, i)).sc]
<1>0. Dim \in Nat
  OBVIOUS
<1>1. ASSUME NEW i \in 1 .. Dim
      PROVE  LineWorths(g, d)[i] \in Int /\ gains[i] \in Int
             /\ LineWorths(Slid(g, d), d)[i] = LineWorths(g, d)[i] + gains[i]
  <2> DEFINE r == Line(g, d, i)
  <2>1. r \in [1 .. Dim -> Nat]
    BY LineType
  <2>2. SlideInv(r, Dim, Dim, sl(r)) /\ sl(r).sc \in Nat /\ Line(Slid(g, d), d, i) = sl(r).row
    BY SlidLine
  <2>3. SumTo(Worths(sl(r).row, Dim), Dim) = SumTo(Worths(r, Dim), Dim) + sl(r).sc
    <3> HIDE DEF r
    <3> QED
      BY <2>2 DEF SlideInv
  <2>4. SumTo(Worths(r, Dim), Dim) \in Int
    <3> HIDE DEF r
    <3>1. Ints(Worths(r, Dim), Dim)
      BY <2>1, WorthValues DEF Worths, Ints
    <3> QED
      BY <1>0, <3>1, SumType
  <2>5. LineWorths(g, d)[i] = SumTo(Worths(r, Dim), Dim)
        /\ LineWorths(Slid(g, d), d)[i] = SumTo(Worths(Line(Slid(g, d), d, i), Dim), Dim)
    BY Zenon DEF LineWorths
  <2>6. gains[i] = sl(r).sc
    BY Zenon
  <2> HIDE DEF r, gains
  <2> QED
    BY <2>2, <2>3, <2>4, <2>5, <2>6
<1>2. Gain(g, d) = SumTo(gains, Dim)
  BY Zenon DEF Gain
<1> HIDE DEF gains
<1>3. SumTo(LineWorths(Slid(g, d), d), Dim) = SumTo(LineWorths(g, d), Dim) + SumTo(gains, Dim)
  <2>1. Added(LineWorths(g, d), gains, LineWorths(Slid(g, d), d), Dim)
    BY <1>1 DEF Added, Ints
  <2> QED
    BY <1>0, <2>1, SumPlus
<1>4. WorthOf(g) = SumTo(LineWorths(g, d), Dim)
  BY WorthByLines
<1>5. WorthOf(Slid(g, d)) = SumTo(LineWorths(Slid(g, d), d), Dim)
  BY SlidGrid, WorthByLines
<1>6. SumTo(LineWorths(g, d), Dim) \in Int /\ SumTo(gains, Dim) \in Int
  <2>1. Ints(LineWorths(g, d), Dim) /\ Ints(gains, Dim)
    BY <1>1 DEF Ints
  <2> QED
    BY <1>0, <2>1, SumType
<1> QED
  BY <1>2, <1>3, <1>4, <1>5, <1>6

RowWorths(g, y) == [x \in 1 .. Dim |-> Worth[g[y][x]]]
AllWorths(g) == [y \in 1 .. Dim |-> SumTo(RowWorths(g, y), Dim)]

\* A new tile.
PutIs(g, y, x, v) ==
    /\ IsGrid([g EXCEPT ![y][x] = v])
    /\ [g EXCEPT ![y][x] = v][y][x] # 0
    /\ \A b, a \in 1 .. Dim : <<b, a>> # <<y, x>> => [g EXCEPT ![y][x] = v][b][a] = g[b][a]
    /\ WorthOf([g EXCEPT ![y][x] = v]) = WorthOf(g) + (IF v = 4 THEN 4 ELSE 0)
    /\ WorthOf(g) \in Int
LEMMA WorthOfPut ==
    ASSUME NEW g, IsGrid(g), NEW y \in 1 .. Dim, NEW x \in 1 .. Dim, g[y][x] = 0, NEW v \in {2, 4}
    PROVE  PutIs(g, y, x, v)
<1> USE DEF PutIs
<1> DEFINE h == [g EXCEPT ![y][x] = v]
<1>0. Dim \in Nat
  OBVIOUS
<1>18. v \in Nat /\ v >= 2
  OBVIOUS
<1>19. g \in [1 .. Dim -> [1 .. Dim -> Nat]]
  BY DEF IsGrid
<1>1. g \in [1 .. Dim -> [1 .. Dim -> Nat]] /\ v \in Nat /\ v >= 2
  BY <1>18, <1>19
<1>2. h \in [1 .. Dim -> [1 .. Dim -> Nat]]
  BY <1>1
<1>3. ASSUME NEW b \in 1 .. Dim, NEW a \in 1 .. Dim
      PROVE  h[b][a] = IF b = y /\ a = x THEN v ELSE g[b][a]
  BY <1>1
<1> HIDE DEF h
<1>4. IsGrid(h)
  <2>1. ASSUME NEW b \in 1 .. Dim, NEW a \in 1 .. Dim PROVE h[b][a] = 0 \/ h[b][a] >= 2
    <3>1. g[b][a] = 0 \/ g[b][a] >= 2
      BY DEF IsGrid
    <3>2. h[b][a] = IF b = y /\ a = x THEN v ELSE g[b][a]
      BY <1>3
    <3> QED
      BY <1>18, <3>1, <3>2
  <2> QED
    BY <1>2, <2>1 DEF IsGrid
<1>5. WorthOf(g) = SumTo(AllWorths(g), Dim) /\ WorthOf(h) = SumTo(AllWorths(h), Dim)
  BY Zenon DEF WorthOf, AllWorths, RowWorths
<1>6. ASSUME NEW b \in 1 .. Dim, NEW a \in 1 .. Dim
      PROVE  /\ RowWorths(g, b)[a] = Worth[g[b][a]] /\ RowWorths(h, b)[a] = Worth[h[b][a]]
             /\ RowWorths(g, b)[a] \in Int /\ RowWorths(h, b)[a] \in Int
             /\ b # y \/ a # x => RowWorths(h, b)[a] = RowWorths(g, b)[a]
  <2>1. RowWorths(g, b)[a] = Worth[g[b][a]] /\ RowWorths(h, b)[a] = Worth[h[b][a]]
    BY DEF RowWorths
  <2>2. g[b][a] \in Nat /\ h[b][a] \in Nat
    BY <1>1, <1>2
  <2>3. Worth[g[b][a]] \in Int /\ Worth[h[b][a]] \in Int
    BY <2>2, WorthValues
  <2>4. b # y \/ a # x => h[b][a] = g[b][a]
    BY <1>3
  <2> QED
    BY <2>1, <2>3, <2>4
<1>7. \A b \in 1 .. Dim : AllWorths(g)[b] = SumTo(RowWorths(g, b), Dim) /\ AllWorths(h)[b] = SumTo(RowWorths(h, b), Dim)
  BY Zenon DEF AllWorths
<1>8. SumTo(RowWorths(h, y), Dim) = SumTo(RowWorths(g, y), Dim) - RowWorths(g, y)[x] + RowWorths(h, y)[x]
  <2>1. Changed(RowWorths(g, y), RowWorths(h, y), Dim, x)
    <3>1. ASSUME NEW i \in 1 .. Dim
          PROVE  RowWorths(g, y)[i] \in Int /\ (i # x => RowWorths(h, y)[i] = RowWorths(g, y)[i])
      BY <1>6
    <3>2. RowWorths(h, y)[x] \in Int
      BY <1>6
    <3> QED
      BY <3>1, <3>2 DEF Changed, Ints
  <2> QED
    BY <1>0, <2>1, SumChange
<1>9. ASSUME NEW b \in 1 .. Dim PROVE AllWorths(g)[b] \in Int /\ AllWorths(h)[b] \in Int
  <2>1. Ints(RowWorths(g, b), Dim) /\ Ints(RowWorths(h, b), Dim)
    <3>1. ASSUME NEW i \in 1 .. Dim PROVE RowWorths(g, b)[i] \in Int /\ RowWorths(h, b)[i] \in Int
      BY <1>6
    <3> QED
      BY <3>1 DEF Ints
  <2> QED
    BY <1>0, <1>7, <2>1, SumType
<1>10. ASSUME NEW b \in 1 .. Dim, b # y PROVE AllWorths(h)[b] = AllWorths(g)[b]
  <2>1. Ints(RowWorths(h, b), Dim) /\ Same(RowWorths(h, b), RowWorths(g, b), Dim)
    <3>1. ASSUME NEW i \in 1 .. Dim PROVE RowWorths(h, b)[i] \in Int /\ RowWorths(h, b)[i] = RowWorths(g, b)[i]
      BY <1>6, <1>10
    <3> QED
      BY <3>1 DEF Ints, Same
  <2>2. SumTo(RowWorths(h, b), Dim) = SumTo(RowWorths(g, b), Dim)
    BY <1>0, <2>1, SumEqual
  <2> QED
    BY <1>7, <2>2
<1>17. Changed(AllWorths(g), AllWorths(h), Dim, y)
  BY <1>9, <1>10 DEF Changed, Ints
<1>11. SumTo(AllWorths(h), Dim) = SumTo(AllWorths(g), Dim) - AllWorths(g)[y] + AllWorths(h)[y]
  BY <1>0, <1>17, SumChange
<1>12. SumTo(AllWorths(g), Dim) \in Int
  BY <1>0, <1>17, SumChange
<1>13. RowWorths(g, y)[x] = 0 /\ RowWorths(h, y)[x] = IF v = 4 THEN 4 ELSE 0
  <2>1. h[y][x] = v
    BY <1>3
  <2>2. RowWorths(g, y)[x] = Worth[0] /\ RowWorths(h, y)[x] = Worth[v]
    BY <1>6, <2>1
  <2> QED
    BY <2>2, WorthValues
<1>14. AllWorths(h)[y] = AllWorths(g)[y] + (IF v = 4 THEN 4 ELSE 0)
  BY <1>7, <1>8, <1>9, <1>13
<1>15. WorthOf(h) = WorthOf(g) + (IF v = 4 THEN 4 ELSE 0) /\ WorthOf(g) \in Int
  BY <1>5, <1>9, <1>11, <1>12, <1>14
<1>16. h[y][x] # 0 /\ \A b, a \in 1 .. Dim : <<b, a>> # <<y, x>> => h[b][a] = g[b][a]
  <2>1. h[y][x] = v
    BY <1>3
  <2>2. ASSUME NEW b \in 1 .. Dim, NEW a \in 1 .. Dim, <<b, a>> # <<y, x>> PROVE h[b][a] = g[b][a]
    <3>1. ~(b = y /\ a = x)
      BY <2>2
    <3> QED
      BY <1>3, <3>1
  <2> QED
    BY <1>18, <2>1, <2>2
<1> QED
  BY <1>4, <1>15, <1>16 DEF h

KeptTo(r, i) == {k \in Kept(r) : k <= i}
Count(r, i) == Cardinality(KeptTo(r, i))
Gone(r) == [i \in 1 .. Len(r) |-> IF i \in TilesOf(r) \ Kept(r) THEN 2 * r[i] ELSE 0]
DoubledBy(r, j, i) ==
    \E m \in TilesOf(r) \ Kept(r) : m <= i /\ j < m /\ \A k \in TilesOf(r) : k <= j \/ m <= k
LastTile(r, i, l) == l \in TilesOf(r) /\ l <= i /\ \A k \in TilesOf(r) : k <= i => k <= l

\* The row after i merges is the rule's for the first i places.
RuleInv(r, i, a) ==
    /\ a \in RowType(Len(r)) /\ a.n = Count(r, i) /\ a.sc = SumTo(Gone(r), i)
    /\ \A j \in Kept(r) : j <= i => a.row[Count(r, j)] = IF DoubledBy(r, j, i) THEN 2 * r[j] ELSE r[j]
    /\ \A j \in 1 .. Len(r) : j > Count(r, i) => a.row[j] = 0
    /\ \A l \in TilesOf(r) : LastTile(r, i, l) => (a.fresh <=> l \in Kept(r))
    /\ a.fresh => \E l \in TilesOf(r) : l <= i

LEMMA CountIs ==
    ASSUME NEW r \in Seq(Nat), NEW i \in Nat
    PROVE  /\ Kept(r) \subseteq TilesOf(r) /\ TilesOf(r) \subseteq 1 .. Len(r)
           /\ IsFiniteSet(KeptTo(r, i)) /\ Count(r, i) \in Nat /\ Count(r, i) <= i
           /\ \A j \in Nat : i <= j => Count(r, i) <= Count(r, j)
           /\ \A k \in Kept(r) : i < k => Count(r, i) < Count(r, k)
           /\ Count(r, i + 1) = IF i + 1 \in Kept(r) THEN Count(r, i) + 1 ELSE Count(r, i)
<1>1. Kept(r) \subseteq TilesOf(r) /\ TilesOf(r) \subseteq 1 .. Len(r) /\ Len(r) \in Nat
  BY DEF Kept, TilesOf
<1>2. ASSUME NEW j \in Nat
      PROVE  IsFiniteSet(KeptTo(r, j)) /\ Count(r, j) \in Nat /\ Count(r, j) <= j
  <2>1. 1 \in Int /\ j \in Int
    OBVIOUS
  <2>2. IsFiniteSet(1 .. j) /\ Cardinality(1 .. j) = IF 1 > j THEN 0 ELSE j - 1 + 1
    BY <2>1, FS_Interval
  <2>3. KeptTo(r, j) \in SUBSET (1 .. j)
    BY <1>1 DEF KeptTo
  <2>4. IsFiniteSet(KeptTo(r, j)) /\ Cardinality(KeptTo(r, j)) <= Cardinality(1 .. j)
    BY <2>2, <2>3, FS_Subset
  <2>5. Cardinality(KeptTo(r, j)) \in Nat
    BY <2>4, FS_CardinalityType
  <2> QED
    BY <2>2, <2>4, <2>5 DEF Count
<1>3. ASSUME NEW j \in Nat, i <= j PROVE Count(r, i) <= Count(r, j)
  <2>1. KeptTo(r, i) \in SUBSET KeptTo(r, j)
    BY <1>1, <1>3 DEF KeptTo
  <2> QED
    BY <1>2, <2>1, FS_Subset DEF Count
<1>4. ASSUME NEW k \in Kept(r), i < k PROVE Count(r, i) < Count(r, k)
  <2>1. k \in Nat
    BY <1>1
  <2>2. KeptTo(r, i) \in SUBSET KeptTo(r, k) /\ k \in KeptTo(r, k) /\ k \notin KeptTo(r, i)
    BY <1>1, <1>4, <2>1 DEF KeptTo
  <2>3. IsFiniteSet(KeptTo(r, k)) /\ Count(r, k) \in Nat /\ Count(r, i) \in Nat
    BY <1>2, <2>1
  <2>4. Cardinality(KeptTo(r, i)) <= Cardinality(KeptTo(r, k))
        /\ (Cardinality(KeptTo(r, k)) = Cardinality(KeptTo(r, i)) => KeptTo(r, k) = KeptTo(r, i))
    BY <2>2, <2>3, FS_Subset
  <2> QED
    BY <2>2, <2>3, <2>4 DEF Count
<1>5. Count(r, i + 1) = IF i + 1 \in Kept(r) THEN Count(r, i) + 1 ELSE Count(r, i)
  <2>1. CASE i + 1 \in Kept(r)
    <3>1. KeptTo(r, i + 1) = KeptTo(r, i) \cup {i + 1} /\ i + 1 \notin KeptTo(r, i)
      BY <1>1, <2>1 DEF KeptTo
    <3> QED
      BY <1>2, <2>1, <3>1, FS_AddElement DEF Count
  <2>2. CASE i + 1 \notin Kept(r)
    <3>1. KeptTo(r, i + 1) = KeptTo(r, i)
      BY <1>1, <2>2 DEF KeptTo
    <3> QED
      BY <2>2, <3>1 DEF Count
  <2> QED
    BY <2>1, <2>2
<1> QED
  BY <1>1, <1>2, <1>3, <1>4, <1>5

LEMMA LastTileIs ==
    ASSUME NEW r \in Seq(Nat), NEW i \in Nat, \E k \in TilesOf(r) : k <= i
    PROVE  \E l \in TilesOf(r) : LastTile(r, i, l)
<1> DEFINE S == {k \in TilesOf(r) : k <= i}
<1>1. S \in SUBSET (0 .. i) /\ S # {}
  BY DEF TilesOf
<1>2. Max(S) \in S /\ \A k \in S : k <= Max(S)
  <2> HIDE DEF S
  <2> QED
    BY <1>1, MaxOf
<1> QED
  BY <1>2 DEF LastTile

\* A tile is kept unless the one before is kept and equal.
LEMMA Parity ==
    ASSUME NEW r \in Seq(Nat), NEW i \in Nat, i + 1 \in TilesOf(r)
    PROVE  /\ (~\E k \in TilesOf(r) : k <= i) => i + 1 \in Kept(r)
           /\ \A l \in TilesOf(r) : LastTile(r, i, l) =>
                  (i + 1 \in Kept(r) <=> ~(l \in Kept(r) /\ r[l] = r[i + 1]))
<1>1. TilesOf(r) \subseteq 1 .. Len(r) /\ Len(r) \in Nat
  BY DEF TilesOf
<1>2. ASSUME InRun(r, i + 1) = {i + 1} PROVE i + 1 \in Kept(r)
  <2>1. Cardinality({i + 1}) = 1
    BY FS_Singleton
  <2>2. 1 % 2 = 1
    OBVIOUS
  <2> QED
    BY <1>2, <2>1, <2>2 DEF Kept
<1>3. i + 1 \in InRun(r, i + 1)
  BY <1>1 DEF InRun
<1>4. ASSUME ~\E k \in TilesOf(r) : k <= i PROVE i + 1 \in Kept(r)
  <2>1. \A j \in InRun(r, i + 1) : j = i + 1
    BY <1>1, <1>4 DEF InRun
  <2> QED
    BY <1>2, <1>3, <2>1
<1>5. ASSUME NEW l \in TilesOf(r), LastTile(r, i, l)
      PROVE  i + 1 \in Kept(r) <=> ~(l \in Kept(r) /\ r[l] = r[i + 1])
  <2>1. l \in Nat /\ l <= i /\ \A k \in TilesOf(r) : k \in Nat /\ (k <= i => k <= l)
    BY <1>1, <1>5 DEF LastTile
  <2>2. CASE r[l] # r[i + 1]
    <3>1. \A j \in InRun(r, i + 1) : j = i + 1
      BY <2>1, <2>2 DEF InRun
    <3> QED
      BY <1>2, <1>3, <2>2, <3>1
  <2>3. CASE r[l] = r[i + 1]
    <3>1. InRun(r, i + 1) \subseteq InRun(r, l) \cup {i + 1}
      <4> SUFFICES ASSUME NEW j \in InRun(r, i + 1), j # i + 1 PROVE j \in InRun(r, l)
        OBVIOUS
      <4>1. j \in TilesOf(r) /\ j \in Nat /\ j <= i + 1 /\ \A k \in TilesOf(r) : j <= k /\ k <= i + 1 => r[k] = r[i + 1]
        BY <2>1 DEF InRun
      <4>2. j <= l
        BY <2>1, <4>1
      <4>3. \A k \in TilesOf(r) : j <= k /\ k <= l => r[k] = r[l]
        BY <2>1, <2>3, <4>1
      <4> QED
        BY <4>1, <4>2, <4>3 DEF InRun
    <3>2. InRun(r, l) \subseteq InRun(r, i + 1)
      <4> SUFFICES ASSUME NEW j \in InRun(r, l) PROVE j \in InRun(r, i + 1)
        OBVIOUS
      <4>1. j \in TilesOf(r) /\ j \in Nat /\ j <= l /\ \A k \in TilesOf(r) : j <= k /\ k <= l => r[k] = r[l]
        BY <1>1 DEF InRun
      <4>2. j <= i + 1
        BY <2>1, <4>1
      <4>3. ASSUME NEW k \in TilesOf(r), j <= k, k <= i + 1 PROVE r[k] = r[i + 1]
        <5>1. k <= l \/ k = i + 1
          BY <2>1, <4>3
        <5> QED
          BY <2>3, <4>1, <4>3, <5>1
      <4> QED
        BY <4>1, <4>2, <4>3 DEF InRun
    <3>3. InRun(r, i + 1) = InRun(r, l) \cup {i + 1} /\ i + 1 \notin InRun(r, l)
      BY <1>3, <2>1, <3>1, <3>2 DEF InRun
    <3>4. IsFiniteSet(InRun(r, l))
      <4>1. 1 \in Int /\ Len(r) \in Int
        BY <1>1
      <4>2. IsFiniteSet(1 .. Len(r))
        BY <4>1, FS_Interval
      <4>3. InRun(r, l) \in SUBSET (1 .. Len(r))
        BY <1>1 DEF InRun
      <4> QED
        BY <4>2, <4>3, FS_Subset
    <3>5. Cardinality(InRun(r, i + 1)) = Cardinality(InRun(r, l)) + 1 /\ Cardinality(InRun(r, l)) \in Nat
      BY <3>3, <3>4, FS_AddElement, FS_CardinalityType
    <3>6. \A c \in Nat : (c + 1) % 2 = 1 <=> ~(c % 2 = 1)
      OBVIOUS
    <3>7. i + 1 \in Kept(r) <=> ~(l \in Kept(r))
      BY <3>5, <3>6 DEF Kept
    <3> QED
      BY <2>3, <3>7
  <2> QED
    BY <2>2, <2>3
<1> QED
  BY <1>4, <1>5

LEMMA RuleStep ==
    ASSUME NEW r \in Seq(Nat), NEW i \in 0 .. Len(r) - 1, NEW a, RuleInv(r, i, a)
    PROVE  RuleInv(r, i + 1, Merge(a, r[i + 1]))
<1> DEFINE n == Len(r)
<1> DEFINE v == r[i + 1]
<1> DEFINE b == Merge(a, v)
<1> DEFINE T == TilesOf(r)
<1> DEFINE K == Kept(r)
<1>1. i \in Nat /\ i + 1 \in 1 .. n /\ v \in Nat /\ n \in Nat
  OBVIOUS
<1>2. /\ a \in RowType(n) /\ a.n = Count(r, i) /\ a.sc = SumTo(Gone(r), i)
      /\ \A j \in K : j <= i => a.row[Count(r, j)] = IF DoubledBy(r, j, i) THEN 2 * r[j] ELSE r[j]
      /\ \A j \in 1 .. n : j > Count(r, i) => a.row[j] = 0
      /\ \A l \in T : LastTile(r, i, l) => (a.fresh <=> l \in K)
      /\ a.fresh => \E l \in T : l <= i
  BY DEF RuleInv
<1>3. a.row \in [1 .. n -> Nat] /\ a.n \in Nat /\ a.sc \in Nat
  BY <1>2 DEF RowType
<1>4. /\ K \subseteq T /\ T \subseteq 1 .. n
      /\ \A k \in Nat : Count(r, k) \in Nat /\ Count(r, k) <= k
      /\ \A j, k \in Nat : j <= k => Count(r, j) <= Count(r, k)
      /\ \A j \in Nat, k \in K : j < k => Count(r, j) < Count(r, k)
      /\ Count(r, i + 1) = IF i + 1 \in K THEN Count(r, i) + 1 ELSE Count(r, i)
  BY <1>1, CountIs
<1>5. T = {k \in 1 .. n : r[k] # 0} /\ \A k \in T : r[k] \in Nat /\ k \in Nat
  BY <1>1 DEF TilesOf
<1>6. SumTo(Gone(r), i) \in Int /\ SumTo(Gone(r), i + 1) = SumTo(Gone(r), i) + (IF i + 1 \in T \ K THEN 2 * v ELSE 0)
  <2>1. \A j \in 1 .. n : Gone(r)[j] = IF j \in T \ K THEN 2 * r[j] ELSE 0
    BY DEF Gone
  <2>2. \A j \in 1 .. i + 1 : j \in 1 .. n
    BY <1>1
  <2>3. \A j \in 1 .. i + 1 : Gone(r)[j] \in Int
    BY <2>1, <2>2, <1>5
  <2>4. SumTo(Gone(r), i) \in Int /\ SumTo(Gone(r), i + 1) = SumTo(Gone(r), i) + Gone(r)[i + 1]
    BY <1>1, <2>3, SumNext
  <2> QED
    BY <1>1, <2>1, <2>4
<1>14. MergeIs(n, a, v, b)
  BY <1>1, <1>2, MergesTo
<1>7. /\ b \in RowType(n)
      /\ v = 0 => b = a
      /\ v # 0 /\ a.fresh /\ a.row[a.n] = v =>
           b.row = [a.row EXCEPT ![a.n] = 2 * v] /\ b.n = a.n /\ b.sc = a.sc + 2 * v /\ b.fresh = FALSE
      /\ v # 0 /\ ~(a.fresh /\ a.row[a.n] = v) =>
           b.row = [a.row EXCEPT ![a.n + 1] = v] /\ b.n = a.n + 1 /\ b.sc = a.sc /\ b.fresh = TRUE
  BY <1>14 DEF MergeIs
<1>8. \A j \in K : DoubledBy(r, j, i + 1) <=>
          \/ DoubledBy(r, j, i)
          \/ i + 1 \in T \ K /\ j < i + 1 /\ \A k \in T : k <= j \/ i + 1 <= k
  <2> SUFFICES ASSUME NEW j \in K
               PROVE  DoubledBy(r, j, i + 1) <=>
                          \/ DoubledBy(r, j, i)
                          \/ i + 1 \in T \ K /\ j < i + 1 /\ \A k \in T : k <= j \/ i + 1 <= k
    OBVIOUS
  <2>1. \A m \in T : m <= i + 1 <=> m <= i \/ m = i + 1
    BY <1>1, <1>5
  <2> HIDE DEF T, K
  <2>2. DoubledBy(r, j, i + 1) <=> \E m \in T \ K : m <= i + 1 /\ j < m /\ \A k \in T : k <= j \/ m <= k
    BY DEF DoubledBy, T, K
  <2>3. DoubledBy(r, j, i) <=> \E m \in T \ K : m <= i /\ j < m /\ \A k \in T : k <= j \/ m <= k
    BY DEF DoubledBy, T, K
  <2> QED
    BY <2>1, <2>2, <2>3, Zenon
<1>9. ASSUME NEW l \in T, LastTile(r, i, l), l \in K
      PROVE  Count(r, l) = Count(r, i) /\ a.row[a.n] = r[l] /\ l <= i /\ a.fresh
  <2>1. l \in Nat /\ l <= i /\ \A k \in T : k <= i => k <= l
    BY <1>5, <1>9 DEF LastTile
  <2>2. KeptTo(r, l) = KeptTo(r, i)
    <3> SUFFICES ASSUME NEW k \in K PROVE k <= i <=> k <= l
      BY DEF KeptTo
    <3>1. k \in T /\ k \in Nat
      BY <1>4, <1>5
    <3>2. k <= i => k <= l
      BY <2>1, <3>1
    <3> QED
      BY <1>1, <2>1, <3>1, <3>2
  <2>3. ~DoubledBy(r, l, i)
    BY <1>5, <2>1 DEF DoubledBy
  <2> QED
    BY <1>2, <1>9, <2>1, <2>2, <2>3 DEF Count
<1> HIDE DEF b, T, K, n
<1>10. CASE v = 0
  <2>1. b = a /\ i + 1 \notin T /\ i + 1 \notin K
    BY <1>4, <1>5, <1>7, <1>10
  <2>2. Count(r, i + 1) = Count(r, i) /\ SumTo(Gone(r), i + 1) = SumTo(Gone(r), i)
    BY <1>4, <1>6, <2>1
  <2>3. \A j \in T : j <= i + 1 => j <= i
    BY <1>1, <1>5, <2>1
  <2>4. \A l \in T : LastTile(r, i + 1, l) => LastTile(r, i, l)
    BY <1>1, <1>5, <2>3 DEF LastTile, T
  <2>5. \A j \in K : j <= i + 1 => a.row[Count(r, j)] = IF DoubledBy(r, j, i + 1) THEN 2 * r[j] ELSE r[j]
    BY <1>2, <1>4, <1>8, <2>1, <2>3
  <2>6. \A l \in T : l <= i => l <= i + 1
    BY <1>1, <1>5
  <2>7. RuleInv(r, i + 1, a)
    BY <1>2, <2>2, <2>4, <2>5, <2>6 DEF RuleInv, T, K, n
  <2> QED
    BY <2>1, <2>7 DEF b
<1>11. ASSUME v # 0
       PROVE  /\ i + 1 \in T
              /\ \A l \in T : LastTile(r, i + 1, l) => l = i + 1
              /\ (~\E k \in T : k <= i) => i + 1 \in K
              /\ \A l \in T : LastTile(r, i, l) => (i + 1 \in K <=> ~(l \in K /\ r[l] = v))
  <2>1. i + 1 \in T
    BY <1>1, <1>5, <1>11
  <2>2. \A l \in T : LastTile(r, i + 1, l) => l = i + 1
    BY <1>1, <1>5, <2>1 DEF LastTile, T
  <2> QED
    BY <1>1, <2>1, <2>2, Parity DEF T, K
<1>12. CASE v # 0 /\ a.fresh /\ a.row[a.n] = v
  <2>1. b.row = [a.row EXCEPT ![a.n] = 2 * v] /\ b.n = a.n /\ b.sc = a.sc + 2 * v /\ b.fresh = FALSE
    BY <1>7, <1>12
  <2>2. PICK l \in T : LastTile(r, i, l)
    BY <1>1, <1>2, <1>12, LastTileIs DEF T
  <2>3. l \in K
    BY <1>2, <1>12, <2>2
  <2>4. Count(r, l) = Count(r, i) /\ r[l] = v /\ l <= i
    BY <1>9, <1>12, <2>2, <2>3
  <2>5. i + 1 \in T \ K
    BY <1>11, <1>12, <2>2, <2>3, <2>4
  <2>6. Count(r, i + 1) = Count(r, i) /\ SumTo(Gone(r), i + 1) = SumTo(Gone(r), i) + 2 * v
    BY <1>4, <1>6, <2>5
  <2>7. ASSUME NEW j \in K, j <= i + 1
        PROVE  b.row[Count(r, j)] = IF DoubledBy(r, j, i + 1) THEN 2 * r[j] ELSE r[j]
    <3>4. j \in T /\ j \in Nat /\ l \in Nat /\ j # i + 1
      BY <1>4, <1>5, <2>5
    <3>5. j <= i
      BY <1>1, <2>7, <3>4
    <3>6. j <= l
      BY <2>2, <3>4, <3>5 DEF LastTile, T
    <3>1. j \in T /\ j \in Nat /\ j <= i /\ j <= l /\ l \in Nat
      BY <3>4, <3>5, <3>6
    <3>2. CASE j = l
      <4>1. \A k \in T : k <= l \/ i + 1 <= k
        BY <1>1, <1>5, <2>2 DEF LastTile, T
      <4>2. DoubledBy(r, j, i + 1)
        BY <1>1, <1>8, <2>4, <2>5, <3>1, <3>2, <4>1
      <4>3. a.n \in 1 .. n
        <5>1. 0 < Count(r, l)
          <6>1. Count(r, 0) = 0 \/ Count(r, 0) > 0
            BY <1>4
          <6>2. 0 < l
            BY <1>5, <2>2 DEF T, n
          <6> QED
            BY <1>4, <2>3, <6>1, <6>2
        <5>2. Count(r, i) <= i /\ i <= n
          BY <1>1, <1>4
        <5> QED
          BY <1>1, <1>2, <1>3, <2>4, <5>1, <5>2
      <4>4. b.row[a.n] = 2 * v
        BY <1>3, <2>1, <4>3
      <4>5. Count(r, j) = a.n /\ r[j] = v
        BY <1>2, <2>4, <3>2
      <4> QED
        BY <4>2, <4>4, <4>5
    <3>3. CASE j # l
      <4>1. Count(r, j) < Count(r, l)
        BY <1>4, <2>3, <3>1, <3>3
      <4>2. Count(r, j) # a.n
        BY <1>2, <1>4, <2>4, <3>1, <4>1
      <4>3. b.row[Count(r, j)] = a.row[Count(r, j)]
        BY <1>3, <2>1, <4>2
      <4>4. DoubledBy(r, j, i + 1) <=> DoubledBy(r, j, i)
        <5>1. ~(l <= j \/ i + 1 <= l)
          BY <1>1, <2>4, <3>1, <3>3
        <5> QED
          BY <1>8, <5>1
      <4> QED
        BY <1>2, <3>1, <4>3, <4>4
    <3> QED
      BY <3>2, <3>3
  <2>8. \A j \in 1 .. n : j > Count(r, i + 1) => b.row[j] = 0
    <3> SUFFICES ASSUME NEW j \in 1 .. n, j > Count(r, i) PROVE b.row[j] = 0
      BY <2>6
    <3>1. j # a.n
      BY <1>2, <1>3
    <3>2. b.row[j] = a.row[j]
      BY <1>3, <2>1, <3>1
    <3> QED
      BY <1>2, <3>2
  <2>9. \A l1 \in T : LastTile(r, i + 1, l1) => (b.fresh <=> l1 \in K)
    BY <1>11, <1>12, <2>1, <2>5
  <2>10. RuleInv(r, i + 1, b)
    BY <1>2, <1>7, <2>1, <2>6, <2>7, <2>8, <2>9 DEF RuleInv, T, K, n
  <2> QED
    BY <2>10 DEF b
<1>13. CASE v # 0 /\ ~(a.fresh /\ a.row[a.n] = v)
  <2>1. b.row = [a.row EXCEPT ![a.n + 1] = v] /\ b.n = a.n + 1 /\ b.sc = a.sc /\ b.fresh = TRUE
    BY <1>7, <1>13
  <2>2. i + 1 \in T /\ i + 1 \in K
    <3>1. CASE \E k \in T : k <= i
      <4>1. PICK l \in T : LastTile(r, i, l)
        BY <1>1, <3>1, LastTileIs DEF T
      <4>2. ~(l \in K /\ r[l] = v)
        BY <1>9, <1>13, <4>1
      <4> QED
        BY <1>11, <1>13, <4>1, <4>2
    <3>2. CASE ~\E k \in T : k <= i
      BY <1>11, <1>13, <3>2
    <3> QED
      BY <3>1, <3>2
  <2>3. Count(r, i + 1) = Count(r, i) + 1 /\ SumTo(Gone(r), i + 1) = SumTo(Gone(r), i)
    BY <1>4, <1>6, <2>2
  <2>11. a.n = Count(r, i) /\ a.n \in Nat /\ a.n <= i
    BY <1>1, <1>2, <1>3, <1>4
  <2>4. a.n + 1 \in 1 .. n /\ a.n + 1 = Count(r, i + 1)
    BY <1>1, <2>3, <2>11
  <2>5. ASSUME NEW j \in K, j <= i + 1
        PROVE  b.row[Count(r, j)] = IF DoubledBy(r, j, i + 1) THEN 2 * r[j] ELSE r[j]
    <3>1. j \in T /\ j \in Nat
      BY <1>4, <1>5
    <3>2. DoubledBy(r, j, i + 1) <=> DoubledBy(r, j, i)
      BY <1>8, <2>2
    <3>3. CASE j = i + 1
      <4>1. ~DoubledBy(r, j, i)
        BY <1>1, <1>5, <3>3 DEF DoubledBy, T
      <4>2. b.row[Count(r, j)] = v
        BY <1>3, <2>1, <2>4, <3>3
      <4> QED
        BY <3>2, <3>3, <4>1, <4>2
    <3>4. CASE j # i + 1
      <4>1. j <= i
        BY <1>1, <2>5, <3>1, <3>4
      <4>2. Count(r, j) <= Count(r, i) /\ Count(r, j) \in Nat
        BY <1>1, <1>4, <3>1, <4>1
      <4>3. Count(r, j) # a.n + 1
        BY <1>2, <1>3, <4>2
      <4>4. b.row[Count(r, j)] = a.row[Count(r, j)]
        BY <1>3, <2>1, <4>3
      <4> QED
        BY <1>2, <3>2, <4>1, <4>4
    <3> QED
      BY <3>3, <3>4
  <2>6. \A j \in 1 .. n : j > Count(r, i + 1) => b.row[j] = 0
    <3> SUFFICES ASSUME NEW j \in 1 .. n, j > a.n + 1 PROVE b.row[j] = 0
      BY <2>4
    <3>1. j > Count(r, i) /\ j # a.n + 1
      BY <1>2, <1>3
    <3>2. b.row[j] = a.row[j]
      BY <1>3, <2>1, <3>1
    <3> QED
      BY <1>2, <3>1, <3>2
  <2>7. \A l \in T : LastTile(r, i + 1, l) => (b.fresh <=> l \in K)
    BY <1>11, <1>13, <2>1, <2>2
  <2>8. \E l \in T : l <= i + 1
    BY <1>1, <2>2
  <2>9. b.n = Count(r, i + 1) /\ b.sc = SumTo(Gone(r), i + 1)
    BY <1>2, <2>1, <2>3, <2>4
  <2>10. RuleInv(r, i + 1, b)
    BY <1>7, <2>5, <2>6, <2>7, <2>8, <2>9 DEF RuleInv, T, K, n
  <2> QED
    BY <2>10 DEF b
<1> QED
  BY <1>10, <1>12, <1>13

\* sl merges every row by the rule.
LEMMA RuleHolds ==
    ASSUME NEW r \in Seq(Nat)
    PROVE  SlidesByTheRule(r)
<1> DEFINE n == Len(r)
<1>0. n \in Nat
  OBVIOUS
<1>1. PICK h : Merges(r, h) /\ sl(r) = h[n]
  BY SlMerges
<1> DEFINE P == {i \in 0 .. n : RuleInv(r, i, h[i])}
<1>2. 0 \in P
  <2> DEFINE a == NoneSlid(n)
  <2>1. h[0] = a
    BY <1>1 DEF Merges
  <2>2. a.row = [j \in 1 .. n |-> 0] /\ a.n = 0 /\ a.sc = 0 /\ a.fresh = FALSE /\ a \in RowType(n)
    BY <1>0 DEF NoneSlid, RowType
  <2> HIDE DEF a
  <2>3. Kept(r) \subseteq 1 .. n /\ TilesOf(r) \subseteq 1 .. n
    BY DEF Kept, TilesOf
  <2>4. KeptTo(r, 0) = {}
    BY <1>0, <2>3 DEF KeptTo
  <2>5. Count(r, 0) = 0
    BY <2>4, FS_EmptySet DEF Count
  <2>6. SumTo(Gone(r), 0) = 0
    BY SumZero
  <2>7. \A k \in 1 .. n : ~(k <= 0)
    BY <1>0
  <2>8. \A j \in Kept(r) : ~(j <= 0)
    BY <2>3, <2>7
  <2>9. \A l \in TilesOf(r) : ~LastTile(r, 0, l)
    BY <2>3, <2>7 DEF LastTile
  <2>10. \A j \in 1 .. n : a.row[j] = 0
    BY <2>2
  <2>11. RuleInv(r, 0, a)
    BY <2>2, <2>5, <2>6, <2>8, <2>9, <2>10 DEF RuleInv
  <2> QED
    BY <1>0, <2>1, <2>11
<1>3. ASSUME NEW i \in 0 .. n - 1, i \in P PROVE i + 1 \in P
  <2>1. i + 1 \in 1 .. n /\ (i + 1) - 1 = i /\ i + 1 \in 0 .. n
    BY <1>0
  <2>2. h[i + 1] = Merge(h[i], r[i + 1])
    BY <1>1, <2>1 DEF Merges
  <2>3. RuleInv(r, i, h[i])
    BY <1>3
  <2> QED
    BY <2>1, <2>2, <2>3, RuleStep
<1>4. n \in P
  <2> HIDE DEF P, n
  <2> QED
    BY <1>0, <1>2, <1>3, RowInduction
<1>5. RuleInv(r, n, sl(r))
  BY <1>1, <1>4
<1>6. Kept(r) \subseteq TilesOf(r) /\ TilesOf(r) \subseteq 1 .. n
  BY DEF Kept, TilesOf
<1>7. KeptTo(r, n) = Kept(r)
  BY <1>0, <1>6 DEF KeptTo
<1>8. Cardinality(Kept(r)) = Count(r, n) /\ Count(r, n) \in Nat
  BY <1>0, <1>7, CountIs DEF Count
<1>9. sl(r).sc = SumTo([i \in 1 .. Len(r) |-> IF i \in TilesOf(r) \ Kept(r) THEN 2 * r[i] ELSE 0], Len(r))
  BY <1>5 DEF RuleInv, Gone
<1>10. ASSUME NEW i \in Kept(r)
       PROVE  sl(r).row[Cardinality({k \in Kept(r) : k <= i})] = IF i \in Doubled(r) THEN 2 * r[i] ELSE r[i]
  <2>1. i <= n /\ \A m \in TilesOf(r) : m <= n
    BY <1>0, <1>6
  <2>2. i \in Doubled(r) <=> DoubledBy(r, i, n)
    BY <2>1 DEF Doubled, DoubledBy
  <2>3. sl(r).row[Count(r, i)] = IF DoubledBy(r, i, n) THEN 2 * r[i] ELSE r[i]
    BY <1>5, <2>1 DEF RuleInv
  <2> QED
    BY <2>2, <2>3 DEF Count, KeptTo
<1>11. \A j \in Cardinality(Kept(r)) + 1 .. Len(r) : sl(r).row[j] = 0
  <2> SUFFICES ASSUME NEW j \in Count(r, n) + 1 .. n PROVE sl(r).row[j] = 0
    BY <1>8
  <2>1. j \in 1 .. n /\ j > Count(r, n)
    BY <1>0, <1>8
  <2> QED
    BY <1>5, <2>1 DEF RuleInv
<1> QED
  BY <1>9, <1>10, <1>11 DEF SlidesByTheRule

TilesType == [play : {"on", "over"}, grid : [1 .. Dim -> [1 .. Dim -> Nat]], sc : Int, ov : BOOLEAN,
              wn : BOOLEAN, fours : Int]
\* A board that is worth the score, less its 4s.
Scored(g) == g \in TilesType /\ IsGrid(g.grid) /\ WorthOf(g.grid) = g.sc + 4 * g.fours
TilesInv ==
    \/ tiles.play = "idle"
    \/ Scored(tiles) /\ (tiles.ov <=> \A d \in Directions : Slid(tiles.grid, d) = tiles.grid)

\* What the games are made of.
LEMMA TilesAre ==
    \A play \in {"on", "over"}, grid \in [1 .. Dim -> [1 .. Dim -> Nat]], sc \in Int, ov \in BOOLEAN,
       wn \in BOOLEAN, fours \in Int :
        [play |-> play, grid |-> grid, sc |-> sc, ov |-> ov, wn |-> wn, fours |-> fours] \in TilesType
BY DEF TilesType

Fields(k) == [play |-> k.play, grid |-> k.grid, sc |-> k.sc, ov |-> k.ov, wn |-> k.wn, fours |-> k.fours]
With(k) ==
    /\ \A a, b : [k EXCEPT !.play = a, !.grid = b]
                = [play |-> a, grid |-> b, sc |-> k.sc, ov |-> k.ov, wn |-> k.wn, fours |-> k.fours]
    /\ \A a, b : [k EXCEPT !.grid = a, !.sc = b]
                = [play |-> k.play, grid |-> a, sc |-> b, ov |-> k.ov, wn |-> k.wn, fours |-> k.fours]
    /\ \A a, b : [k EXCEPT !.ov = a, !.wn = b]
                = [play |-> k.play, grid |-> k.grid, sc |-> k.sc, ov |-> a, wn |-> b, fours |-> k.fours]
    /\ \A y, x, a, b : [k EXCEPT !.grid[y][x] = a, !.fours = b]
                = [play |-> k.play, grid |-> [k.grid EXCEPT ![y][x] = a], sc |-> k.sc, ov |-> k.ov,
                   wn |-> k.wn, fours |-> b]
LEMMA TilesWith ==
    ASSUME NEW k, k = Fields(k)
    PROVE  With(k)
<1> DEFINE play == k.play
<1> DEFINE grid == k.grid
<1> DEFINE sc == k.sc
<1> DEFINE ov == k.ov
<1> DEFINE wn == k.wn
<1> DEFINE fours == k.fours
<1>0. k = [play |-> play, grid |-> grid, sc |-> sc, ov |-> ov, wn |-> wn, fours |-> fours]
  BY Zenon DEF Fields
<1> HIDE DEF play, grid, sc, ov, wn, fours
<1>1. ASSUME NEW a, NEW b
      PROVE  [k EXCEPT !.play = a, !.grid = b]
             = [play |-> a, grid |-> b, sc |-> sc, ov |-> ov, wn |-> wn, fours |-> fours]
  <2>1. [k EXCEPT !.play = a, !.grid = b] = [[k EXCEPT !.play = a] EXCEPT !.grid = b]
    BY <1>0
  <2>2. [k EXCEPT !.play = a] = [play |-> a, grid |-> grid, sc |-> sc, ov |-> ov, wn |-> wn, fours |-> fours]
    BY <1>0
  <2>3. [[play |-> a, grid |-> grid, sc |-> sc, ov |-> ov, wn |-> wn, fours |-> fours] EXCEPT !.grid = b]
        = [play |-> a, grid |-> b, sc |-> sc, ov |-> ov, wn |-> wn, fours |-> fours]
    OBVIOUS
  <2> QED
    BY <2>1, <2>2, <2>3, Zenon
<1>2. ASSUME NEW a, NEW b
      PROVE  [k EXCEPT !.grid = a, !.sc = b]
             = [play |-> play, grid |-> a, sc |-> b, ov |-> ov, wn |-> wn, fours |-> fours]
  <2>1. [k EXCEPT !.grid = a, !.sc = b] = [[k EXCEPT !.grid = a] EXCEPT !.sc = b]
    BY <1>0
  <2>2. [k EXCEPT !.grid = a] = [play |-> play, grid |-> a, sc |-> sc, ov |-> ov, wn |-> wn, fours |-> fours]
    BY <1>0
  <2>3. [[play |-> play, grid |-> a, sc |-> sc, ov |-> ov, wn |-> wn, fours |-> fours] EXCEPT !.sc = b]
        = [play |-> play, grid |-> a, sc |-> b, ov |-> ov, wn |-> wn, fours |-> fours]
    OBVIOUS
  <2> QED
    BY <2>1, <2>2, <2>3, Zenon
<1>3. ASSUME NEW a, NEW b
      PROVE  [k EXCEPT !.ov = a, !.wn = b]
             = [play |-> play, grid |-> grid, sc |-> sc, ov |-> a, wn |-> b, fours |-> fours]
  <2>1. [k EXCEPT !.ov = a, !.wn = b] = [[k EXCEPT !.ov = a] EXCEPT !.wn = b]
    BY <1>0
  <2>2. [k EXCEPT !.ov = a] = [play |-> play, grid |-> grid, sc |-> sc, ov |-> a, wn |-> wn, fours |-> fours]
    BY <1>0
  <2>3. [[play |-> play, grid |-> grid, sc |-> sc, ov |-> a, wn |-> wn, fours |-> fours] EXCEPT !.wn = b]
        = [play |-> play, grid |-> grid, sc |-> sc, ov |-> a, wn |-> b, fours |-> fours]
    OBVIOUS
  <2> QED
    BY <2>1, <2>2, <2>3, Zenon
<1>4. ASSUME NEW y, NEW x, NEW a, NEW b
      PROVE  [k EXCEPT !.grid[y][x] = a, !.fours = b]
             = [play |-> play, grid |-> [grid EXCEPT ![y][x] = a], sc |-> sc, ov |-> ov, wn |-> wn, fours |-> b]
  <2> DEFINE h == [grid EXCEPT ![y][x] = a]
  <2>1. [k EXCEPT !.grid[y][x] = a, !.fours = b] = [[k EXCEPT !.grid[y][x] = a] EXCEPT !.fours = b]
    BY <1>0
  <2>2. [k EXCEPT !.grid[y][x] = a] = [play |-> play, grid |-> h, sc |-> sc, ov |-> ov, wn |-> wn, fours |-> fours]
    BY <1>0
  <2> HIDE DEF h
  <2>3. [[play |-> play, grid |-> h, sc |-> sc, ov |-> ov, wn |-> wn, fours |-> fours] EXCEPT !.fours = b]
        = [play |-> play, grid |-> h, sc |-> sc, ov |-> ov, wn |-> wn, fours |-> b]
    OBVIOUS
  <2>4. [k EXCEPT !.grid[y][x] = a, !.fours = b]
        = [play |-> play, grid |-> h, sc |-> sc, ov |-> ov, wn |-> wn, fours |-> b]
    BY <2>1, <2>2, <2>3, Zenon
  <2> QED
    BY <2>4 DEF h
<1> QED
  BY <1>1, <1>2, <1>3, <1>4, Zenon DEF With, play, grid, sc, ov, wn, fours

\* A tile in a free place.
LEMMA SpawnedTile ==
    ASSUME NEW g, g \in TilesType, NEW s \in Spawned(g), Free(g.grid) # {}
    PROVE  \E p \in Free(g.grid), v \in {2, 4} :
               s = [play |-> g.play, grid |-> [g.grid EXCEPT ![p[1]][p[2]] = v], sc |-> g.sc, ov |-> g.ov,
                    wn |-> g.wn, fours |-> IF v = 4 THEN g.fours + 1 ELSE g.fours]
<1>1. PICK p \in Free(g.grid), v \in {2, 4} : s = WithTile(g, p, v)
  BY DEF Spawned
<1>2. With(g)
  <2>1. g = [play |-> g.play, grid |-> g.grid, sc |-> g.sc, ov |-> g.ov, wn |-> g.wn, fours |-> g.fours]
    BY DEF TilesType
  <2> QED
    BY <2>1, TilesWith, Zenon DEF Fields
<1>3. WithTile(g, p, v) = [g EXCEPT !.grid[p[1]][p[2]] = v, !.fours = IF v = 4 THEN g.fours + 1 ELSE g.fours]
  BY Zenon DEF WithTile
<1>4. s = [play |-> g.play, grid |-> [g.grid EXCEPT ![p[1]][p[2]] = v], sc |-> g.sc, ov |-> g.ov,
           wn |-> g.wn, fours |-> IF v = 4 THEN g.fours + 1 ELSE g.fours]
  BY <1>1, <1>2, <1>3, Zenon DEF With
<1> QED
  BY <1>4

\* A new tile keeps the score right; then there is a tile, and all places but one are as
\* before.
LEMMA SpawnedIs ==
    ASSUME NEW g, Scored(g), NEW s \in Spawned(g)
    PROVE  /\ Scored(s) /\ s.play = g.play
           /\ \E y, x \in 1 .. Dim : s.grid[y][x] # 0
           /\ \E p \in Places : \A q \in Places : q # p => s.grid[q[1]][q[2]] = g.grid[q[1]][q[2]]
<1>1. 1 \in 1 .. Dim
  OBVIOUS
<1>2. CASE Free(g.grid) = {}
  <2>1. s = g
    BY <1>2 DEF Spawned
  <2>2. <<1, 1>> \in Places
    BY <1>1 DEF Places
  <2>3. g.grid[1][1] # 0
    BY <1>2, <2>2 DEF Free
  <2> QED
    BY <1>1, <2>1, <2>2, <2>3
<1>3. CASE Free(g.grid) # {}
  <2>0. g \in TilesType
    BY DEF Scored
  <2>1. PICK p \in Free(g.grid), v \in {2, 4} :
            s = [play |-> g.play, grid |-> [g.grid EXCEPT ![p[1]][p[2]] = v], sc |-> g.sc, ov |-> g.ov,
                 wn |-> g.wn, fours |-> IF v = 4 THEN g.fours + 1 ELSE g.fours]
    BY <1>3, <2>0, SpawnedTile
  <2>2. p \in Places /\ p[1] \in 1 .. Dim /\ p[2] \in 1 .. Dim /\ g.grid[p[1]][p[2]] = 0
    BY DEF Free, Places
  <2> DEFINE y == p[1]
  <2> DEFINE x == p[2]
  <2> DEFINE h == [g.grid EXCEPT ![y][x] = v]
  <2>4. s = [play |-> g.play, grid |-> h, sc |-> g.sc, ov |-> g.ov, wn |-> g.wn,
             fours |-> IF v = 4 THEN g.fours + 1 ELSE g.fours]
    BY <2>1, Zenon
  <2>5. /\ IsGrid(h) /\ h[y][x] # 0
        /\ \A b, a \in 1 .. Dim : <<b, a>> # <<y, x>> => h[b][a] = g.grid[b][a]
        /\ WorthOf(h) = WorthOf(g.grid) + (IF v = 4 THEN 4 ELSE 0)
        /\ WorthOf(g.grid) \in Int
    <3>1. IsGrid(g.grid)
      BY DEF Scored
    <3> HIDE DEF y, x
    <3>2. y \in 1 .. Dim /\ x \in 1 .. Dim /\ g.grid[y][x] = 0
      BY <2>2 DEF y, x
    <3> DEFINE k == g.grid
    <3> HIDE DEF k
    <3>3. IsGrid(k)
      BY <3>1 DEF k
    <3>4. k[y][x] = 0
      BY <3>2 DEF k
    <3>5. PutIs(k, y, x, v)
      BY <3>2, <3>3, <3>4, WorthOfPut
    <3>6. PutIs(g.grid, y, x, v) /\ h = [g.grid EXCEPT ![y][x] = v]
      BY <3>5 DEF k, y, x
    <3> QED
      BY <3>6 DEF PutIs
  <2> HIDE DEF h
  <2>6. s.grid = h /\ s.sc = g.sc /\ s.play = g.play /\ s.fours = IF v = 4 THEN g.fours + 1 ELSE g.fours
    BY <2>4
  <2>7. /\ g.play \in {"on", "over"} /\ g.sc \in Int /\ g.ov \in BOOLEAN /\ g.wn \in BOOLEAN
        /\ g.fours \in Int /\ WorthOf(g.grid) = g.sc + 4 * g.fours
    BY DEF Scored, TilesType
  <2>8. h \in [1 .. Dim -> [1 .. Dim -> Nat]]
    BY <2>5 DEF IsGrid
  <2>9. (IF v = 4 THEN g.fours + 1 ELSE g.fours) \in Int
    BY <2>7
  <2>10. s \in TilesType
    BY <2>4, <2>7, <2>8, <2>9 DEF TilesType
  <2>11. WorthOf(h) = s.sc + 4 * s.fours
    <3>1. CASE v = 4
      BY <2>5, <2>6, <2>7, <3>1
    <3>2. CASE v # 4
      BY <2>5, <2>6, <2>7, <3>2
    <3> QED
      BY <3>1, <3>2
  <2>12. Scored(s)
    BY <2>5, <2>6, <2>10, <2>11 DEF Scored
  <2>13. \A q \in Places : q # p => s.grid[q[1]][q[2]] = g.grid[q[1]][q[2]]
    <3> SUFFICES ASSUME NEW q \in Places, q # p PROVE h[q[1]][q[2]] = g.grid[q[1]][q[2]]
      BY <2>6
    <3>1. q = <<q[1], q[2]>> /\ p = <<y, x>> /\ q[1] \in 1 .. Dim /\ q[2] \in 1 .. Dim
      BY <2>2 DEF Places
    <3> QED
      BY <2>5, <3>1
  <2> QED
    BY <2>2, <2>5, <2>6, <2>12, <2>13
<1> QED
  BY <1>2, <1>3

LEMMA NewGameIs ==
    ASSUME NEW s \in NewGames
    PROVE  Scored(s) /\ s.ov = FALSE /\ can(s.grid) /\ \E y, x \in 1 .. Dim : s.grid[y][x] # 0
<1> DEFINE e == [NoTiles EXCEPT !.play = "on", !.grid = Empty2048]
<1>1. PICK g \in Spawned(e) : s \in Spawned(g)
  BY DEF NewGames
<1>2. e = [play |-> "on", grid |-> Empty2048, sc |-> 0, ov |-> FALSE, wn |-> FALSE, fours |-> 0]
  <2>1. NoTiles = Fields(NoTiles) /\ NoTiles.sc = 0 /\ NoTiles.ov = FALSE /\ NoTiles.wn = FALSE /\ NoTiles.fours = 0
    BY DEF NoTiles, Fields
  <2>2. With(NoTiles)
    BY <2>1, TilesWith, Zenon
  <2>3. e = [play |-> "on", grid |-> Empty2048, sc |-> NoTiles.sc, ov |-> NoTiles.ov, wn |-> NoTiles.wn,
             fours |-> NoTiles.fours]
    BY <2>2, Zenon DEF With
  <2> QED
    BY <2>1, <2>3, Zenon
<1>3. Scored(e)
  <2>1. IsGrid(Empty2048)
    BY DEF IsGrid, Empty2048
  <2>2. WorthOf(Empty2048) = 0
    <3> DEFINE row(y) == [x \in 1 .. Dim |-> Worth[Empty2048[y][x]]]
    <3> DEFINE rows == [y \in 1 .. Dim |-> SumTo(row(y), Dim)]
    <3>1. \A y, x \in 1 .. Dim : row(y)[x] = 0
      BY WorthValues DEF Empty2048
    <3>2. \A y \in 1 .. Dim : SumTo(row(y), Dim) = 0
      <4> HIDE DEF row
      <4> QED
        BY <3>1, SumNothing
    <3>3. \A y \in 1 .. Dim : rows[y] = 0
      BY <3>2
    <3>4. SumTo(rows, Dim) = 0
      <4> HIDE DEF rows
      <4> QED
        BY <3>3, SumNothing
    <3> QED
      BY <3>4, Zenon DEF WorthOf
  <2>3. Empty2048 \in [1 .. Dim -> [1 .. Dim -> Nat]]
    BY DEF Empty2048
  <2>4. e.grid = Empty2048 /\ e.sc = 0 /\ e.fours = 0
    BY <1>2
  <2>5. e \in TilesType
    <3>1. "on" \in {"on", "over"} /\ 0 \in Int /\ FALSE \in BOOLEAN
      OBVIOUS
    <3>2. [play |-> "on", grid |-> Empty2048, sc |-> 0, ov |-> FALSE, wn |-> FALSE, fours |-> 0] \in TilesType
      BY <2>3, <3>1, TilesAre, Zenon
    <3> QED
      BY <1>2, <3>2, Zenon
  <2> HIDE DEF e
  <2> QED
    BY <2>1, <2>2, <2>4, <2>5 DEF Scored
<1>4. e.grid = Empty2048
  BY <1>2
<1> HIDE DEF e
<1>5. /\ Scored(g)
      /\ \E p \in Places : \A q \in Places : q # p => g.grid[q[1]][q[2]] = e.grid[q[1]][q[2]]
  BY <1>1, <1>3, SpawnedIs
<1>6. /\ Scored(s)
      /\ \E y, x \in 1 .. Dim : s.grid[y][x] # 0
      /\ \E p \in Places : \A q \in Places : q # p => s.grid[q[1]][q[2]] = g.grid[q[1]][q[2]]
  BY <1>1, <1>5, SpawnedIs
<1>7. can(s.grid)
  <2>1. PICK p \in Places : \A q \in Places : q # p => g.grid[q[1]][q[2]] = e.grid[q[1]][q[2]]
    BY <1>5
  <2>2. PICK o \in Places : \A q \in Places : q # o => s.grid[q[1]][q[2]] = g.grid[q[1]][q[2]]
    BY <1>6
  <2>3. <<1, 1>> \in Places /\ <<1, 2>> \in Places /\ <<2, 1>> \in Places
    BY DEF Places
  <2>4. \E q \in Places : q # p /\ q # o
    BY <2>3
  <2>5. PICK q \in Places : q # p /\ q # o
    BY <2>4
  <2>6. e.grid[q[1]][q[2]] = 0
    BY <1>4, <2>5 DEF Empty2048, Places
  <2>7. s.grid[q[1]][q[2]] = 0
    BY <2>1, <2>2, <2>5, <2>6
  <2> QED
    BY <2>5, <2>7 DEF can, Free
<1>8. e.ov = FALSE
  BY <1>2 DEF e
<1>9. s.ov = FALSE
  <2>1. ASSUME NEW k, NEW m \in Spawned(k), Scored(k) PROVE m.ov = k.ov
    <3>1. CASE Free(k.grid) = {}
      BY <3>1 DEF Spawned
    <3>2. CASE Free(k.grid) # {}
      <4>1. k \in TilesType
        BY <2>1 DEF Scored
      <4>2. PICK p \in Free(k.grid), v \in {2, 4} :
                m = [play |-> k.play, grid |-> [k.grid EXCEPT ![p[1]][p[2]] = v], sc |-> k.sc, ov |-> k.ov,
                     wn |-> k.wn, fours |-> IF v = 4 THEN k.fours + 1 ELSE k.fours]
        BY <3>2, <4>1, SpawnedTile
      <4> DEFINE h == [k.grid EXCEPT ![p[1]][p[2]] = v]
      <4> DEFINE fours == IF v = 4 THEN k.fours + 1 ELSE k.fours
      <4>3. m = [play |-> k.play, grid |-> h, sc |-> k.sc, ov |-> k.ov, wn |-> k.wn, fours |-> fours]
        BY <4>2, Zenon
      <4> HIDE DEF h, fours
      <4> QED
        BY <4>3
    <3> QED
      BY <3>1, <3>2
  <2> QED
    BY <1>1, <1>3, <1>5, <1>8, <2>1
<1> QED
  BY <1>6, <1>7, <1>9

LEMMA TilesBegin ==
    ASSUME tiles' \in NewGames
    PROVE  TilesInv'
<1>1. /\ Scored(tiles') /\ tiles'.ov = FALSE /\ can(tiles'.grid)
      /\ \E y, x \in 1 .. Dim : tiles'.grid[y][x] # 0
  BY NewGameIs
<1>2. PICK y \in 1 .. Dim, x \in 1 .. Dim : tiles'.grid[y][x] # 0
  BY <1>1
<1>3. IsGrid(tiles'.grid)
  BY <1>1 DEF Scored
<1>4. ~(\A d \in Directions : Slid(tiles'.grid, d) = tiles'.grid)
  <2> DEFINE g == tiles'.grid
  <2>1. IsGrid(g) /\ can(g) /\ g[y][x] # 0
    BY <1>1, <1>2, <1>3
  <2> HIDE DEF g
  <2>2. ~can(g) <=> \A d \in Directions : Slid(g, d) = g
    BY <2>1, CanMove
  <2> QED
    BY <2>1, <2>2 DEF g
<1> QED
  BY <1>1, <1>4 DEF TilesInv

LEMMA TilesMove ==
    ASSUME TilesInv, NEW d \in Directions, handleMove(d)
    PROVE  TilesInv'
<1>1. tiles.play = "on" /\ Scored(tiles)
  BY DEF handleMove, TilesInv
<1> DEFINE m == [tiles EXCEPT !.grid = Slid(@, d), !.sc = @ + Gain(tiles.grid, d)]
<1>2. PICK g \in Spawned(m) : tiles' = [g EXCEPT !.ov = ~can(g.grid), !.wn = Reached(g.grid)]
  BY DEF handleMove
<1>3. /\ tiles = [play |-> tiles.play, grid |-> tiles.grid, sc |-> tiles.sc, ov |-> tiles.ov,
                  wn |-> tiles.wn, fours |-> tiles.fours]
      /\ tiles.sc \in Int /\ tiles.ov \in BOOLEAN /\ tiles.wn \in BOOLEAN /\ tiles.fours \in Int
      /\ IsGrid(tiles.grid) /\ WorthOf(tiles.grid) = tiles.sc + 4 * tiles.fours
  BY <1>1 DEF Scored, TilesType
<1>4. m = [play |-> "on", grid |-> Slid(tiles.grid, d), sc |-> tiles.sc + Gain(tiles.grid, d),
           ov |-> tiles.ov, wn |-> tiles.wn, fours |-> tiles.fours]
  <2>1. With(tiles)
    BY <1>3, TilesWith, Zenon DEF Fields
  <2>2. m = [play |-> tiles.play, grid |-> Slid(tiles.grid, d), sc |-> tiles.sc + Gain(tiles.grid, d),
             ov |-> tiles.ov, wn |-> tiles.wn, fours |-> tiles.fours]
    BY <2>1, Zenon DEF With
  <2> QED
    BY <1>1, <2>2, Zenon
<1>5. IsGrid(Slid(tiles.grid, d))
  BY <1>3, SlidGrid
<1>6. /\ WorthOf(Slid(tiles.grid, d)) = WorthOf(tiles.grid) + Gain(tiles.grid, d)
      /\ WorthOf(tiles.grid) \in Int /\ Gain(tiles.grid, d) \in Int
  BY <1>3, WorthOfSlid
<1> HIDE DEF m
<1>7. Scored(m)
  <2>1. m.grid = Slid(tiles.grid, d) /\ m.sc = tiles.sc + Gain(tiles.grid, d) /\ m.fours = tiles.fours
    BY <1>4
  <2>2. WorthOf(m.grid) = m.sc + 4 * m.fours
    BY <1>3, <1>6, <2>1
  <2>3. Slid(tiles.grid, d) \in [1 .. Dim -> [1 .. Dim -> Nat]] /\ tiles.sc + Gain(tiles.grid, d) \in Int
    BY <1>3, <1>5, <1>6 DEF IsGrid
  <2>4. m \in TilesType
    BY <1>3, <1>4, <2>3 DEF TilesType
  <2> QED
    BY <1>5, <2>1, <2>2, <2>4 DEF Scored
<1>8. Scored(g) /\ \E y, x \in 1 .. Dim : g.grid[y][x] # 0
  BY <1>7, SpawnedIs
<1>9. PICK y \in 1 .. Dim, x \in 1 .. Dim : g.grid[y][x] # 0
  BY <1>8
<1>10. /\ g = [play |-> g.play, grid |-> g.grid, sc |-> g.sc, ov |-> g.ov, wn |-> g.wn, fours |-> g.fours]
       /\ g.play \in {"on", "over"} /\ g.grid \in [1 .. Dim -> [1 .. Dim -> Nat]]
       /\ g.sc \in Int /\ g.fours \in Int /\ IsGrid(g.grid) /\ WorthOf(g.grid) = g.sc + 4 * g.fours
  BY <1>8 DEF Scored, TilesType
<1>11. can(g.grid) \in BOOLEAN /\ Reached(g.grid) \in BOOLEAN
  BY DEF can, Reached
<1>12. tiles' = [play |-> g.play, grid |-> g.grid, sc |-> g.sc, ov |-> ~can(g.grid), wn |-> Reached(g.grid),
                 fours |-> g.fours]
  <2>1. With(g)
    BY <1>10, TilesWith, Zenon DEF Fields
  <2> QED
    BY <1>2, <2>1, Zenon DEF With
<1>13. tiles'.grid = g.grid /\ tiles'.sc = g.sc /\ tiles'.fours = g.fours /\ tiles'.ov = ~can(g.grid)
  BY <1>12
<1>14. tiles' \in TilesType
  BY <1>10, <1>11, <1>12 DEF TilesType
<1>15. Scored(tiles')
  BY <1>10, <1>13, <1>14 DEF Scored
<1>16. ~can(g.grid) <=> \A c \in Directions : Slid(g.grid, c) = g.grid
  <2> DEFINE k == g.grid
  <2>1. IsGrid(k) /\ k[y][x] # 0
    BY <1>9, <1>10
  <2> HIDE DEF k
  <2>2. ~can(k) <=> \A c \in Directions : Slid(k, c) = k
    BY <2>1, CanMove
  <2> QED
    BY <2>2 DEF k
<1> QED
  BY <1>13, <1>15, <1>16 DEF TilesInv

\* TilesInv holds at first and is kept.
LEMMA TilesInvInit == TilesInit => TilesInv
BY DEF TilesInit, NoTiles, TilesInv

LEMMA TilesInvStep == TilesInv /\ [TilesNext]_tiles => TilesInv'
<1> SUFFICES ASSUME TilesInv, [TilesNext]_tiles PROVE TilesInv'
  OBVIOUS
<1>1. CASE Play2048
  BY <1>1, TilesBegin DEF Play2048
<1>2. CASE \E d \in Directions : handleMove(d)
  BY <1>2, TilesMove
<1>3. CASE Restart2048
  BY <1>3, TilesBegin DEF Restart2048
<1>4. CASE Quit2048
  <2>1. tiles.play = "on" /\ tiles' = [tiles EXCEPT !.play = "over"] /\ Scored(tiles)
        /\ (tiles.ov <=> \A d \in Directions : Slid(tiles.grid, d) = tiles.grid)
    BY <1>4 DEF Quit2048, TilesInv
  <2>2. /\ tiles' \in TilesType /\ tiles'.grid = tiles.grid /\ tiles'.sc = tiles.sc
        /\ tiles'.fours = tiles.fours /\ tiles'.ov = tiles.ov
    BY <2>1 DEF Scored, TilesType
  <2> QED
    BY <2>1, <2>2 DEF Scored, TilesInv
<1>5. CASE UNCHANGED tiles
  BY <1>5 DEF TilesInv
<1> QED
  BY <1>1, <1>2, <1>3, <1>4, <1>5 DEF TilesNext

LEMMA TilesInvImplies == TilesInv => ScoreIsEarned
<1>1. SlidesByTheRuleAlways
  BY RuleHolds DEF SlidesByTheRuleAlways
<1> QED
  BY <1>1 DEF TilesInv, Scored, TilesType, ScoreIsEarned

\* The game of 2048 by itself: the score is what the tiles are worth, and the game is over
\* exactly when no direction moves a tile.
THEOREM ScoreIsEarnedHolds == TilesInit /\ [][TilesNext]_tiles => []ScoreIsEarned
BY TilesInvInit, TilesInvStep, TilesInvImplies, PTL

HIDE TilesAssumption

-------------------------------------------------------------------------------
(* Solitaire: each card is in one place and lies as it may, for decks of   *)
(* any size and any deal.                                                  *)

USE SolAssumption

Card == [s : Suits, r : 1 .. Ranks, f : BOOLEAN]
Bare(c) == [s |-> c.s, r |-> c.r]
Descends(p) == \A k \in 1 .. Len(p) - 1 : p[k].f => p[k + 1].f /\ LiesOn(p[k + 1], p[k])
\* What a column, and a foundation, may be.
Column(p) == p \in Seq(Card) /\ Descends(p) /\ (p # <<>> => p[Len(p)].f)
Suited(p) == p \in Seq(Card) /\ \A k \in 1 .. Len(p) : p[k].r = k /\ p[k].s = p[1].s

LEMMA CardsAre ==
    ASSUME NEW p \in Seq(Card)
    PROVE  /\ Len(p) \in Nat /\ \A i \in 1 .. Len(p) : p[i] \in Card
           /\ \A x : x \in CardsIn(p) <=> \E i \in 1 .. Len(p) : x = Bare(p[i])
BY DEF CardsIn, Bare

LEMMA CardIs ==
    ASSUME NEW c \in Card
    PROVE  /\ c.s \in Suits /\ c.r \in 1 .. Ranks /\ c.f \in BOOLEAN
           /\ Shown(c) \in Card /\ Shown(c).f = TRUE /\ Shown(c).r = c.r /\ Shown(c).s = c.s
           /\ Bare(Shown(c)) = Bare(c) /\ Bare(c) \in Deck
BY DEF Card, Shown, Bare, Deck

\* A column of which the cards from i + 1 on have been taken, and the next turned up.
LEMMA CutColumn ==
    ASSUME NEW p, Column(p), NEW i \in 0 .. Len(p)
    PROVE  /\ Column(face(SubSeq(p, 1, i))) /\ Len(face(SubSeq(p, 1, i))) = i
           /\ \A x : x \in CardsIn(face(SubSeq(p, 1, i))) <=> \E k \in 1 .. i : x = Bare(p[k])
<1> DEFINE q == SubSeq(p, 1, i)
<1> DEFINE t == face(q)
<1>1. p \in Seq(Card) /\ Len(p) \in Nat /\ i \in Nat /\ \A k \in 1 .. Len(p) : p[k] \in Card
  BY DEF Column
<1>2. q \in Seq(Card) /\ Len(q) = i /\ \A k \in 1 .. i : q[k] = p[k]
  <2>1. 1 \in Int /\ i \in Int /\ \A k \in 1 .. i : p[k] \in Card
    BY <1>1
  <2>2. /\ SubSeq(p, 1, i) \in Seq(Card) /\ Len(SubSeq(p, 1, i)) = IF 1 <= i THEN i - 1 + 1 ELSE 0
        /\ \A k \in 1 .. i - 1 + 1 : SubSeq(p, 1, i)[k] = p[1 + k - 1]
    BY <2>1, SubSeqProperties
  <2>3. \A k \in 1 .. i : k \in 1 .. i - 1 + 1 /\ 1 + k - 1 = k
    BY <1>1
  <2> QED
    BY <1>1, <2>2, <2>3
<1> HIDE DEF q
<1>3. CASE i = 0
  <2>1. q = <<>>
    BY <1>2, <1>3
  <2>2. t = <<>>
    BY <2>1 DEF face
  <2>3. Len(<<>>) = 0 /\ <<>> \in Seq(Card)
    OBVIOUS
  <2>4. Column(<<>>)
    BY <2>3 DEF Column, Descends
  <2>5. \A x : x \in CardsIn(<<>>) <=> \E k \in 1 .. i : x = Bare(p[k])
    <3>1. ASSUME NEW x PROVE x \in CardsIn(<<>>) <=> \E k \in 1 .. Len(<<>>) : x = Bare(<<>>[k])
      BY <2>3, CardsAre
    <3>2. Len(<<>>) = 0 /\ 1 .. 0 = {}
      OBVIOUS
    <3> QED
      BY <1>3, <3>1, <3>2
  <2> QED
    BY <1>3, <2>2, <2>3, <2>4, <2>5 DEF q
<1>4. CASE i > 0
  <2>1. q # <<>> /\ i \in 1 .. Len(p) /\ Last(q) = p[i] /\ p[i] \in Card
    BY <1>1, <1>2, <1>4 DEF Last
  <2> DEFINE u == SubSeq(q, 1, i - 1)
  <2>2. u \in Seq(Card) /\ Len(u) = i - 1 /\ \A k \in 1 .. i - 1 : u[k] = p[k]
    <3>1. 1 \in Int /\ i - 1 \in Int /\ \A k \in 1 .. i - 1 : k \in 1 .. i
      BY <1>1
    <3>2. \A k \in 1 .. i - 1 : q[k] \in Card /\ q[k] = p[k]
      BY <1>1, <1>2, <3>1
    <3>3. /\ SubSeq(q, 1, i - 1) \in Seq(Card)
          /\ Len(SubSeq(q, 1, i - 1)) = IF 1 <= i - 1 THEN (i - 1) - 1 + 1 ELSE 0
          /\ \A k \in 1 .. (i - 1) - 1 + 1 : SubSeq(q, 1, i - 1)[k] = q[1 + k - 1]
      BY <3>1, <3>2, SubSeqProperties
    <3>4. \A k \in 1 .. i - 1 : k \in 1 .. (i - 1) - 1 + 1 /\ 1 + k - 1 = k
      BY <1>1
    <3> QED
      BY <1>1, <1>4, <3>2, <3>3, <3>4
  <2>3. t = Append(u, Shown(p[i]))
    BY <1>2, <2>1 DEF face, Front
  <2> HIDE DEF u
  <2>4. Shown(p[i]) \in Card /\ Shown(p[i]).f = TRUE /\ Shown(p[i]).r = p[i].r /\ Shown(p[i]).s = p[i].s
        /\ Bare(Shown(p[i])) = Bare(p[i])
    BY <2>1, CardIs
  <2>5. /\ Append(u, Shown(p[i])) \in Seq(Card) /\ Append(u, Shown(p[i])) # <<>>
        /\ Len(Append(u, Shown(p[i]))) = Len(u) + 1
        /\ \A k \in 1 .. Len(u) : Append(u, Shown(p[i]))[k] = u[k]
        /\ Append(u, Shown(p[i]))[Len(u) + 1] = Shown(p[i])
    BY <2>2, <2>4, AppendProperties
  <2> HIDE DEF t
  <2>6. t \in Seq(Card) /\ Len(t) = i /\ t[i] = Shown(p[i]) /\ \A k \in 1 .. i - 1 : t[k] = p[k]
    BY <1>1, <2>2, <2>3, <2>5
  <2>7. ASSUME NEW k \in 1 .. i - 1, t[k].f PROVE t[k + 1].f /\ LiesOn(t[k + 1], t[k])
    <3>1. k \in 1 .. Len(p) - 1 /\ t[k] = p[k]
      BY <1>1, <2>6
    <3>2. p[k + 1].f /\ LiesOn(p[k + 1], p[k])
      BY <2>7, <3>1 DEF Column, Descends
    <3>3. CASE k + 1 = i
      <4>1. t[k + 1].s = p[k + 1].s /\ t[k + 1].r = p[k + 1].r /\ t[k + 1].f
        BY <2>4, <2>6, <3>3
      <4>2. t[k].f = p[k].f /\ (LiesOn(t[k + 1], t[k]) <=> LiesOn(t[k + 1], p[k]))
        BY <3>1, Zenon
      <4> QED
        <5>1. LiesOn(p[k + 1], p[k]) => LiesOn(t[k + 1], p[k])
          BY <4>1 DEF LiesOn
        <5> QED
          BY <3>2, <4>1, <4>2, <5>1, Zenon
    <3>4. CASE k + 1 # i
      <4>1. k + 1 \in 1 .. i - 1
        BY <1>1, <3>4
      <4> QED
        BY <2>6, <3>1, <3>2, <4>1
    <3> QED
      BY <3>3, <3>4
  <2>8. Column(t)
    BY <2>4, <2>6, <2>7 DEF Column, Descends
  <2>9. \A k \in 1 .. i : Bare(t[k]) = Bare(p[k])
    <3> SUFFICES ASSUME NEW k \in 1 .. i PROVE Bare(t[k]) = Bare(p[k])
      OBVIOUS
    <3>1. k = i \/ k \in 1 .. i - 1
      BY <1>1
    <3> QED
      BY <2>4, <2>6, <3>1
  <2>10. \A x : x \in CardsIn(t) <=> \E k \in 1 .. i : x = Bare(p[k])
    <3>1. \A x : x \in CardsIn(t) <=> \E k \in 1 .. Len(t) : x = Bare(t[k])
      BY <2>6, CardsAre, Zenon
    <3>2. Len(t) = i
      BY <2>6
    <3> QED
      BY <2>9, <3>1, <3>2, Zenon
  <2> QED
    BY <2>6, <2>8, <2>10 DEF t, q
<1> QED
  BY <1>1, <1>3, <1>4

\* A column on which open cards in order have been laid.
LEMMA JoinColumn ==
    ASSUME NEW p, Column(p), NEW q, Column(q), q # <<>>, q[1].f, p # <<>> => LiesOn(q[1], p[Len(p)])
    PROVE  /\ Column(p \o q) /\ Len(p \o q) = Len(p) + Len(q)
           /\ \A x : x \in CardsIn(p \o q) <=> x \in CardsIn(p) \/ x \in CardsIn(q)
<1>1. /\ p \in Seq(Card) /\ q \in Seq(Card) /\ Len(p) \in Nat /\ Len(q) \in Nat /\ Len(q) >= 1
      /\ Descends(p) /\ Descends(q) /\ q[Len(q)].f
      /\ p # <<>> => p[Len(p)].f
  BY DEF Column
<1> DEFINE t == p \o q
<1>2. t \in Seq(Card) /\ Len(t) = Len(p) + Len(q)
      /\ \A i \in 1 .. Len(p) + Len(q) : t[i] = IF i <= Len(p) THEN p[i] ELSE q[i - Len(p)]
  BY <1>1, ConcatProperties
<1> HIDE DEF t
<1>3. /\ \A i \in 1 .. Len(p) : t[i] = p[i]
      /\ \A i \in 1 .. Len(q) : t[i + Len(p)] = q[i]
      /\ \A i \in 1 .. Len(t) : i \in 1 .. Len(p) \/ \E j \in 1 .. Len(q) : i = j + Len(p)
  <2>1. \A i \in 1 .. Len(p) : t[i] = p[i]
    BY <1>1, <1>2
  <2>2. ASSUME NEW i \in 1 .. Len(q) PROVE t[i + Len(p)] = q[i]
    <3>1. i + Len(p) \in 1 .. Len(p) + Len(q) /\ ~(i + Len(p) <= Len(p)) /\ i + Len(p) - Len(p) = i
      BY <1>1
    <3> QED
      BY <1>2, <3>1
  <2>3. ASSUME NEW i \in 1 .. Len(t), i \notin 1 .. Len(p) PROVE \E j \in 1 .. Len(q) : i = j + Len(p)
    <3>1. i - Len(p) \in 1 .. Len(q) /\ i = (i - Len(p)) + Len(p)
      BY <1>1, <1>2, <2>3
    <3> QED
      BY <3>1
  <2> QED
    BY <2>1, <2>2, <2>3
<1>4. ASSUME NEW k \in 1 .. Len(t) - 1, t[k].f PROVE t[k + 1].f /\ LiesOn(t[k + 1], t[k])
  <2>1. CASE k < Len(p)
    <3>1. k \in 1 .. Len(p) /\ k + 1 \in 1 .. Len(p) /\ k \in 1 .. Len(p) - 1
      BY <1>1, <1>2, <2>1
    <3>2. t[k] = p[k] /\ t[k + 1] = p[k + 1]
      BY <1>3, <3>1
    <3>4. Descends(p) /\ p[k].f
      BY <1>1, <1>4, <3>2
    <3>3. p[k + 1].f /\ LiesOn(p[k + 1], p[k])
      BY <3>1, <3>4 DEF Descends
    <3> QED
      BY <3>2, <3>3
  <2>2. CASE k = Len(p)
    <3>1. k \in 1 .. Len(p) /\ 1 \in 1 .. Len(q) /\ k + 1 = 1 + Len(p) /\ p # <<>>
      BY <1>1, <1>2, <2>2
    <3>2. t[k] = p[Len(p)] /\ t[k + 1] = q[1]
      BY <1>3, <2>2, <3>1
    <3> QED
      BY <3>1, <3>2
  <2>3. CASE k > Len(p)
    <3> DEFINE j == k - Len(p)
    <3>1. j \in 1 .. Len(q) - 1 /\ j \in 1 .. Len(q) /\ j + 1 \in 1 .. Len(q)
          /\ k = j + Len(p) /\ k + 1 = (j + 1) + Len(p)
      BY <1>1, <1>2, <2>3
    <3> HIDE DEF j
    <3>2. t[k] = q[j] /\ t[k + 1] = q[j + 1]
      BY <1>3, <3>1
    <3>3. Descends(q) /\ q[j].f
      BY <1>1, <1>4, <3>2
    <3>4. q[j + 1].f /\ LiesOn(q[j + 1], q[j])
      BY <3>1, <3>3 DEF Descends
    <3> QED
      BY <3>2, <3>4
  <2> QED
    BY <1>1, <1>2, <2>1, <2>2, <2>3
<1>5. t[Len(t)].f
  <2>1. Len(q) \in 1 .. Len(q) /\ Len(t) = Len(q) + Len(p)
    BY <1>1, <1>2
  <2> QED
    BY <1>1, <1>3, <2>1
<1>6. Column(t)
  BY <1>2, <1>4, <1>5 DEF Column, Descends
<1>7. ASSUME NEW x PROVE x \in CardsIn(t) <=> x \in CardsIn(p) \/ x \in CardsIn(q)
  <2>1. ASSUME x \in CardsIn(t) PROVE x \in CardsIn(p) \/ x \in CardsIn(q)
    <3>1. PICK i \in 1 .. Len(t) : x = Bare(t[i])
      BY <1>2, <2>1, CardsAre
    <3>2. CASE i \in 1 .. Len(p)
      BY <1>1, <1>3, <3>1, <3>2, CardsAre
    <3>3. CASE \E j \in 1 .. Len(q) : i = j + Len(p)
      BY <1>1, <1>3, <3>1, <3>3, CardsAre
    <3> QED
      BY <1>3, <3>2, <3>3
  <2>2. ASSUME x \in CardsIn(p) PROVE x \in CardsIn(t)
    <3>1. PICK i \in 1 .. Len(p) : x = Bare(p[i])
      BY <1>1, <2>2, CardsAre
    <3>2. i \in 1 .. Len(t)
      BY <1>1, <1>2
    <3> QED
      BY <1>2, <1>3, <3>1, <3>2, CardsAre
  <2>3. ASSUME x \in CardsIn(q) PROVE x \in CardsIn(t)
    <3>1. PICK i \in 1 .. Len(q) : x = Bare(q[i])
      BY <1>1, <2>3, CardsAre
    <3>2. i + Len(p) \in 1 .. Len(t)
      BY <1>1, <1>2
    <3> QED
      BY <1>2, <1>3, <3>1, <3>2, CardsAre
  <2> QED
    BY <2>1, <2>2, <2>3
<1> QED
  BY <1>2, <1>6, <1>7 DEF t

\* A pile without its last card.
LEMMA FrontIs ==
    ASSUME NEW p \in Seq(Card), p # <<>>
    PROVE  /\ Front(p) \in Seq(Card) /\ Len(Front(p)) = Len(p) - 1 /\ Len(p) \in Nat \ {0}
           /\ \A i \in 1 .. Len(p) - 1 : Front(p)[i] = p[i]
           /\ Last(p) = p[Len(p)] /\ Last(p) \in Card
           /\ \A x : x \in CardsIn(p) <=> x \in CardsIn(Front(p)) \/ x = Bare(Last(p))
<1>1. Len(p) \in Nat \ {0} /\ \A i \in 1 .. Len(p) : p[i] \in Card
  OBVIOUS
<1> DEFINE n == Len(p) - 1
<1>2. n \in Nat /\ n \in Int /\ 1 \in Int /\ \A i \in 1 .. n : p[i] \in Card
  BY <1>1
<1>3. /\ SubSeq(p, 1, n) \in Seq(Card) /\ Len(SubSeq(p, 1, n)) = IF 1 <= n THEN n - 1 + 1 ELSE 0
      /\ \A k \in 1 .. n - 1 + 1 : SubSeq(p, 1, n)[k] = p[1 + k - 1]
  <2> HIDE DEF n
  <2> QED
    BY <1>2, SubSeqProperties
<1>4. Front(p) = SubSeq(p, 1, n)
  BY DEF Front
<1> HIDE DEF n
<1>5. \A k \in 1 .. n : k \in 1 .. n - 1 + 1 /\ 1 + k - 1 = k
  BY <1>2
<1>6. Front(p) \in Seq(Card) /\ Len(Front(p)) = n /\ \A i \in 1 .. n : Front(p)[i] = p[i]
  BY <1>2, <1>3, <1>4, <1>5
<1>7. Last(p) = p[Len(p)] /\ Last(p) \in Card
  BY <1>1 DEF Last
<1>8. ASSUME NEW x PROVE x \in CardsIn(p) <=> x \in CardsIn(Front(p)) \/ x = Bare(Last(p))
  <2>1. \A i \in 1 .. Len(p) : i = Len(p) \/ i \in 1 .. n
    BY <1>1 DEF n
  <2>2. Len(p) \in 1 .. Len(p) /\ \A i \in 1 .. n : i \in 1 .. Len(p)
    BY <1>1 DEF n
  <2>3. x \in CardsIn(p) <=> \E i \in 1 .. Len(p) : x = Bare(p[i])
    BY CardsAre
  <2>4. x \in CardsIn(Front(p)) <=> \E i \in 1 .. n : x = Bare(Front(p)[i])
    BY <1>6, CardsAre
  <2> QED
    BY <1>6, <1>7, <2>1, <2>2, <2>3, <2>4
<1> QED
  BY <1>1, <1>6, <1>7, <1>8 DEF n

\* A pile with one more.
LEMMA MoreIs ==
    ASSUME NEW p \in Seq(Card), NEW c \in Card
    PROVE  /\ Append(p, c) \in Seq(Card) /\ Len(Append(p, c)) = Len(p) + 1 /\ Append(p, c) # <<>>
           /\ \A i \in 1 .. Len(p) : Append(p, c)[i] = p[i]
           /\ Append(p, c)[Len(p) + 1] = c
           /\ \A x : x \in CardsIn(Append(p, c)) <=> x \in CardsIn(p) \/ x = Bare(c)
<1>1. /\ Append(p, c) \in Seq(Card) /\ Len(Append(p, c)) = Len(p) + 1 /\ Append(p, c) # <<>>
      /\ \A i \in 1 .. Len(p) : Append(p, c)[i] = p[i]
      /\ Append(p, c)[Len(p) + 1] = c
  BY AppendProperties
<1>2. Len(p) \in Nat
  OBVIOUS
<1> DEFINE q == Append(p, c)
<1> HIDE DEF q
<1>3. \A i \in 1 .. Len(q) : i = Len(p) + 1 \/ i \in 1 .. Len(p)
  BY <1>1, <1>2 DEF q
<1>4. Len(p) + 1 \in 1 .. Len(q) /\ \A i \in 1 .. Len(p) : i \in 1 .. Len(q)
  BY <1>1, <1>2 DEF q
<1>5. ASSUME NEW x PROVE x \in CardsIn(q) <=> x \in CardsIn(p) \/ x = Bare(c)
  <2>1. x \in CardsIn(p) <=> \E i \in 1 .. Len(p) : x = Bare(p[i])
    BY CardsAre
  <2>2. x \in CardsIn(q) <=> \E i \in 1 .. Len(q) : x = Bare(q[i])
    BY <1>1, CardsAre DEF q
  <2>3. q[Len(p) + 1] = c /\ \A i \in 1 .. Len(p) : q[i] = p[i]
    BY <1>1 DEF q
  <2> QED
    BY <1>3, <1>4, <2>1, <2>2, <2>3
<1> QED
  BY <1>1, <1>5 DEF q

LEMMA ReverseIs ==
    ASSUME NEW p \in Seq(Card)
    PROVE  /\ Reverse(p) \in Seq(Card) /\ Len(Reverse(p)) = Len(p)
           /\ \A x : x \in CardsIn(Reverse(p)) <=> x \in CardsIn(p)
<1> DEFINE n == Len(p)
<1>1. n \in Nat /\ \A i \in 1 .. n : p[i] \in Card /\ (n - i) + 1 \in 1 .. n /\ (n - ((n - i) + 1)) + 1 = i
  OBVIOUS
<1>2. Reverse(p) = [i \in 1 .. n |-> p[(n - i) + 1]]
  BY DEF Reverse
<1>3. Reverse(p) \in [1 .. n -> Card]
  BY <1>1, <1>2
<1>4. Reverse(p) \in Seq(Card) /\ Len(Reverse(p)) = n /\ \A i \in 1 .. n : Reverse(p)[i] = p[(n - i) + 1]
  BY <1>1, <1>2, <1>3
<1> HIDE DEF n
<1>5. ASSUME NEW x PROVE x \in CardsIn(Reverse(p)) <=> x \in CardsIn(p)
  <2>1. x \in CardsIn(p) <=> \E i \in 1 .. n : x = Bare(p[i])
    BY CardsAre DEF n
  <2>2. x \in CardsIn(Reverse(p)) <=> \E i \in 1 .. n : x = Bare(Reverse(p)[i])
    BY <1>4, CardsAre
  <2>3. \A i \in 1 .. n : \E j \in 1 .. n : Reverse(p)[i] = p[j]
    BY <1>1, <1>4
  <2>4. \A i \in 1 .. n : \E j \in 1 .. n : p[i] = Reverse(p)[j]
    <3> SUFFICES ASSUME NEW i \in 1 .. n PROVE \E j \in 1 .. n : p[i] = Reverse(p)[j]
      OBVIOUS
    <3> DEFINE j == (n - i) + 1
    <3>1. j \in 1 .. n /\ (n - j) + 1 = i
      BY <1>1
    <3>2. Reverse(p)[j] = p[(n - j) + 1]
      BY <1>4, <3>1
    <3> QED
      BY <3>1, <3>2
  <2> QED
    BY <2>1, <2>2, <2>3, <2>4
<1> QED
  BY <1>4, <1>5 DEF n

SolType == [play : {"on", "over", "panic"}, st : Seq(Card), wst : Seq(Card), tb : [Cols -> Seq(Card)],
            fd : [Piles -> Seq(Card)], wn : BOOLEAN]

\* The cards, and how many they are.
HeldBy(f, n, x) == \E i \in 1 .. n : x \in CardsIn(f[i])
LenOf(f, n) == SumTo([i \in 1 .. n |-> Len(f[i])], n)
NPiles == Cardinality(Suits)
Holds(g, x) == \/ x \in CardsIn(g.st) \/ x \in CardsIn(g.wst)
               \/ HeldBy(g.tb, Columns, x) \/ HeldBy(g.fd, NPiles, x)
Size(g) == Len(g.st) + Len(g.wst) + LenOf(g.tb, Columns) + LenOf(g.fd, NPiles)

\* Where each card lies as it may.
Table(g) ==
    /\ g \in SolType
    /\ \A x : Holds(g, x) <=> x \in Deck
    /\ Size(g) = Cardinality(Deck)
    /\ \A i \in Piles : Suited(g.fd[i])
    /\ \A i \in Cols : Column(g.tb[i])
    /\ \A k \in 1 .. Len(g.wst) : g.wst[k].f
Tables == {g \in SolType : Table(g)}
AllUp(g) == \A c \in Deck : \E i \in Piles : c \in CardsIn(g.fd[i])

LEMMA SuitsAre ==
    /\ NPiles \in Nat /\ Piles = 1 .. NPiles /\ Cols = 1 .. Columns /\ Columns \in Nat /\ Columns >= 1
    /\ IsFiniteSet(Deck) /\ Cardinality(Deck) = NPiles * Ranks /\ Ranks \in Nat /\ Ranks >= 1
<1>1. NPiles \in Nat /\ IsFiniteSet(Suits) /\ Ranks \in Nat /\ Ranks >= 1
  BY FS_CardinalityType DEF NPiles
<1>2. 1 \in Int /\ Ranks \in Int
  BY <1>1
<1>3. IsFiniteSet(1 .. Ranks) /\ Cardinality(1 .. Ranks) = Ranks
  BY <1>1, <1>2, FS_Interval
<1>4. IsFiniteSet(Suits \X (1 .. Ranks)) /\ Cardinality(Suits \X (1 .. Ranks)) = NPiles * Ranks
  BY <1>1, <1>3, FS_Product DEF NPiles
<1> DEFINE f == [p \in Suits \X (1 .. Ranks) |-> [s |-> p[1], r |-> p[2]]]
<1>5. f \in Bijection(Suits \X (1 .. Ranks), Deck)
  <2>1. f \in [Suits \X (1 .. Ranks) -> Deck]
    BY DEF Deck
  <2>2. \A p, q \in Suits \X (1 .. Ranks) : f[p] = f[q] => p = q
    <3> SUFFICES ASSUME NEW p \in Suits \X (1 .. Ranks), NEW q \in Suits \X (1 .. Ranks), f[p] = f[q]
                 PROVE  p = q
      OBVIOUS
    <3>1. f[p] = [s |-> p[1], r |-> p[2]] /\ f[q] = [s |-> q[1], r |-> q[2]]
      OBVIOUS
    <3>2. p[1] = q[1] /\ p[2] = q[2]
      BY <3>1
    <3> QED
      BY <3>2
  <2>3. ASSUME NEW c \in Deck PROVE \E p \in Suits \X (1 .. Ranks) : f[p] = c
    <3>1. c = [s |-> c.s, r |-> c.r] /\ c.s \in Suits /\ c.r \in 1 .. Ranks
      BY DEF Deck
    <3>2. <<c.s, c.r>> \in Suits \X (1 .. Ranks)
      BY <3>1
    <3>3. f[<<c.s, c.r>>] = [s |-> c.s, r |-> c.r]
      BY <3>2
    <3> QED
      BY <3>1, <3>2, <3>3
  <2> HIDE DEF f
  <2> QED
    BY <2>1, <2>2, <2>3 DEF Bijection, Injection, Surjection, IsInjective
<1>6. ExistsBijection(Suits \X (1 .. Ranks), Deck)
  BY <1>5 DEF ExistsBijection
<1>7. IsFiniteSet(Deck) /\ Cardinality(Deck) = NPiles * Ranks
  BY <1>4, <1>6, FS_Bijection
<1> QED
  BY <1>1, <1>7 DEF Piles, Cols, NPiles

\* One of some piles changes.
OneIs(f, n, k, y) ==
    /\ [f EXCEPT ![k] = y] \in [1 .. n -> Seq(Card)]
    /\ \A i \in 1 .. n : [f EXCEPT ![k] = y][i] = IF i = k THEN y ELSE f[i]
    /\ LenOf([f EXCEPT ![k] = y], n) = LenOf(f, n) - Len(f[k]) + Len(y)
LEMMA OneChanges ==
    ASSUME NEW n \in Nat, NEW f \in [1 .. n -> Seq(Card)], NEW k \in 1 .. n, NEW y \in Seq(Card)
    PROVE  OneIs(f, n, k, y)
<1> DEFINE h == [f EXCEPT ![k] = y]
<1>1. h \in [1 .. n -> Seq(Card)] /\ \A i \in 1 .. n : h[i] = IF i = k THEN y ELSE f[i]
  OBVIOUS
<1> HIDE DEF h
<1> DEFINE a == [i \in 1 .. n |-> Len(f[i])]
<1> DEFINE b == [i \in 1 .. n |-> Len(h[i])]
<1>2. \A i \in 1 .. n : Len(f[i]) \in Nat /\ Len(h[i]) \in Nat
  BY <1>1, LenProperties
<1>3. \A i \in 1 .. n : a[i] \in Int /\ (i # k => b[i] = a[i]) /\ a[i] = Len(f[i]) /\ b[i] = Len(h[i])
  BY <1>1, <1>2
<1>4. b[k] = Len(y) /\ b[k] \in Int
  BY <1>1, <1>2
<1> HIDE DEF a, b
<1>5. SumTo(b, n) = SumTo(a, n) - a[k] + b[k] /\ SumTo(a, n) \in Int
  <2>1. Changed(a, b, n, k)
    BY <1>3, <1>4 DEF Changed, Ints
  <2> QED
    BY <2>1, SumChange
<1>6. LenOf(f, n) = SumTo(a, n) /\ LenOf(h, n) = SumTo(b, n)
  BY Zenon DEF LenOf, a, b
<1>7. LenOf(h, n) = LenOf(f, n) - Len(f[k]) + Len(y) /\ LenOf(f, n) \in Int
  BY <1>3, <1>4, <1>5, <1>6
<1> QED
  BY <1>1, <1>7 DEF h, OneIs

LEMMA LenOfType ==
    ASSUME NEW n \in Nat, NEW f \in [1 .. n -> Seq(Card)]
    PROVE  LenOf(f, n) \in Nat
<1> DEFINE a == [i \in 1 .. n |-> Len(f[i])]
<1>1. \A i \in 1 .. n : a[i] \in Nat
  <2>1. \A i \in 1 .. n : Len(f[i]) \in Nat
    BY LenProperties
  <2> QED
    BY <2>1
<1> HIDE DEF a
<1>2. SumTo(a, n) \in Nat
  BY <1>1, SumNat
<1> QED
  BY <1>2, Zenon DEF LenOf, a

LEMMA TableIs ==
    ASSUME NEW g, Table(g)
    PROVE  /\ g = [play |-> g.play, st |-> g.st, wst |-> g.wst, tb |-> g.tb, fd |-> g.fd, wn |-> g.wn]
           /\ g.play \in {"on", "over", "panic"} /\ g.st \in Seq(Card) /\ g.wst \in Seq(Card)
           /\ g.tb \in [Cols -> Seq(Card)] /\ g.fd \in [Piles -> Seq(Card)] /\ g.wn \in BOOLEAN
           /\ Len(g.st) \in Nat /\ Len(g.wst) \in Nat
           /\ LenOf(g.tb, Columns) \in Nat /\ LenOf(g.fd, NPiles) \in Nat
<1>1. /\ g = [play |-> g.play, st |-> g.st, wst |-> g.wst, tb |-> g.tb, fd |-> g.fd, wn |-> g.wn]
      /\ g.play \in {"on", "over", "panic"} /\ g.st \in Seq(Card) /\ g.wst \in Seq(Card)
      /\ g.tb \in [Cols -> Seq(Card)] /\ g.fd \in [Piles -> Seq(Card)] /\ g.wn \in BOOLEAN
  BY DEF Table, SolType
<1>2. Len(g.st) \in Nat /\ Len(g.wst) \in Nat
  BY <1>1
<1>3. LenOf(g.tb, Columns) \in Nat /\ LenOf(g.fd, NPiles) \in Nat
  BY <1>1, SuitsAre, LenOfType
<1> QED
  BY <1>1, <1>2, <1>3

\* What a game with other piles is.
SolFields(k) == [play |-> k.play, st |-> k.st, wst |-> k.wst, tb |-> k.tb, fd |-> k.fd, wn |-> k.wn]
SolWith(k) ==
    \A a, b : [k EXCEPT !.st = a, !.wst = b]
             = [play |-> k.play, st |-> a, wst |-> b, tb |-> k.tb, fd |-> k.fd, wn |-> k.wn]
LEMMA SolsWith ==
    ASSUME NEW k, k = SolFields(k)
    PROVE  SolWith(k)
<1> DEFINE play == k.play
<1> DEFINE st == k.st
<1> DEFINE wst == k.wst
<1> DEFINE tb == k.tb
<1> DEFINE fd == k.fd
<1> DEFINE wn == k.wn
<1>0. k = [play |-> play, st |-> st, wst |-> wst, tb |-> tb, fd |-> fd, wn |-> wn]
  BY Zenon DEF SolFields
<1> HIDE DEF play, st, wst, tb, fd, wn
<1>1. ASSUME NEW a, NEW b
      PROVE  [k EXCEPT !.st = a, !.wst = b]
             = [play |-> play, st |-> a, wst |-> b, tb |-> tb, fd |-> fd, wn |-> wn]
  <2> DEFINE h == a
  <2>1. [k EXCEPT !.st = a, !.wst = b] = [[k EXCEPT !.st = a] EXCEPT !.wst = b]
    BY <1>0
  <2>2. [k EXCEPT !.st = a] = [play |-> play, st |-> h, wst |-> wst, tb |-> tb, fd |-> fd, wn |-> wn]
    BY <1>0
  <2> HIDE DEF h
  <2>3. [[play |-> play, st |-> h, wst |-> wst, tb |-> tb, fd |-> fd, wn |-> wn] EXCEPT !.wst = b]
        = [play |-> play, st |-> h, wst |-> b, tb |-> tb, fd |-> fd, wn |-> wn]
    OBVIOUS
  <2>4. [k EXCEPT !.st = a, !.wst = b]
        = [play |-> play, st |-> h, wst |-> b, tb |-> tb, fd |-> fd, wn |-> wn]
    BY <2>1, <2>2, <2>3, Zenon
  <2> QED
    BY <2>4 DEF h
<1> QED
  BY <1>1, Zenon DEF SolWith, play, st, wst, tb, fd, wn

\* The games after the three kinds of moves.
Made(g, st, wst, tb, fd) == [play |-> g.play, st |-> st, wst |-> wst, tb |-> tb, fd |-> fd, wn |-> g.wn]
ToColumn(k, i, a, b) ==
    [k EXCEPT !.tb[i] = a, !.wst = b] = Made(k, k.st, b, [k.tb EXCEPT ![i] = a], k.fd)
LEMMA ToColumnIs ==
    ASSUME NEW k, NEW i, NEW a, NEW b, k = SolFields(k)
    PROVE  ToColumn(k, i, a, b)
<1> DEFINE play == k.play
<1> DEFINE st == k.st
<1> DEFINE wst == k.wst
<1> DEFINE tb == k.tb
<1> DEFINE fd == k.fd
<1> DEFINE wn == k.wn
<1>0. k = [play |-> play, st |-> st, wst |-> wst, tb |-> tb, fd |-> fd, wn |-> wn]
  BY Zenon DEF SolFields
<1> HIDE DEF play, st, wst, tb, fd, wn
<1>9. [k EXCEPT !.tb[i] = a, !.wst = b]
      = [play |-> play, st |-> st, wst |-> b, tb |-> [tb EXCEPT ![i] = a], fd |-> fd, wn |-> wn]
  <2> DEFINE h == [tb EXCEPT ![i] = a]
  <2>1. [k EXCEPT !.tb[i] = a, !.wst = b] = [[k EXCEPT !.tb[i] = a] EXCEPT !.wst = b]
    BY <1>0
  <2>2. [k EXCEPT !.tb[i] = a] = [play |-> play, st |-> st, wst |-> wst, tb |-> h, fd |-> fd, wn |-> wn]
    BY <1>0
  <2> HIDE DEF h
  <2>3. [[play |-> play, st |-> st, wst |-> wst, tb |-> h, fd |-> fd, wn |-> wn] EXCEPT !.wst = b]
        = [play |-> play, st |-> st, wst |-> b, tb |-> h, fd |-> fd, wn |-> wn]
    OBVIOUS
  <2>4. [k EXCEPT !.tb[i] = a, !.wst = b]
        = [play |-> play, st |-> st, wst |-> b, tb |-> h, fd |-> fd, wn |-> wn]
    BY <2>1, <2>2, <2>3, Zenon
  <2> QED
    BY <2>4 DEF h
<1> QED
  BY <1>9, Zenon DEF ToColumn, Made, play, st, wst, tb, fd, wn

ToPile(k, j, a, i, b) ==
    [k EXCEPT !.fd[j] = a, !.tb[i] = b] = Made(k, k.st, k.wst, [k.tb EXCEPT ![i] = b], [k.fd EXCEPT ![j] = a])
LEMMA ToPileIs ==
    ASSUME NEW k, NEW j, NEW a, NEW i, NEW b, k = SolFields(k)
    PROVE  ToPile(k, j, a, i, b)
<1> DEFINE play == k.play
<1> DEFINE st == k.st
<1> DEFINE wst == k.wst
<1> DEFINE tb == k.tb
<1> DEFINE fd == k.fd
<1> DEFINE wn == k.wn
<1>0. k = [play |-> play, st |-> st, wst |-> wst, tb |-> tb, fd |-> fd, wn |-> wn]
  BY Zenon DEF SolFields
<1> HIDE DEF play, st, wst, tb, fd, wn
<1>9. [k EXCEPT !.fd[j] = a, !.tb[i] = b]
      = [play |-> play, st |-> st, wst |-> wst, tb |-> [tb EXCEPT ![i] = b], fd |-> [fd EXCEPT ![j] = a], wn |-> wn]
  <2> DEFINE h == [fd EXCEPT ![j] = a]
  <2>1. [k EXCEPT !.fd[j] = a, !.tb[i] = b] = [[k EXCEPT !.fd[j] = a] EXCEPT !.tb[i] = b]
    BY <1>0
  <2>2. [k EXCEPT !.fd[j] = a] = [play |-> play, st |-> st, wst |-> wst, tb |-> tb, fd |-> h, wn |-> wn]
    BY <1>0
  <2> HIDE DEF h
  <2>3. [[play |-> play, st |-> st, wst |-> wst, tb |-> tb, fd |-> h, wn |-> wn] EXCEPT !.tb[i] = b]
        = [play |-> play, st |-> st, wst |-> wst, tb |-> [tb EXCEPT ![i] = b], fd |-> h, wn |-> wn]
    OBVIOUS
  <2>4. [k EXCEPT !.fd[j] = a, !.tb[i] = b]
        = [play |-> play, st |-> st, wst |-> wst, tb |-> [tb EXCEPT ![i] = b], fd |-> h, wn |-> wn]
    BY <2>1, <2>2, <2>3, Zenon
  <2> QED
    BY <2>4 DEF h
<1> QED
  BY <1>9, Zenon DEF ToPile, Made, play, st, wst, tb, fd, wn

ToOther(k, j, a, i, b) ==
    [k EXCEPT !.tb[j] = a, !.tb[i] = b] = Made(k, k.st, k.wst, [[k.tb EXCEPT ![j] = a] EXCEPT ![i] = b], k.fd)
LEMMA ToOtherIs ==
    ASSUME NEW k, NEW j, NEW a, NEW i, NEW b, k = SolFields(k)
    PROVE  ToOther(k, j, a, i, b)
<1> DEFINE play == k.play
<1> DEFINE st == k.st
<1> DEFINE wst == k.wst
<1> DEFINE tb == k.tb
<1> DEFINE fd == k.fd
<1> DEFINE wn == k.wn
<1>0. k = [play |-> play, st |-> st, wst |-> wst, tb |-> tb, fd |-> fd, wn |-> wn]
  BY Zenon DEF SolFields
<1> HIDE DEF play, st, wst, tb, fd, wn
<1>9. [k EXCEPT !.tb[j] = a, !.tb[i] = b]
      = [play |-> play, st |-> st, wst |-> wst, tb |-> [[tb EXCEPT ![j] = a] EXCEPT ![i] = b], fd |-> fd, wn |-> wn]
  <2> DEFINE h == [tb EXCEPT ![j] = a]
  <2>1. [k EXCEPT !.tb[j] = a, !.tb[i] = b] = [[k EXCEPT !.tb[j] = a] EXCEPT !.tb[i] = b]
    BY <1>0
  <2>2. [k EXCEPT !.tb[j] = a] = [play |-> play, st |-> st, wst |-> wst, tb |-> h, fd |-> fd, wn |-> wn]
    BY <1>0
  <2> HIDE DEF h
  <2>3. [[play |-> play, st |-> st, wst |-> wst, tb |-> h, fd |-> fd, wn |-> wn] EXCEPT !.tb[i] = b]
        = [play |-> play, st |-> st, wst |-> wst, tb |-> [h EXCEPT ![i] = b], fd |-> fd, wn |-> wn]
    OBVIOUS
  <2>4. [k EXCEPT !.tb[j] = a, !.tb[i] = b]
        = [play |-> play, st |-> st, wst |-> wst, tb |-> [h EXCEPT ![i] = b], fd |-> fd, wn |-> wn]
    BY <2>1, <2>2, <2>3, Zenon
  <2> QED
    BY <2>4 DEF h
<1> QED
  BY <1>9, Zenon DEF ToOther, Made, play, st, wst, tb, fd, wn

LEMMA NoCards == \A x : x \notin CardsIn(<<>>)
<1>1. ASSUME NEW x PROVE x \notin CardsIn(<<>>)
  <2>1. Len(<<>>) = 0 /\ <<>> \in Seq(Card)
    OBVIOUS
  <2>2. x \in CardsIn(<<>>) <=> \E k \in 1 .. Len(<<>>) : x = Bare(<<>>[k])
    BY <2>1, CardsAre
  <2>3. 1 .. 0 = {}
    OBVIOUS
  <2> QED
    BY <2>1, <2>2, <2>3
<1> QED
  BY <1>1

\* Turning over, or drawing from, the stock.
LEMMA DrawKeeps ==
    ASSUME NEW g \in Tables
    PROVE  draw(g) \in Tables
<1>1. Table(g)
  BY DEF Tables
<1> DEFINE made(s, w) == [play |-> g.play, st |-> s, wst |-> w, tb |-> g.tb, fd |-> g.fd, wn |-> g.wn]
<1>2. ASSUME NEW s \in Seq(Card), NEW w \in Seq(Card), Len(s) + Len(w) = Len(g.st) + Len(g.wst),
             \A x : x \in CardsIn(s) \/ x \in CardsIn(w) <=> x \in CardsIn(g.st) \/ x \in CardsIn(g.wst),
             \A k \in 1 .. Len(w) : w[k].f
      PROVE  made(s, w) \in Tables
  <2> DEFINE h == made(s, w)
  <2>1. h \in SolType
    BY <1>1, <1>2, TableIs DEF SolType
  <2>2. h.st = s /\ h.wst = w /\ h.tb = g.tb /\ h.fd = g.fd
    OBVIOUS
  <2> HIDE DEF h
  <2>3. Size(h) = Size(g)
    <3>1. Len(s) \in Nat /\ Len(w) \in Nat
      BY <1>2, LenProperties
    <3> QED
      BY <1>1, <1>2, <2>2, <3>1, TableIs DEF Size
  <2>4. \A x : Holds(h, x) <=> Holds(g, x)
    BY <1>2, <2>2 DEF Holds
  <2>5. Table(h)
    BY <1>1, <1>2, <2>1, <2>2, <2>3, <2>4 DEF Table
  <2> QED
    BY <2>1, <2>5 DEF Tables, h
<1>3. CASE g.st = <<>>
  <2>1. draw(g) = made(Reverse(g.wst), <<>>)
    <3>1. SolWith(g)
      BY <1>1, TableIs, SolsWith, Zenon DEF SolFields
    <3> QED
      BY <1>3, <3>1, Zenon DEF draw, SolWith
  <2>2. /\ Reverse(g.wst) \in Seq(Card) /\ Len(Reverse(g.wst)) = Len(g.wst)
        /\ \A x : x \in CardsIn(Reverse(g.wst)) <=> x \in CardsIn(g.wst)
    BY <1>1, TableIs, ReverseIs
  <2>3. <<>> \in Seq(Card) /\ Len(<<>>) = 0 /\ Len(g.wst) \in Nat
    BY <1>1, TableIs
  <2>4. \A x : x \notin CardsIn(<<>>)
    BY NoCards
  <2>5. \A k \in 1 .. Len(<<>>) : <<>>[k].f
    BY <2>3
  <2> DEFINE e == <<>>
  <2>6. e \in Seq(Card) /\ Len(e) = 0 /\ (\A x : x \notin CardsIn(e)) /\ (\A k \in 1 .. Len(e) : e[k].f)
        /\ g.st = e
    BY <1>3, <2>3, <2>4, <2>5
  <2> HIDE DEF e, made
  <2>7. Len(Reverse(g.wst)) + Len(e) = Len(g.st) + Len(g.wst)
    BY <2>2, <2>3, <2>6
  <2>8. made(Reverse(g.wst), e) \in Tables
    BY <1>2, <2>2, <2>6, <2>7
  <2> QED
    BY <2>1, <2>8 DEF e
<1>4. CASE g.st # <<>>
  <2>1. draw(g) = made(Front(g.st), Append(g.wst, Shown(Last(g.st))))
    <3>1. SolWith(g)
      BY <1>1, TableIs, SolsWith, Zenon DEF SolFields
    <3> QED
      BY <1>4, <3>1, Zenon DEF draw, SolWith
  <2>2. /\ Front(g.st) \in Seq(Card) /\ Len(Front(g.st)) = Len(g.st) - 1 /\ Last(g.st) \in Card
        /\ \A x : x \in CardsIn(g.st) <=> x \in CardsIn(Front(g.st)) \/ x = Bare(Last(g.st))
    BY <1>1, <1>4, TableIs, FrontIs
  <2> DEFINE c == Shown(Last(g.st))
  <2>3. c \in Card /\ c.f = TRUE /\ Bare(c) = Bare(Last(g.st))
    BY <2>2, CardIs
  <2> HIDE DEF c
  <2>4. g.wst \in Seq(Card) /\ Len(g.wst) \in Nat /\ Len(g.st) \in Nat
    BY <1>1, TableIs
  <2> DEFINE w == Append(g.wst, c)
  <2>5. /\ w \in Seq(Card) /\ Len(w) = Len(g.wst) + 1
        /\ \A i \in 1 .. Len(g.wst) : w[i] = g.wst[i]
        /\ w[Len(g.wst) + 1] = c
        /\ \A x : x \in CardsIn(w) <=> x \in CardsIn(g.wst) \/ x = Bare(c)
    BY <2>3, <2>4, MoreIs
  <2> HIDE DEF w, made
  <2>6. \A k \in 1 .. Len(w) : w[k].f
    <3> SUFFICES ASSUME NEW k \in 1 .. Len(w) PROVE w[k].f
      OBVIOUS
    <3>1. k = Len(g.wst) + 1 \/ k \in 1 .. Len(g.wst)
      BY <2>4, <2>5
    <3> QED
      BY <1>1, <2>3, <2>5, <3>1 DEF Table
  <2>7. Len(Front(g.st)) + Len(w) = Len(g.st) + Len(g.wst)
    <3>3. \A a, b \in Nat : (a - 1) + (b + 1) = a + b
      OBVIOUS
    <3>1. (Len(g.st) - 1) + (Len(g.wst) + 1) = Len(g.st) + Len(g.wst)
      BY <2>4, <3>3, Zenon
    <3>2. Len(Front(g.st)) = Len(g.st) - 1 /\ Len(w) = Len(g.wst) + 1
      BY <2>2, <2>5
    <3> QED
      BY <3>1, <3>2, Zenon
  <2>8. \A x : x \in CardsIn(Front(g.st)) \/ x \in CardsIn(w) <=> x \in CardsIn(g.st) \/ x \in CardsIn(g.wst)
    BY <2>2, <2>3, <2>5
  <2>9. made(Front(g.st), w) \in Tables
    BY <1>2, <2>2, <2>5, <2>6, <2>7, <2>8
  <2> QED
    BY <2>1, <2>9 DEF w, c
<1> QED
  BY <1>3, <1>4

\* The cards of a column from i + 1 on.
LEMMA TailColumn ==
    ASSUME NEW p, Column(p), NEW i \in Nat, i < Len(p)
    PROVE  /\ Column(SubSeq(p, i + 1, Len(p))) /\ Len(SubSeq(p, i + 1, Len(p))) = Len(p) - i
           /\ SubSeq(p, i + 1, Len(p)) # <<>> /\ SubSeq(p, i + 1, Len(p))[1] = p[i + 1]
           /\ \A x : x \in CardsIn(SubSeq(p, i + 1, Len(p))) <=> \E k \in i + 1 .. Len(p) : x = Bare(p[k])
<1> DEFINE n == Len(p)
<1> DEFINE q == SubSeq(p, i + 1, n)
<1>1. p \in Seq(Card) /\ n \in Nat /\ Descends(p) /\ p[n].f /\ \A k \in 1 .. n : p[k] \in Card
  BY DEF Column
<1> HIDE DEF n
<1>2. i < n /\ i + 1 \in Int /\ n \in Int /\ \A k \in i + 1 .. n : k \in 1 .. n
  BY <1>1 DEF n
<1>3. q \in Seq(Card) /\ Len(q) = n - i /\ \A k \in 1 .. n - i : q[k] = p[k + i]
  <2>1. \A k \in i + 1 .. n : p[k] \in Card
    BY <1>1, <1>2
  <2>2. /\ SubSeq(p, i + 1, n) \in Seq(Card)
        /\ Len(SubSeq(p, i + 1, n)) = IF i + 1 <= n THEN n - (i + 1) + 1 ELSE 0
        /\ \A k \in 1 .. n - (i + 1) + 1 : SubSeq(p, i + 1, n)[k] = p[(i + 1) + k - 1]
    BY <1>2, <2>1, SubSeqProperties
  <2>3. n - (i + 1) + 1 = n - i /\ i + 1 <= n
    BY <1>1, <1>2
  <2>4. \A k \in 1 .. n - i : (i + 1) + k - 1 = k + i
    BY <1>1
  <2> QED
    BY <2>2, <2>3, <2>4
<1> HIDE DEF q
<1>4. q # <<>> /\ q[1] = p[i + 1]
  <2>1. Len(q) # 0 /\ 1 \in 1 .. n - i /\ 1 + i = i + 1
    BY <1>1, <1>2, <1>3
  <2> QED
    BY <1>3, <2>1
<1>5. ASSUME NEW k \in 1 .. Len(q) - 1, q[k].f PROVE q[k + 1].f /\ LiesOn(q[k + 1], q[k])
  <2>1. k \in 1 .. n - i /\ k + 1 \in 1 .. n - i /\ (k + 1) + i = (k + i) + 1 /\ k + i \in 1 .. n - 1
    BY <1>1, <1>2, <1>3
  <2>2. q[k] = p[k + i] /\ q[k + 1] = p[(k + i) + 1]
    BY <1>3, <2>1
  <2>3. p[k + i].f
    BY <1>5, <2>2
  <2>4. p[(k + i) + 1].f /\ LiesOn(p[(k + i) + 1], p[k + i])
    BY <1>1, <2>1, <2>3 DEF Descends, n
  <2> QED
    BY <2>2, <2>4
<1>6. q[Len(q)].f
  <2>1. n - i \in 1 .. n - i /\ (n - i) + i = n
    BY <1>1, <1>2
  <2> QED
    BY <1>1, <1>3, <2>1
<1>7. Column(q)
  BY <1>3, <1>5, <1>6 DEF Column, Descends
<1>8. ASSUME NEW x PROVE x \in CardsIn(q) <=> \E k \in i + 1 .. n : x = Bare(p[k])
  <2>1. x \in CardsIn(q) <=> \E k \in 1 .. n - i : x = Bare(q[k])
    BY <1>3, CardsAre
  <2>2. \A k \in 1 .. n - i : k + i \in i + 1 .. n
    BY <1>1, <1>2
  <2>3. ASSUME NEW k \in i + 1 .. n, x = Bare(p[k]) PROVE \E j \in 1 .. n - i : x = Bare(q[j])
    <3>1. k - i \in 1 .. n - i /\ (k - i) + i = k
      BY <1>1, <1>2
    <3> QED
      BY <1>3, <2>3, <3>1
  <2> QED
    BY <1>3, <2>1, <2>2, <2>3
<1> QED
  BY <1>3, <1>4, <1>7, <1>8 DEF q, n

\* One open card laid on a column.
LEMMA PlaceColumn ==
    ASSUME NEW p, Column(p), NEW c \in Card, c.f, p # <<>> => LiesOn(c, p[Len(p)])
    PROVE  Column(Append(p, c))
<1>1. p \in Seq(Card) /\ Len(p) \in Nat /\ Descends(p) /\ (p # <<>> => p[Len(p)].f)
  BY DEF Column
<1> DEFINE q == Append(p, c)
<1>2. /\ q \in Seq(Card) /\ Len(q) = Len(p) + 1 /\ q # <<>>
      /\ \A i \in 1 .. Len(p) : q[i] = p[i]
      /\ q[Len(p) + 1] = c
  BY <1>1, MoreIs
<1> HIDE DEF q
<1>3. ASSUME NEW k \in 1 .. Len(q) - 1, q[k].f PROVE q[k + 1].f /\ LiesOn(q[k + 1], q[k])
  <2>1. k \in 1 .. Len(p)
    BY <1>1, <1>2
  <2>2. q[k] = p[k]
    BY <1>2, <2>1
  <2>3. CASE k = Len(p)
    <3>1. q[k + 1] = c /\ p # <<>>
      BY <1>1, <1>2, <2>1, <2>3
    <3> QED
      BY <2>2, <2>3, <3>1
  <2>4. CASE k # Len(p)
    <3>1. k \in 1 .. Len(p) - 1 /\ k + 1 \in 1 .. Len(p)
      BY <1>1, <2>1, <2>4
    <3>2. q[k + 1] = p[k + 1]
      BY <1>2, <3>1
    <3>3. p[k].f
      BY <1>3, <2>2
    <3>4. p[k + 1].f /\ LiesOn(p[k + 1], p[k])
      BY <1>1, <3>1, <3>3 DEF Descends
    <3> QED
      BY <2>2, <3>2, <3>4
  <2> QED
    BY <2>3, <2>4
<1>4. q[Len(q)].f
  BY <1>2
<1> QED
  BY <1>2, <1>3, <1>4 DEF Column, Descends, q

\* The next card of its suit laid on a foundation.
LEMMA PlacePile ==
    ASSUME NEW p, Suited(p), NEW c \in Card, Takes(p, c)
    PROVE  Suited(Append(p, c))
<1>1. p \in Seq(Card) /\ Len(p) \in Nat /\ \A k \in 1 .. Len(p) : p[k].r = k /\ p[k].s = p[1].s
  BY DEF Suited
<1> DEFINE q == Append(p, c)
<1>2. /\ q \in Seq(Card) /\ Len(q) = Len(p) + 1
      /\ \A i \in 1 .. Len(p) : q[i] = p[i]
      /\ q[Len(p) + 1] = c
  BY <1>1, MoreIs
<1> HIDE DEF q
<1>3. CASE p = <<>>
  <2>1. c.r = 1 /\ Len(p) = 0
    BY <1>3 DEF Takes
  <2>2. Len(q) = 1 /\ q[1] = c
    BY <1>2, <2>1
  <2>3. \A k \in 1 .. Len(q) : k = 1
    BY <2>2
  <2> QED
    BY <1>2, <2>1, <2>2, <2>3 DEF Suited, q
<1>4. CASE p # <<>>
  <2>1. Len(p) >= 1 /\ Len(p) \in 1 .. Len(p) /\ 1 \in 1 .. Len(p)
    BY <1>1, <1>4
  <2>2. p[Len(p)].s = c.s /\ p[Len(p)].r = c.r - 1
    BY <1>4 DEF Takes, Last
  <2>3. c.r = Len(p) + 1 /\ c.s = p[1].s
    <3>1. p[Len(p)].r = Len(p) /\ p[Len(p)].s = p[1].s
      BY <1>1, <2>1
    <3>2. c.r \in 1 .. Ranks
      BY CardIs
    <3>3. c.r \in Int
      BY <3>2
    <3> QED
      BY <1>1, <2>2, <3>1, <3>3
  <2>4. q[1] = p[1]
    BY <1>2, <2>1
  <2>5. ASSUME NEW k \in 1 .. Len(q) PROVE q[k].r = k /\ q[k].s = q[1].s
    <3>1. k = Len(p) + 1 \/ k \in 1 .. Len(p)
      BY <1>1, <1>2
    <3> QED
      BY <1>1, <1>2, <2>3, <2>4, <3>1
  <2> QED
    BY <1>2, <2>5 DEF Suited, q
<1> QED
  BY <1>3, <1>4

\* The cards of some piles of which one changes.
HeldElse(f, n, k, x) == \E i \in 1 .. n : i # k /\ x \in CardsIn(f[i])
LEMMA HeldParts ==
    ASSUME NEW n \in Nat, NEW f \in [1 .. n -> Seq(Card)], NEW k \in 1 .. n, NEW y \in Seq(Card)
    PROVE  \A x : /\ HeldBy(f, n, x) <=> x \in CardsIn(f[k]) \/ HeldElse(f, n, k, x)
                  /\ HeldBy([f EXCEPT ![k] = y], n, x) <=> x \in CardsIn(y) \/ HeldElse(f, n, k, x)
<1> DEFINE h == [f EXCEPT ![k] = y]
<1>1. \A i \in 1 .. n : h[i] = IF i = k THEN y ELSE f[i]
  OBVIOUS
<1> HIDE DEF h
<1>2. ASSUME NEW x PROVE HeldBy(f, n, x) <=> x \in CardsIn(f[k]) \/ HeldElse(f, n, k, x)
  BY DEF HeldBy, HeldElse
<1>3. ASSUME NEW x PROVE HeldBy(h, n, x) <=> x \in CardsIn(y) \/ HeldElse(f, n, k, x)
  BY <1>1 DEF HeldBy, HeldElse
<1> QED
  BY <1>2, <1>3 DEF h

\* Where no card is lost, and each lies as it may, the game goes on.
MayBe(g, st, wst, tb, fd) ==
    /\ st \in Seq(Card) /\ wst \in Seq(Card) /\ tb \in [Cols -> Seq(Card)] /\ fd \in [Piles -> Seq(Card)]
    /\ Len(st) + Len(wst) + LenOf(tb, Columns) + LenOf(fd, NPiles) = Size(g)
    /\ \A x : x \in CardsIn(st) \/ x \in CardsIn(wst) \/ HeldBy(tb, Columns, x) \/ HeldBy(fd, NPiles, x)
              <=> Holds(g, x)
    /\ \A i \in Piles : Suited(fd[i])
    /\ \A i \in Cols : Column(tb[i])
    /\ \A k \in 1 .. Len(wst) : wst[k].f
LEMMA TableMade ==
    ASSUME NEW g \in Tables, NEW st, NEW wst, NEW tb, NEW fd, MayBe(g, st, wst, tb, fd)
    PROVE  Made(g, st, wst, tb, fd) \in Tables
<1> DEFINE h == Made(g, st, wst, tb, fd)
<1>1. Table(g) /\ g.play \in {"on", "over", "panic"} /\ g.wn \in BOOLEAN
  BY TableIs DEF Tables
<1>2. \A play \in {"on", "over", "panic"}, s \in Seq(Card), w \in Seq(Card), t \in [Cols -> Seq(Card)],
         f \in [Piles -> Seq(Card)], won \in BOOLEAN :
          [play |-> play, st |-> s, wst |-> w, tb |-> t, fd |-> f, wn |-> won] \in SolType
  BY DEF SolType
<1>3. st \in Seq(Card) /\ wst \in Seq(Card) /\ tb \in [Cols -> Seq(Card)] /\ fd \in [Piles -> Seq(Card)]
  BY DEF MayBe
<1>4. h \in SolType
  BY <1>1, <1>2, <1>3, Zenon DEF Made
<1>5. h.st = st /\ h.wst = wst /\ h.tb = tb /\ h.fd = fd
  BY DEF Made
<1> HIDE DEF h
<1>6. Size(h) = Cardinality(Deck)
  BY <1>1, <1>5, Zenon DEF Size, MayBe, Table
<1>7. ASSUME NEW x PROVE Holds(h, x) <=> x \in Deck
  BY <1>1, <1>5, Zenon DEF Holds, MayBe, Table
<1>8. (\A i \in Piles : Suited(h.fd[i])) /\ (\A i \in Cols : Column(h.tb[i]))
      /\ (\A k \in 1 .. Len(h.wst) : h.wst[k].f)
  BY <1>5, Zenon DEF MayBe
<1>9. Table(h)
  BY <1>4, <1>6, <1>7, <1>8 DEF Table
<1> QED
  BY <1>4, <1>9 DEF Tables, h

\* fdx finds a pile that takes the card.
LEMMA Found ==
    ASSUME NEW fd, NEW c, fdx(fd, c) # 0
    PROVE  fdx(fd, c) \in Piles /\ Takes(fd[fdx(fd, c)], c)
<1>1. \E i \in Piles : Takes(fd[i], c)
  BY DEF fdx
<1> DEFINE S == {i \in Piles : Takes(fd[i], c)}
<1>2. S \in SUBSET Nat /\ S # {}
  BY <1>1, SuitsAre
<1>3. PICK i \in S : \A k \in S : i <= k
  <2> HIDE DEF S
  <2> QED
    BY <1>2, Least
<1>4. i \in Piles /\ Takes(fd[i], c) /\ \A k \in 1 .. i - 1 : ~Takes(fd[k], c)
  <2>1. ASSUME NEW k \in 1 .. i - 1, Takes(fd[k], c) PROVE FALSE
    <3>1. i \in 1 .. NPiles
      BY SuitsAre
    <3>2. k \in 1 .. NPiles /\ ~(i <= k)
      BY <3>1, SuitsAre
    <3>3. k \in S
      BY <2>1, <3>2, SuitsAre
    <3> QED
      BY <1>3, <3>2, <3>3
  <2> QED
    BY <2>1
<1>5. \E j \in Piles : Takes(fd[j], c) /\ \A k \in 1 .. j - 1 : ~Takes(fd[k], c)
  BY <1>4
<1>6. fdx(fd, c) = CHOOSE j \in Piles : Takes(fd[j], c) /\ \A k \in 1 .. j - 1 : ~Takes(fd[k], c)
  BY <1>1, Zenon DEF fdx
<1> QED
  BY <1>5, <1>6

\* A table, and its piles.
LEMMA TablesAre ==
    ASSUME NEW g \in Tables
    PROVE  /\ g = SolFields(g)
           /\ g.st \in Seq(Card) /\ g.wst \in Seq(Card)
           /\ g.tb \in [1 .. Columns -> Seq(Card)] /\ g.fd \in [1 .. NPiles -> Seq(Card)]
           /\ Len(g.st) \in Nat /\ Len(g.wst) \in Nat
           /\ LenOf(g.tb, Columns) \in Nat /\ LenOf(g.fd, NPiles) \in Nat
           /\ \A i \in 1 .. NPiles : Suited(g.fd[i])
           /\ \A i \in 1 .. Columns : Column(g.tb[i])
           /\ \A k \in 1 .. Len(g.wst) : g.wst[k].f
           /\ Columns \in Nat /\ NPiles \in Nat /\ Cols = 1 .. Columns /\ Piles = 1 .. NPiles
           /\ Size(g) = Len(g.st) + Len(g.wst) + LenOf(g.tb, Columns) + LenOf(g.fd, NPiles)
<1>1. Table(g)
  BY DEF Tables
<1>2. g = SolFields(g)
  BY <1>1, TableIs, Zenon DEF SolFields
<1>3. Columns \in Nat /\ NPiles \in Nat /\ Cols = 1 .. Columns /\ Piles = 1 .. NPiles
  BY SuitsAre
<1>4. /\ g.st \in Seq(Card) /\ g.wst \in Seq(Card)
      /\ g.tb \in [1 .. Columns -> Seq(Card)] /\ g.fd \in [1 .. NPiles -> Seq(Card)]
      /\ Len(g.st) \in Nat /\ Len(g.wst) \in Nat
      /\ LenOf(g.tb, Columns) \in Nat /\ LenOf(g.fd, NPiles) \in Nat
  BY <1>1, <1>3, TableIs
<1>5. /\ \A i \in 1 .. NPiles : Suited(g.fd[i])
      /\ \A i \in 1 .. Columns : Column(g.tb[i])
      /\ \A k \in 1 .. Len(g.wst) : g.wst[k].f
  BY <1>1, <1>3 DEF Table
<1>6. Size(g) = Len(g.st) + Len(g.wst) + LenOf(g.tb, Columns) + LenOf(g.fd, NPiles)
  BY Zenon DEF Size
<1> QED
  BY <1>2, <1>3, <1>4, <1>5, <1>6

\* A card moves from l cards to k.
Balance(a, b, t, f, l, k) == a + b + (t - l + (l - 1)) + (f - k + (k + 1)) = a + b + t + f
LEMMA Balanced ==
    ASSUME NEW a \in Nat, NEW b \in Nat, NEW t \in Nat, NEW f \in Nat, NEW l \in Nat, NEW k \in Nat
    PROVE  Balance(a, b, t, f, l, k)
BY DEF Balance

LEMMA AutoColumnKeeps ==
    ASSUME NEW g \in Tables, NEW i \in 1 .. Columns
    PROVE  AutoColumn(g, i) \in Tables
<1>1. CASE g.tb[i] = <<>> \/ ~Last(g.tb[i]).f \/ fdx(g.fd, Last(g.tb[i])) = 0
  BY <1>1 DEF AutoColumn
<1>2. CASE ~(g.tb[i] = <<>> \/ ~Last(g.tb[i]).f \/ fdx(g.fd, Last(g.tb[i])) = 0)
  <2> DEFINE p == g.tb[i]
  <2> DEFINE c == Last(p)
  <2> DEFINE j == fdx(g.fd, c)
  <2> DEFINE y == Append(g.fd[j], c)
  <2> DEFINE z == face(Front(p))
  <2>1. AutoColumn(g, i) = [g EXCEPT !.fd[j] = y, !.tb[i] = z]
    BY <1>2, Zenon DEF AutoColumn
  <2>2. g = SolFields(g)
    BY TablesAre
  <2>3. AutoColumn(g, i) = Made(g, g.st, g.wst, [g.tb EXCEPT ![i] = z], [g.fd EXCEPT ![j] = y])
    <3> HIDE DEF y, z, j
    <3>1. ToPile(g, j, y, i, z)
      BY <2>2, ToPileIs
    <3> QED
      BY <2>1, <3>1, Zenon DEF ToPile
  <2>4. p # <<>> /\ c.f /\ j # 0 /\ p \in Seq(Card) /\ Column(p)
    BY <1>2, TablesAre
  <2>5. j \in 1 .. NPiles /\ Takes(g.fd[j], c)
    BY <2>4, Found, SuitsAre
  <2> HIDE DEF j
  <2>6. Len(p) \in Nat \ {0} /\ c \in Card /\ c = p[Len(p)]
    BY <2>4, FrontIs
  <2>7. Front(p) = SubSeq(p, 1, Len(p) - 1)
    BY DEF Front
  <2> DEFINE m == Len(p) - 1
  <2>8. m \in 0 .. Len(p)
    BY <2>6
  <2>9. /\ Column(z) /\ Len(z) = Len(p) - 1
        /\ \A x : x \in CardsIn(z) <=> \E k \in 1 .. Len(p) - 1 : x = Bare(p[k])
    <3> HIDE DEF p
    <3>1. /\ Column(face(SubSeq(p, 1, m))) /\ Len(face(SubSeq(p, 1, m))) = m
          /\ \A x : x \in CardsIn(face(SubSeq(p, 1, m))) <=> \E k \in 1 .. m : x = Bare(p[k])
      <4> HIDE DEF m
      <4> QED
        BY <2>4, <2>8, CutColumn
    <3> QED
      BY <2>7, <3>1, Zenon
  <2> HIDE DEF m
  <2>10. \A x : x \in CardsIn(p) <=> x \in CardsIn(z) \/ x = Bare(c)
    <3> SUFFICES ASSUME NEW x PROVE x \in CardsIn(p) <=> x \in CardsIn(z) \/ x = Bare(c)
      OBVIOUS
    <3>1. x \in CardsIn(p) <=> \E k \in 1 .. Len(p) : x = Bare(p[k])
      BY <2>4, CardsAre
    <3>2. x \in CardsIn(z) <=> \E k \in 1 .. Len(p) - 1 : x = Bare(p[k])
      BY <2>9
    <3>3. Len(p) \in 1 .. Len(p) /\ \A k \in 1 .. Len(p) - 1 : k \in 1 .. Len(p)
      BY <2>6
    <3>4. \A k \in 1 .. Len(p) : k = Len(p) \/ k \in 1 .. Len(p) - 1
      BY <2>6
    <3> HIDE DEF p, z
    <3> QED
      BY <2>6, <3>1, <3>2, <3>3, <3>4
  <2>11. g.fd[j] \in Seq(Card) /\ Suited(g.fd[j]) /\ Len(g.fd[j]) \in Nat
    BY <2>5, TablesAre, LenProperties
  <2>12. y \in Seq(Card) /\ Len(y) = Len(g.fd[j]) + 1 /\ \A x : x \in CardsIn(y) <=> x \in CardsIn(g.fd[j]) \/ x = Bare(c)
    <3> HIDE DEF c
    <3> QED
      BY <2>6, <2>11, MoreIs
  <2>13. Suited(y)
    <3> HIDE DEF c
    <3> QED
      BY <2>5, <2>6, <2>11, PlacePile
  <2>14. z \in Seq(Card)
    BY <2>9 DEF Column
  <2>15. g.tb[i] = p
    OBVIOUS
  <2> HIDE DEF p, c, y, z
  <2> DEFINE tb == [g.tb EXCEPT ![i] = z]
  <2> DEFINE fd == [g.fd EXCEPT ![j] = y]
  <2>16. /\ tb \in [1 .. Columns -> Seq(Card)] /\ (\A k \in 1 .. Columns : tb[k] = IF k = i THEN z ELSE g.tb[k])
         /\ LenOf(tb, Columns) = LenOf(g.tb, Columns) - Len(p) + Len(z)
    <3>1. g.tb \in [1 .. Columns -> Seq(Card)] /\ Columns \in Nat
      BY TablesAre
    <3>2. OneIs(g.tb, Columns, i, z)
      BY <2>14, <3>1, OneChanges
    <3> QED
      BY <2>15, <3>2, Zenon DEF OneIs, tb
  <2>17. /\ fd \in [1 .. NPiles -> Seq(Card)] /\ (\A k \in 1 .. NPiles : fd[k] = IF k = j THEN y ELSE g.fd[k])
         /\ LenOf(fd, NPiles) = LenOf(g.fd, NPiles) - Len(g.fd[j]) + Len(y)
    <3>1. g.fd \in [1 .. NPiles -> Seq(Card)] /\ NPiles \in Nat
      BY TablesAre
    <3>2. OneIs(g.fd, NPiles, j, y)
      BY <2>5, <2>12, <3>1, OneChanges
    <3> QED
      BY <3>2, Zenon DEF OneIs, fd
  <2>18. \A x : /\ HeldBy(g.tb, Columns, x) <=> x \in CardsIn(p) \/ HeldElse(g.tb, Columns, i, x)
                /\ HeldBy(tb, Columns, x) <=> x \in CardsIn(z) \/ HeldElse(g.tb, Columns, i, x)
    BY <2>14, <2>15, TablesAre, HeldParts
  <2>19. \A x : /\ HeldBy(g.fd, NPiles, x) <=> x \in CardsIn(g.fd[j]) \/ HeldElse(g.fd, NPiles, j, x)
                /\ HeldBy(fd, NPiles, x) <=> x \in CardsIn(y) \/ HeldElse(g.fd, NPiles, j, x)
    BY <2>5, <2>12, TablesAre, HeldParts
  <2> HIDE DEF tb, fd
  <2>20. \A x : x \in CardsIn(g.st) \/ x \in CardsIn(g.wst) \/ HeldBy(tb, Columns, x) \/ HeldBy(fd, NPiles, x)
                <=> Holds(g, x)
    BY <2>10, <2>12, <2>18, <2>19 DEF Holds
  <2>21. Len(g.st) + Len(g.wst) + LenOf(tb, Columns) + LenOf(fd, NPiles) = Size(g)
    <3>2. /\ Len(g.st) \in Nat /\ Len(g.wst) \in Nat /\ LenOf(g.tb, Columns) \in Nat
          /\ LenOf(g.fd, NPiles) \in Nat /\ Len(p) \in Nat
          /\ Size(g) = Len(g.st) + Len(g.wst) + LenOf(g.tb, Columns) + LenOf(g.fd, NPiles)
      BY <2>6, TablesAre
    <3>3. Len(z) = Len(p) - 1
      BY <2>9
    <3>4. LenOf(tb, Columns) = LenOf(g.tb, Columns) - Len(p) + (Len(p) - 1)
      BY <2>16, <3>3, Zenon
    <3>5. LenOf(fd, NPiles) = LenOf(g.fd, NPiles) - Len(g.fd[j]) + (Len(g.fd[j]) + 1)
      BY <2>12, <2>17, Zenon
    <3>6. Balance(Len(g.st), Len(g.wst), LenOf(g.tb, Columns), LenOf(g.fd, NPiles), Len(p), Len(g.fd[j]))
      BY <2>11, <3>2, Balanced
    <3> QED
      BY <3>2, <3>4, <3>5, <3>6, Zenon DEF Balance
  <2>22. \A k \in 1 .. NPiles : Suited(fd[k])
    BY <2>13, <2>17, TablesAre
  <2>23. \A k \in 1 .. Columns : Column(tb[k])
    BY <2>9, <2>16, TablesAre
  <2>24. MayBe(g, g.st, g.wst, tb, fd)
    <3>1. g.st \in Seq(Card) /\ g.wst \in Seq(Card) /\ (\A k \in 1 .. Len(g.wst) : g.wst[k].f)
          /\ Cols = 1 .. Columns /\ Piles = 1 .. NPiles
      BY TablesAre
    <3> QED
      BY <2>16, <2>17, <2>20, <2>21, <2>22, <2>23, <3>1 DEF MayBe
  <2>25. AutoColumn(g, i) = Made(g, g.st, g.wst, tb, fd)
    BY <2>3, Zenon DEF tb, fd
  <2> QED
    BY <2>24, <2>25, TableMade
<1> QED
  BY <1>1, <1>2

\* One card of the waste to a column.
LEMMA FromWasteKeeps ==
    ASSUME NEW g \in Tables, NEW n \in 1 .. Columns
    PROVE  FromWaste(g, n) \in Tables
<1>1. CASE ~(g.wst # <<>> /\ CanPlace(g.tb, Last(g.wst), n))
  BY <1>1 DEF FromWaste
<1>2. CASE g.wst # <<>> /\ CanPlace(g.tb, Last(g.wst), n)
  <2> DEFINE p == g.tb[n]
  <2> DEFINE c == Last(g.wst)
  <2> DEFINE w == Front(g.wst)
  <2> DEFINE z == Append(p, c)
  <2>1. FromWaste(g, n) = [g EXCEPT !.tb[n] = z, !.wst = w]
    BY <1>2, Zenon DEF FromWaste
  <2>2. g = SolFields(g)
    BY TablesAre
  <2>3. FromWaste(g, n) = Made(g, g.st, w, [g.tb EXCEPT ![n] = z], g.fd)
    <3> HIDE DEF z, w
    <3>1. ToColumn(g, n, z, w)
      BY <2>2, ToColumnIs
    <3> QED
      BY <2>1, <3>1, Zenon DEF ToColumn
  <2>4. /\ w \in Seq(Card) /\ Len(w) = Len(g.wst) - 1 /\ Len(g.wst) \in Nat \ {0}
        /\ \A i \in 1 .. Len(g.wst) - 1 : w[i] = g.wst[i]
        /\ c = g.wst[Len(g.wst)] /\ c \in Card
        /\ \A x : x \in CardsIn(g.wst) <=> x \in CardsIn(w) \/ x = Bare(c)
    BY <1>2, TablesAre, FrontIs
  <2>5. /\ p \in Seq(Card) /\ Column(p) /\ Len(p) \in Nat /\ \A k \in 1 .. Len(g.wst) : g.wst[k].f
        /\ LenOf(g.tb, Columns) \in Nat /\ LenOf(g.fd, NPiles) \in Nat /\ Len(g.st) \in Nat
    BY TablesAre, LenProperties
  <2>6. c.f
    <3>1. Len(g.wst) \in 1 .. Len(g.wst)
      BY <2>4
    <3> QED
      BY <2>4, <2>5, <3>1
  <2>7. p # <<>> => LiesOn(c, p[Len(p)])
    BY <1>2 DEF CanPlace, Last
  <2>8. /\ z \in Seq(Card) /\ Len(z) = Len(p) + 1
        /\ \A x : x \in CardsIn(z) <=> x \in CardsIn(p) \/ x = Bare(c)
    <3> HIDE DEF p, c
    <3> QED
      BY <2>4, <2>5, MoreIs
  <2>9. Column(z)
    <3> HIDE DEF p, c
    <3> QED
      BY <2>4, <2>5, <2>6, <2>7, PlaceColumn
  <2>10. \A k \in 1 .. Len(w) : w[k].f
    <3>1. \A k \in 1 .. Len(w) : k \in 1 .. Len(g.wst) - 1 /\ k \in 1 .. Len(g.wst)
      BY <2>4
    <3> QED
      BY <2>4, <2>5, <3>1
  <2>11. g.tb[n] = p
    OBVIOUS
  <2> HIDE DEF p, c, w, z
  <2> DEFINE tb == [g.tb EXCEPT ![n] = z]
  <2>12. /\ tb \in [1 .. Columns -> Seq(Card)] /\ (\A k \in 1 .. Columns : tb[k] = IF k = n THEN z ELSE g.tb[k])
         /\ LenOf(tb, Columns) = LenOf(g.tb, Columns) - Len(p) + Len(z)
    <3>1. g.tb \in [1 .. Columns -> Seq(Card)] /\ Columns \in Nat
      BY TablesAre
    <3>2. OneIs(g.tb, Columns, n, z)
      BY <2>8, <3>1, OneChanges
    <3> QED
      BY <2>11, <3>2, Zenon DEF OneIs, tb
  <2>13. \A x : /\ HeldBy(g.tb, Columns, x) <=> x \in CardsIn(p) \/ HeldElse(g.tb, Columns, n, x)
                /\ HeldBy(tb, Columns, x) <=> x \in CardsIn(z) \/ HeldElse(g.tb, Columns, n, x)
    BY <2>8, <2>11, TablesAre, HeldParts
  <2> HIDE DEF tb
  <2>14. \A x : x \in CardsIn(g.st) \/ x \in CardsIn(w) \/ HeldBy(tb, Columns, x) \/ HeldBy(g.fd, NPiles, x)
                <=> Holds(g, x)
    BY <2>4, <2>8, <2>13 DEF Holds
  <2>15. Len(g.st) + Len(w) + LenOf(tb, Columns) + LenOf(g.fd, NPiles) = Size(g)
    <3>1. Balance(Len(g.st), LenOf(g.fd, NPiles), Len(g.wst), LenOf(g.tb, Columns), Len(g.wst), Len(p))
      BY <2>4, <2>5, Balanced
    <3>2. LenOf(tb, Columns) = LenOf(g.tb, Columns) - Len(p) + (Len(p) + 1)
      BY <2>8, <2>12, Zenon
    <3>3. Size(g) = Len(g.st) + Len(g.wst) + LenOf(g.tb, Columns) + LenOf(g.fd, NPiles)
      BY TablesAre
    <3> DEFINE a == Len(g.st)
    <3> DEFINE b == Len(g.wst)
    <3> DEFINE t == LenOf(g.tb, Columns)
    <3> DEFINE f == LenOf(g.fd, NPiles)
    <3> DEFINE l == Len(p)
    <3> DEFINE v == Len(w)
    <3> DEFINE u == LenOf(tb, Columns)
    <3> DEFINE s == Size(g)
    <3>4. a \in Nat /\ b \in Nat /\ t \in Nat /\ f \in Nat /\ l \in Nat /\ v = b - 1 /\ u = t - l + (l + 1)
          /\ s = a + b + t + f
      BY <2>4, <2>5, <3>2, <3>3
    <3> HIDE DEF a, b, t, f, l, v, u, s
    <3>5. a + v + u + f = s
      BY <3>4
    <3> QED
      BY <3>5 DEF a, b, t, f, l, v, u, s
  <2>16. \A k \in 1 .. Columns : Column(tb[k])
    BY <2>9, <2>12, TablesAre
  <2>17. MayBe(g, g.st, w, tb, g.fd)
    <3>1. g.st \in Seq(Card) /\ g.fd \in [1 .. NPiles -> Seq(Card)] /\ (\A i \in 1 .. NPiles : Suited(g.fd[i]))
          /\ Cols = 1 .. Columns /\ Piles = 1 .. NPiles
      BY TablesAre
    <3> QED
      BY <2>4, <2>10, <2>12, <2>14, <2>15, <2>16, <3>1 DEF MayBe
  <2>18. FromWaste(g, n) = Made(g, g.st, w, tb, g.fd)
    BY <2>3, Zenon DEF tb
  <2> QED
    BY <2>17, <2>18, TableMade
<1> QED
  BY <1>1, <1>2

\* Two of some piles change.
LEMMA TwoChange ==
    ASSUME NEW n \in Nat, NEW f \in [1 .. n -> Seq(Card)], NEW d \in 1 .. n, NEW c \in 1 .. n, c # d,
           NEW y \in Seq(Card), NEW z \in Seq(Card), Len(y) + Len(z) = Len(f[d]) + Len(f[c]),
           \A x : x \in CardsIn(y) \/ x \in CardsIn(z) <=> x \in CardsIn(f[d]) \/ x \in CardsIn(f[c])
    PROVE  /\ [[f EXCEPT ![d] = y] EXCEPT ![c] = z] \in [1 .. n -> Seq(Card)]
           /\ \A i \in 1 .. n : [[f EXCEPT ![d] = y] EXCEPT ![c] = z][i]
                                = IF i = c THEN z ELSE IF i = d THEN y ELSE f[i]
           /\ LenOf([[f EXCEPT ![d] = y] EXCEPT ![c] = z], n) = LenOf(f, n)
           /\ \A x : HeldBy([[f EXCEPT ![d] = y] EXCEPT ![c] = z], n, x) <=> HeldBy(f, n, x)
<1> DEFINE m == [f EXCEPT ![d] = y]
<1> DEFINE h == [m EXCEPT ![c] = z]
<1>1. OneIs(f, n, d, y)
  BY OneChanges
<1>2. m \in [1 .. n -> Seq(Card)] /\ (\A i \in 1 .. n : m[i] = IF i = d THEN y ELSE f[i])
      /\ LenOf(m, n) = LenOf(f, n) - Len(f[d]) + Len(y)
  BY <1>1, Zenon DEF OneIs
<1> HIDE DEF m
<1>3. OneIs(m, n, c, z)
  BY <1>2, OneChanges
<1>4. h \in [1 .. n -> Seq(Card)] /\ (\A i \in 1 .. n : h[i] = IF i = c THEN z ELSE m[i])
      /\ LenOf(h, n) = LenOf(m, n) - Len(m[c]) + Len(z)
  BY <1>3, Zenon DEF OneIs
<1> HIDE DEF h
<1>5. m[c] = f[c]
  BY <1>2
<1>6. \A i \in 1 .. n : h[i] = IF i = c THEN z ELSE IF i = d THEN y ELSE f[i]
  BY <1>2, <1>4
<1>7. LenOf(h, n) = LenOf(f, n)
  <2> DEFINE s == LenOf(f, n)
  <2> DEFINE a == Len(f[d])
  <2> DEFINE b == Len(f[c])
  <2> DEFINE u == Len(y)
  <2> DEFINE v == Len(z)
  <2>1. s \in Nat
    BY LenOfType
  <2>2. f[d] \in Seq(Card) /\ f[c] \in Seq(Card)
    OBVIOUS
  <2>3. a \in Nat /\ b \in Nat /\ u \in Nat /\ v \in Nat /\ u + v = a + b
    BY <2>2, LenProperties
  <2>4. LenOf(h, n) = (s - a + u) - b + v
    BY <1>2, <1>4, <1>5, Zenon
  <2> HIDE DEF s, a, b, u, v
  <2>5. (s - a + u) - b + v = s
    BY <2>1, <2>3
  <2> QED
    BY <2>4, <2>5 DEF s
<1>8. ASSUME NEW x PROVE HeldBy(h, n, x) <=> HeldBy(f, n, x)
  <2> DEFINE else == \E i \in 1 .. n : i # c /\ i # d /\ x \in CardsIn(f[i])
  <2>1. HeldBy(f, n, x) <=> x \in CardsIn(f[d]) \/ x \in CardsIn(f[c]) \/ else
    BY DEF HeldBy
  <2>2. h[c] = z /\ h[d] = y /\ \A i \in 1 .. n : i # c /\ i # d => h[i] = f[i]
    BY <1>6
  <2>3. HeldBy(h, n, x) <=> x \in CardsIn(y) \/ x \in CardsIn(z) \/ else
    BY <2>2 DEF HeldBy
  <2> HIDE DEF else
  <2> QED
    BY <2>1, <2>3
<1> QED
  BY <1>4, <1>6, <1>7, <1>8 DEF h, m

LEMMA MoveKeeps ==
    ASSUME NEW g \in Tables, NEW c, NEW d, NEW n
    PROVE  move(g, c, d, n) \in Tables
<1>1. CASE ~MoveIsLegal(g, c, d, n)
  BY <1>1 DEF move
<1>2. CASE MoveIsLegal(g, c, d, n)
  <2> DEFINE p == g.tb[c]
  <2> DEFINE o == g.tb[d]
  <2> DEFINE i == Len(p) - n
  <2> DEFINE q == SubSeq(p, i + 1, i + n)
  <2> DEFINE y == o \o q
  <2> DEFINE z == face(SubSeq(p, 1, i))
  <2>1. /\ c # d /\ c \in 1 .. Columns /\ d \in 1 .. Columns /\ n \in 1 .. Len(p)
        /\ p[Len(p) - n + 1].f /\ CanPlace(g.tb, p[Len(p) - n + 1], d)
    BY <1>2, SuitsAre DEF MoveIsLegal
  <2>2. /\ p \in Seq(Card) /\ Column(p) /\ Len(p) \in Nat /\ o \in Seq(Card) /\ Column(o) /\ Len(o) \in Nat
    <3>1. Column(p) /\ Column(o)
      BY <2>1, TablesAre
    <3>2. p \in Seq(Card) /\ o \in Seq(Card)
      BY <3>1 DEF Column
    <3> HIDE DEF p, o
    <3> QED
      BY <3>1, <3>2, LenProperties
  <2>3. move(g, c, d, n) = [g EXCEPT !.tb[d] = y, !.tb[c] = z]
    BY <1>2, Zenon DEF move
  <2>4. move(g, c, d, n) = Made(g, g.st, g.wst, [[g.tb EXCEPT ![d] = y] EXCEPT ![c] = z], g.fd)
    <3>1. g = SolFields(g)
      BY TablesAre
    <3> HIDE DEF y, z
    <3>2. ToOther(g, d, y, c, z)
      BY <3>1, ToOtherIs
    <3> QED
      BY <2>3, <3>2, Zenon DEF ToOther
  <2>5. i \in Nat /\ i < Len(p) /\ i \in 0 .. Len(p) /\ i + n = Len(p) /\ Len(p) - n + 1 = i + 1
    BY <2>1, <2>2
  <2> HIDE DEF p, o, i
  <2>6. /\ Column(z) /\ Len(z) = i
        /\ \A x : x \in CardsIn(z) <=> \E k \in 1 .. i : x = Bare(p[k])
    BY <2>2, <2>5, CutColumn
  <2> HIDE DEF z
  <2>7. /\ Column(q) /\ Len(q) = Len(p) - i /\ q # <<>> /\ q[1] = p[i + 1]
        /\ \A x : x \in CardsIn(q) <=> \E k \in i + 1 .. Len(p) : x = Bare(p[k])
    <3>1. q = SubSeq(p, i + 1, Len(p))
      BY <2>5 DEF q
    <3>2. /\ Column(SubSeq(p, i + 1, Len(p))) /\ Len(SubSeq(p, i + 1, Len(p))) = Len(p) - i
          /\ SubSeq(p, i + 1, Len(p)) # <<>> /\ SubSeq(p, i + 1, Len(p))[1] = p[i + 1]
          /\ \A x : x \in CardsIn(SubSeq(p, i + 1, Len(p))) <=> \E k \in i + 1 .. Len(p) : x = Bare(p[k])
      BY <2>2, <2>5, TailColumn
    <3> QED
      BY <3>1, <3>2, Zenon
  <2> HIDE DEF q
  <2>8. q[1].f /\ (o # <<>> => LiesOn(q[1], o[Len(o)]))
    BY <2>1, <2>5, <2>7 DEF CanPlace, Last, o
  <2>9. /\ Column(y) /\ Len(y) = Len(o) + Len(q)
        /\ \A x : x \in CardsIn(y) <=> x \in CardsIn(o) \/ x \in CardsIn(q)
    BY <2>2, <2>7, <2>8, JoinColumn
  <2> HIDE DEF y
  <2>10. y \in Seq(Card) /\ z \in Seq(Card)
    BY <2>6, <2>9 DEF Column
  <2>11. Len(y) + Len(z) = Len(o) + Len(p)
    BY <2>2, <2>5, <2>6, <2>7, <2>9
  <2>12. \A x : x \in CardsIn(y) \/ x \in CardsIn(z) <=> x \in CardsIn(o) \/ x \in CardsIn(p)
    <3> SUFFICES ASSUME NEW x PROVE x \in CardsIn(p) <=> x \in CardsIn(q) \/ x \in CardsIn(z)
      BY <2>9
    <3>1. x \in CardsIn(p) <=> \E k \in 1 .. Len(p) : x = Bare(p[k])
      BY <2>2, CardsAre
    <3>2. \A k \in 1 .. Len(p) : k \in 1 .. i \/ k \in i + 1 .. Len(p)
      BY <2>2, <2>5
    <3>3. (\A k \in 1 .. i : k \in 1 .. Len(p)) /\ \A k \in i + 1 .. Len(p) : k \in 1 .. Len(p)
      BY <2>2, <2>5
    <3> QED
      BY <2>6, <2>7, <3>1, <3>2, <3>3
  <2> DEFINE tb == [[g.tb EXCEPT ![d] = y] EXCEPT ![c] = z]
  <2>13. /\ tb \in [1 .. Columns -> Seq(Card)]
         /\ \A k \in 1 .. Columns : tb[k] = IF k = c THEN z ELSE IF k = d THEN y ELSE g.tb[k]
         /\ LenOf(tb, Columns) = LenOf(g.tb, Columns)
         /\ \A x : HeldBy(tb, Columns, x) <=> HeldBy(g.tb, Columns, x)
    <3> DEFINE f == g.tb
    <3>1. f \in [1 .. Columns -> Seq(Card)] /\ Columns \in Nat
      BY TablesAre
    <3>2. Len(y) + Len(z) = Len(f[d]) + Len(f[c])
          /\ \A x : x \in CardsIn(y) \/ x \in CardsIn(z) <=> x \in CardsIn(f[d]) \/ x \in CardsIn(f[c])
      BY <2>11, <2>12 DEF o, p
    <3> HIDE DEF f
    <3>3. /\ [[f EXCEPT ![d] = y] EXCEPT ![c] = z] \in [1 .. Columns -> Seq(Card)]
          /\ \A k \in 1 .. Columns : [[f EXCEPT ![d] = y] EXCEPT ![c] = z][k]
                                     = IF k = c THEN z ELSE IF k = d THEN y ELSE f[k]
          /\ LenOf([[f EXCEPT ![d] = y] EXCEPT ![c] = z], Columns) = LenOf(f, Columns)
          /\ \A x : HeldBy([[f EXCEPT ![d] = y] EXCEPT ![c] = z], Columns, x) <=> HeldBy(f, Columns, x)
      BY <2>1, <2>10, <3>1, <3>2, TwoChange
    <3> QED
      BY <3>3, Zenon DEF f
  <2> HIDE DEF tb
  <2>14. \A k \in 1 .. Columns : Column(tb[k])
    BY <2>6, <2>9, <2>13, TablesAre
  <2>15. MayBe(g, g.st, g.wst, tb, g.fd)
    <3>1. /\ g.st \in Seq(Card) /\ g.wst \in Seq(Card) /\ g.fd \in [1 .. NPiles -> Seq(Card)]
          /\ (\A k \in 1 .. NPiles : Suited(g.fd[k])) /\ (\A k \in 1 .. Len(g.wst) : g.wst[k].f)
          /\ Cols = 1 .. Columns /\ Piles = 1 .. NPiles
          /\ Size(g) = Len(g.st) + Len(g.wst) + LenOf(g.tb, Columns) + LenOf(g.fd, NPiles)
      BY TablesAre
    <3>2. Len(g.st) + Len(g.wst) + LenOf(tb, Columns) + LenOf(g.fd, NPiles) = Size(g)
      BY <2>13, <3>1, Zenon
    <3>3. \A x : x \in CardsIn(g.st) \/ x \in CardsIn(g.wst) \/ HeldBy(tb, Columns, x) \/ HeldBy(g.fd, NPiles, x)
                <=> Holds(g, x)
      BY <2>13 DEF Holds
    <3> QED
      BY <2>13, <2>14, <3>1, <3>2, <3>3 DEF MayBe
  <2>16. move(g, c, d, n) = Made(g, g.st, g.wst, tb, g.fd)
    BY <2>4, Zenon DEF tb
  <2> QED
    BY <2>15, <2>16, TableMade
<1> QED
  BY <1>1, <1>2

\* The columns, one after the other.
LEMMA AutoPassKeeps ==
    ASSUME NEW g \in Tables
    PROVE  AutoPass(g) \in Tables
<1> DEFINE n == Columns
<1> DEFINE T == Tables
<1> DEFINE step(h) == [i \in 0 .. n |-> IF i = 0 THEN g ELSE AutoColumn(h[i - 1], i)]
<1> DEFINE F == [p \in Nat \X T |-> IF p[1] \in 1 .. n THEN AutoColumn(p[2], p[1]) ELSE p[2]]
<1>1. n \in Nat
  BY SuitsAre
<1>2. ASSUME NEW a \in T, NEW i \in 1 .. n PROVE AutoColumn(a, i) \in T
  BY AutoColumnKeeps
<1>3. g \in T
  OBVIOUS
<1> HIDE DEF n, T
<1>4. F \in [Nat \X T -> T]
  BY <1>2
<1>5. \E f : Recursive_(f, T, g, F, n)
  <2> HIDE DEF F
  <2> QED
    BY <1>1, <1>3, <1>4, Recursion
<1>6. PICK f : Recursive_(f, T, g, F, n)
  BY <1>5
<1>7. f \in [0 .. n -> T] /\ f[0] = g
  BY <1>6 DEF Recursive_
<1>8. ASSUME NEW i \in 1 .. n PROVE f[i] = AutoColumn(f[i - 1], i)
  <2>1. f[i] = F[<<i, f[i - 1]>>]
    <3> HIDE DEF F
    <3> QED
      BY <1>6 DEF Recursive_
  <2>2. i \in Nat /\ i - 1 \in 0 .. n
    BY <1>1
  <2>3. f[i - 1] \in T
    BY <1>7, <2>2
  <2> QED
    BY <2>1, <2>2, <2>3
<1>9. f = step(f)
  <2>1. \A i \in 0 .. n : i # 0 => i \in 1 .. n
    BY <1>1
  <2> QED
    BY <1>7, <1>8, <2>1
<1>10. \E h : h = step(h) /\ AutoPass(g) = h[n]
  BY <1>9 DEF AutoPass, n
<1>11. PICK h : h = step(h) /\ AutoPass(g) = h[n]
  BY <1>10
<1>12. ASSUME NEW i \in 0 .. n PROVE h[i] = IF i = 0 THEN g ELSE AutoColumn(h[i - 1], i)
  <2>1. h[i] = step(h)[i]
    BY <1>11
  <2> QED
    BY <2>1
<1> DEFINE S == {i \in Nat : i \in 0 .. n => h[i] \in T}
<1>13. 0 \in S
  BY <1>3, <1>12
<1>14. ASSUME NEW i \in Nat, i \in S PROVE i + 1 \in S
  <2> SUFFICES ASSUME i + 1 \in 0 .. n PROVE h[i + 1] \in T
    OBVIOUS
  <2>1. h[i] \in T /\ i + 1 \in 1 .. n /\ (i + 1) - 1 = i /\ i + 1 # 0
    BY <1>1, <1>14
  <2>2. h[i + 1] = AutoColumn(h[i], i + 1)
    BY <1>12, <2>1
  <2> QED
    BY <1>2, <2>1, <2>2
<1>15. Nat \subseteq S
  <2> HIDE DEF S
  <2> QED
    BY <1>13, <1>14, SetInduction
<1>16. h[n] \in T
  BY <1>1, <1>15
<1> QED
  BY <1>11, <1>16 DEF T

\* Passes until nothing moves.
LEMMA AutoKeeps ==
    ASSUME NEW g \in Tables
    PROVE  auto(g) \in Tables
<1> DEFINE n == Cardinality(Deck)
<1> DEFINE T == Tables
<1> DEFINE step(h) == [i \in 0 .. n |-> IF i = 0 THEN g ELSE AutoPass(h[i - 1])]
<1> DEFINE F == [p \in Nat \X T |-> IF p[1] \in 1 .. n THEN AutoPass(p[2]) ELSE p[2]]
<1>1. n \in Nat
  BY SuitsAre, FS_CardinalityType
<1>2. ASSUME NEW a \in T PROVE AutoPass(a) \in T
  BY AutoPassKeeps
<1>3. g \in T
  OBVIOUS
<1> HIDE DEF n, T
<1>4. F \in [Nat \X T -> T]
  BY <1>2
<1>5. \E f : Recursive_(f, T, g, F, n)
  <2> HIDE DEF F
  <2> QED
    BY <1>1, <1>3, <1>4, Recursion
<1>6. PICK f : Recursive_(f, T, g, F, n)
  BY <1>5
<1>7. f \in [0 .. n -> T] /\ f[0] = g
  BY <1>6 DEF Recursive_
<1>8. ASSUME NEW i \in 1 .. n PROVE f[i] = AutoPass(f[i - 1])
  <2>1. f[i] = F[<<i, f[i - 1]>>]
    <3> HIDE DEF F
    <3> QED
      BY <1>6 DEF Recursive_
  <2>2. i \in Nat /\ i - 1 \in 0 .. n
    BY <1>1
  <2>3. f[i - 1] \in T
    BY <1>7, <2>2
  <2> QED
    BY <2>1, <2>2, <2>3
<1>9. f = step(f)
  <2>1. \A i \in 0 .. n : i # 0 => i \in 1 .. n
    BY <1>1
  <2> QED
    BY <1>7, <1>8, <2>1
<1>10. \E h : h = step(h) /\ auto(g) = h[n]
  BY <1>9 DEF auto, n
<1>11. PICK h : h = step(h) /\ auto(g) = h[n]
  BY <1>10
<1>12. ASSUME NEW i \in 0 .. n PROVE h[i] = IF i = 0 THEN g ELSE AutoPass(h[i - 1])
  <2>1. h[i] = step(h)[i]
    BY <1>11
  <2> QED
    BY <2>1
<1> DEFINE S == {i \in Nat : i \in 0 .. n => h[i] \in T}
<1>13. 0 \in S
  BY <1>3, <1>12
<1>14. ASSUME NEW i \in Nat, i \in S PROVE i + 1 \in S
  <2> SUFFICES ASSUME i + 1 \in 0 .. n PROVE h[i + 1] \in T
    OBVIOUS
  <2>1. h[i] \in T /\ i + 1 \in 1 .. n /\ (i + 1) - 1 = i /\ i + 1 # 0
    BY <1>1, <1>14
  <2>2. h[i + 1] = AutoPass(h[i])
    BY <1>12, <2>1
  <2> QED
    BY <1>2, <2>1, <2>2
<1>15. Nat \subseteq S
  <2> HIDE DEF S
  <2> QED
    BY <1>13, <1>14, SetInduction
<1>16. h[n] \in T
  BY <1>1, <1>15
<1> QED
  BY <1>11, <1>16 DEF T

\* A command that does not panic.
LEMMA ExecutedKeeps ==
    ASSUME NEW g \in Tables, NEW ws \in Commands, ~Panics(g, ws)
    PROVE  Executed(g, ws) \in Tables
<1>1. ws \in Seq(Int) /\ ws # <<>>
  OBVIOUS
<1>2. ws[1] \in Int
  BY <1>1
<1> DEFINE c == Number(ws[1])
<1> DEFINE d == Number(ws[2])
<1> DEFINE n == IF Len(ws) >= 3 THEN Number(ws[3]) ELSE 1
<1>3. \/ Executed(g, ws) = draw(g)
      \/ Executed(g, ws) = g
      \/ ~IsColumnLine(ws) /\ IsWasteLine(ws) /\ Executed(g, ws) = FromWaste(g, d)
      \/ Executed(g, ws) = move(g, c, d, n)
  <2> HIDE DEF c, d, n
  <2> DEFINE other == ws # <<D>> /\ ~IsColumnLine(ws) /\ ~IsWasteLine(ws) /\ Len(ws) >= 2
  <2>1. Executed(g, ws) = CASE ws = <<D>> -> draw(g)
                            [] IsColumnLine(ws) -> g
                            [] IsWasteLine(ws) -> FromWaste(g, d)
                            [] other -> move(g, c, d, n)
                            [] OTHER -> g
    BY Zenon DEF Executed, c, d, n
  <2>2. ws = <<D>> => ~IsColumnLine(ws) /\ ~IsWasteLine(ws)
    BY DEF D, W, IsColumnLine, IsWasteLine, IsNumber
  <2>3. IsColumnLine(ws) => ~IsWasteLine(ws)
    BY DEF D, W, IsColumnLine, IsWasteLine, IsNumber
  <2>4. other => ws # <<D>> /\ ~IsColumnLine(ws) /\ ~IsWasteLine(ws)
    OBVIOUS
  <2> HIDE DEF other
  <2> QED
    BY <2>1, <2>2, <2>3, <2>4
<1>4. ASSUME ~IsColumnLine(ws) /\ IsWasteLine(ws) PROVE FromWaste(g, d) \in Tables
  <2>1. CASE g.wst = <<>>
    BY <2>1 DEF FromWaste
  <2>2. CASE g.wst # <<>>
    <3>1. d \in 1 .. Columns
      BY <1>4, <2>2, SuitsAre DEF Panics
    <3> QED
      BY <3>1, FromWasteKeeps
  <2> QED
    BY <2>1, <2>2
<1> HIDE DEF c, d, n
<1> QED
  BY <1>3, <1>4, DrawKeeps, MoveKeeps

\* The foundations are complete exactly when they have all cards.
LEMMA CompleteIs ==
    ASSUME NEW g \in Tables
    PROVE  Complete(g) <=> AllUp(g)
<1> DEFINE N == NPiles
<1>1. Table(g) /\ N \in Nat /\ Piles = 1 .. N /\ Cols = 1 .. Columns /\ Columns \in Nat /\ Ranks \in Nat /\ Ranks >= 1
  BY SuitsAre DEF Tables
<1>2. /\ g.fd \in [1 .. N -> Seq(Card)] /\ g.tb \in [1 .. Columns -> Seq(Card)]
      /\ g.st \in Seq(Card) /\ g.wst \in Seq(Card)
      /\ (\A i \in 1 .. N : Suited(g.fd[i]))
      /\ Size(g) = Len(g.st) + Len(g.wst) + LenOf(g.tb, Columns) + LenOf(g.fd, N)
      /\ Len(g.st) \in Nat /\ Len(g.wst) \in Nat /\ LenOf(g.tb, Columns) \in Nat
  BY TablesAre
<1> HIDE DEF N
<1>3. ASSUME Complete(g) PROVE AllUp(g)
  <2>1. \A i \in 1 .. N : Len(g.fd[i]) = Ranks
    BY <1>1, <1>3 DEF Complete
  <2> DEFINE a == [i \in 1 .. N |-> Len(g.fd[i])]
  <2>2. \A i \in 1 .. N : a[i] = Ranks
    BY <2>1
  <2> HIDE DEF a
  <2>3. SumTo(a, N) = N * Ranks
    BY <1>1, <2>2, SumConstant
  <2>4. LenOf(g.fd, N) = N * Ranks
    BY <2>3, Zenon DEF LenOf, a
  <2>5. Size(g) = N * Ranks
    BY <1>1, SuitsAre DEF Table, N
  <2> DEFINE u == N * Ranks
  <2>6. u \in Int
    BY <1>1
  <2>7. Size(g) = u /\ LenOf(g.fd, N) = u
    BY <2>4, <2>5
  <2> HIDE DEF u
  <2>8. Len(g.st) = 0 /\ Len(g.wst) = 0 /\ LenOf(g.tb, Columns) = 0
    <3> DEFINE a1 == Len(g.st)
    <3> DEFINE b1 == Len(g.wst)
    <3> DEFINE t1 == LenOf(g.tb, Columns)
    <3>1. a1 \in Nat /\ b1 \in Nat /\ t1 \in Nat /\ u = a1 + b1 + t1 + u
      BY <1>2, <2>7
    <3> HIDE DEF a1, b1, t1
    <3>2. a1 = 0 /\ b1 = 0 /\ t1 = 0
      BY <2>6, <3>1
    <3> QED
      BY <3>2 DEF a1, b1, t1
  <2>9. g.st = <<>> /\ g.wst = <<>>
    BY <1>2, <2>8
  <2>10. ASSUME NEW i \in 1 .. Columns PROVE g.tb[i] = <<>>
    <3> DEFINE b == [k \in 1 .. Columns |-> Len(g.tb[k])]
    <3>1. \A k \in 1 .. Columns : g.tb[k] \in Seq(Card) /\ Len(g.tb[k]) \in Nat
      BY <1>2
    <3>2. \A k \in 1 .. Columns : b[k] = Len(g.tb[k]) /\ b[k] \in Nat
      BY <3>1
    <3>3. LenOf(g.tb, Columns) = SumTo(b, Columns)
      BY Zenon DEF LenOf
    <3> HIDE DEF b
    <3>4. SumTo(b, Columns) = 0 => \A k \in 1 .. Columns : b[k] = 0
      BY <1>1, <3>2, SumNat
    <3>5. Len(g.tb[i]) = 0
      BY <2>8, <3>2, <3>3, <3>4
    <3> QED
      BY <3>1, <3>5
  <2>11. ASSUME NEW x \in Deck PROVE \E i \in 1 .. N : x \in CardsIn(g.fd[i])
    <3>1. Holds(g, x)
      BY <1>1 DEF Table
    <3>2. ~HeldBy(g.tb, Columns, x)
      BY <2>10, NoCards DEF HeldBy
    <3>3. HeldBy(g.fd, N, x)
      BY <2>9, <3>1, <3>2, NoCards DEF Holds, N
    <3> QED
      BY <3>3 DEF HeldBy
  <2> QED
    BY <1>1, <2>11 DEF AllUp
<1>4. ASSUME AllUp(g) PROVE Complete(g)
  <2>1. ASSUME NEW s \in Suits PROVE \E i \in 1 .. N : Len(g.fd[i]) = Ranks /\ g.fd[i][1].s = s
    <3>1. Ranks \in 1 .. Ranks
      BY <1>1
    <3>2. [s |-> s, r |-> Ranks] \in Deck
      BY <3>1 DEF Deck
    <3>3. PICK i \in 1 .. N : [s |-> s, r |-> Ranks] \in CardsIn(g.fd[i])
      BY <1>1, <1>4, <3>2 DEF AllUp
    <3> DEFINE p == g.fd[i]
    <3>4. p \in Seq(Card) /\ \A k \in 1 .. Len(p) : p[k].r = k /\ p[k].s = p[1].s
      BY <1>2 DEF Suited
    <3> HIDE DEF p
    <3>5. Len(p) \in Nat /\ (\A k \in 1 .. Len(p) : p[k] \in Card) /\ \E k \in 1 .. Len(p) : [s |-> s, r |-> Ranks] = Bare(p[k])
      <4>1. [s |-> s, r |-> Ranks] \in CardsIn(p)
        BY <3>3 DEF p
      <4> QED
        BY <3>4, <4>1, CardsAre
    <3>6. PICK k \in 1 .. Len(p) : [s |-> s, r |-> Ranks] = Bare(p[k])
      BY <3>5
    <3>7. p[k].s = s /\ p[k].r = Ranks
      BY <3>6 DEF Bare
    <3>8. k = Ranks /\ p[1].s = s
      BY <3>4, <3>7
    <3>9. Len(p) \in 1 .. Len(p) /\ p[Len(p)].r = Len(p)
      BY <3>4, <3>5, <3>6
    <3>10. p[Len(p)].r \in 1 .. Ranks
      BY <3>5, <3>9, CardIs
    <3>11. Len(p) = Ranks
      BY <1>1, <3>5, <3>8, <3>9, <3>10
    <3> QED
      BY <3>8, <3>11 DEF p
  <2> DEFINE f == [s \in Suits |-> CHOOSE i \in 1 .. N : Len(g.fd[i]) = Ranks /\ g.fd[i][1].s = s]
  <2>2. ASSUME NEW s \in Suits PROVE f[s] \in 1 .. N /\ Len(g.fd[f[s]]) = Ranks /\ g.fd[f[s]][1].s = s
    BY <2>1
  <2>3. f \in [Suits -> 1 .. N]
    BY <2>2
  <2> HIDE DEF f
  <2>4. \A s, t \in Suits : f[s] = f[t] => s = t
    BY <2>2
  <2>5. f \in Injection(Suits, 1 .. N)
    BY <2>3, <2>4, Fun_IsInj
  <2>6. IsFiniteSet(1 .. N) /\ Cardinality(1 .. N) = Cardinality(Suits)
    <3>1. 1 \in Int /\ N \in Int
      BY <1>1
    <3>2. IsFiniteSet(1 .. N) /\ Cardinality(1 .. N) = N
      BY <1>1, <3>1, FS_Interval
    <3> QED
      BY <3>2 DEF N, NPiles
  <2>7. f \in Surjection(Suits, 1 .. N)
    BY <2>5, <2>6, FS_Injection
  <2>8. ASSUME NEW i \in 1 .. N PROVE Len(g.fd[i]) = Ranks
    <3>1. \E s \in Suits : f[s] = i
      BY <2>7 DEF Surjection
    <3> QED
      BY <2>2, <3>1
  <2> QED
    BY <1>1, <2>8 DEF Complete
<1> QED
  BY <1>3, <1>4

\* The rounds of the deal: each begins where the last ended, and together they use as many
\* cards as the columns get.
LEMMA Rounds ==
    /\ \A i \in 1 .. Columns + 1 : DealtBefore(i) \in Nat
    /\ DealtBefore(1) = 0
    /\ \A i \in 1 .. Columns : DealtBefore(i + 1) = DealtBefore(i) + (Columns + 1 - i)
    /\ DealtBefore(Columns + 1) = SumTo([k \in 1 .. Columns |-> k], Columns)
<1> DEFINE f == [k \in 1 .. Columns |-> Columns + 1 - k]
<1> DEFINE g == [k \in 1 .. Columns |-> k]
<1>1. Columns \in Nat /\ Cols = 1 .. Columns
  BY SuitsAre
<1>2. \A k \in 1 .. Columns : f[k] \in Nat /\ f[k] = Columns + 1 - k /\ g[k] \in Int /\ f[k] \in Int
                              /\ f[k] = g[Columns + 1 - k]
  BY <1>1
<1>3. \A i : DealtBefore(i) = SumTo(f, i - 1)
  BY <1>1, Zenon DEF DealtBefore
<1> HIDE DEF f, g
<1>4. ASSUME NEW i \in 1 .. Columns + 1 PROVE DealtBefore(i) \in Nat
  <2>1. i - 1 \in Nat /\ \A k \in 1 .. i - 1 : k \in 1 .. Columns
    BY <1>1
  <2>2. \A k \in 1 .. i - 1 : f[k] \in Nat
    BY <1>2, <2>1
  <2>3. SumTo(f, i - 1) \in Nat
    BY <2>1, <2>2, SumNat
  <2> QED
    BY <1>3, <2>3
<1>5. DealtBefore(1) = 0
  <2>1. 1 - 1 = 0
    OBVIOUS
  <2> QED
    BY <1>3, <2>1, SumZero
<1>6. ASSUME NEW i \in 1 .. Columns PROVE DealtBefore(i + 1) = DealtBefore(i) + (Columns + 1 - i)
  <2> DEFINE m == i - 1
  <2>1. m \in Nat /\ (\A k \in 1 .. m + 1 : k \in 1 .. Columns) /\ m + 1 = i /\ (i + 1) - 1 = m + 1
    BY <1>1
  <2>2. \A k \in 1 .. m + 1 : f[k] \in Int
    BY <1>2, <2>1
  <2>3. DealtBefore(i) = SumTo(f, m)
    BY <1>3
  <2> HIDE DEF m
  <2>4. SumTo(f, m) \in Int /\ SumTo(f, m + 1) = SumTo(f, m) + f[m + 1]
    BY <2>1, <2>2, SumNext
  <2>5. DealtBefore(i + 1) = SumTo(f, m + 1)
    BY <1>3, <2>1
  <2>6. f[m + 1] = Columns + 1 - i
    BY <1>2, <2>1
  <2> QED
    BY <2>3, <2>4, <2>5, <2>6
<1>7. DealtBefore(Columns + 1) = SumTo(g, Columns)
  <2>1. Ints(g, Columns) /\ Turned(g, f, Columns)
    BY <1>2 DEF Ints, Turned
  <2>2. SumTo(f, Columns) = SumTo(g, Columns)
    BY <1>1, <2>1, SumReverse
  <2>3. (Columns + 1) - 1 = Columns
    BY <1>1
  <2> QED
    BY <1>3, <2>2, <2>3
<1> QED
  BY <1>4, <1>5, <1>6, <1>7 DEF g

\* Each of the cards used is dealt in one of the rounds.
LEMMA RoundOf ==
    ASSUME NEW m \in Nat, m >= 1, m <= DealtBefore(Columns + 1)
    PROVE  \E i \in 1 .. Columns, j \in 1 .. Columns : i <= j /\ m = DealtBefore(i) + j - i + 1
<1> DEFINE S == {n \in Nat : n <= Columns /\ m <= DealtBefore(n + 1)}
<1>1. Columns \in Nat
  BY SuitsAre
<1>2. Columns \in S
  BY <1>1
<1>3. PICK n \in S : \A k \in S : n <= k
  <2>1. S \in SUBSET Nat /\ S # {}
    BY <1>2
  <2> HIDE DEF S
  <2> QED
    BY <2>1, Least
<1>4. n \in Nat /\ n <= Columns /\ m <= DealtBefore(n + 1)
  BY <1>3
<1>5. n # 0
  <2>1. 0 + 1 = 1 /\ DealtBefore(1) = 0
    BY Rounds
  <2> QED
    BY <1>4, <2>1
<1>6. n \in 1 .. Columns /\ n - 1 \in Nat /\ n - 1 <= Columns /\ ~(n <= n - 1) /\ (n - 1) + 1 = n /\ n \in 1 .. Columns + 1
  BY <1>1, <1>4, <1>5
<1>7. ~(m <= DealtBefore(n))
  <2>1. n - 1 \notin S
    BY <1>3, <1>6
  <2> QED
    BY <1>6, <2>1
<1>8. DealtBefore(n) \in Nat /\ DealtBefore(n + 1) = DealtBefore(n) + (Columns + 1 - n)
  BY <1>6, Rounds
<1> DEFINE b == DealtBefore(n)
<1> DEFINE j == m - b - 1 + n
<1>9. b \in Nat /\ m > b /\ m <= b + (Columns + 1 - n)
  BY <1>4, <1>7, <1>8
<1> HIDE DEF b
<1>10. j \in 1 .. Columns /\ n <= j /\ m = b + j - n + 1
  BY <1>1, <1>6, <1>9
<1> QED
  BY <1>6, <1>10 DEF b

\* The cards used are not more than there are, and more than none.
LEMMA Used ==
    /\ DealtBefore(Columns + 1) \in Nat \ {0} /\ Cardinality(Deck) \in Nat
    /\ DealtBefore(Columns + 1) <= Cardinality(Deck)
<1>1. Columns \in Nat /\ Columns >= 1 /\ Columns + 1 \in 1 .. Columns + 1 /\ 1 \in 1 .. Columns /\ 2 \in 1 .. Columns + 1
  BY SuitsAre
<1>2. DealtBefore(Columns + 1) \in Nat /\ DealtBefore(Columns + 1) = SumTo([k \in 1 .. Columns |-> k], Columns)
  BY <1>1, Rounds
<1>3. Cardinality(Deck) = NPiles * Ranks /\ Cardinality(Deck) \in Nat
  BY SuitsAre, FS_CardinalityType
<1>4. SumTo([k \in 1 .. Columns |-> k], Columns) <= NPiles * Ranks
  BY DEF NPiles
<1>5. DealtBefore(Columns + 1) # 0
  <2> DEFINE g == [k \in 1 .. Columns |-> k]
  <2>1. \A k \in 1 .. Columns : g[k] \in Nat
    OBVIOUS
  <2>2. g[1] # 0
    BY <1>1
  <2> HIDE DEF g
  <2>3. SumTo(g, Columns) # 0
    BY <1>1, <2>1, <2>2, SumNat
  <2> QED
    BY <1>2, <2>3 DEF g
<1> QED
  BY <1>2, <1>3, <1>4, <1>5

\* A deal has every card once.
LEMMA DealHasAll ==
    ASSUME NEW d \in SetToSeqs(Deck)
    PROVE  /\ Len(d) = Cardinality(Deck) /\ \A i \in 1 .. Cardinality(Deck) : d[i] \in Deck
           /\ \A x \in Deck : \E i \in 1 .. Cardinality(Deck) : d[i] = x
<1> DEFINE n == Cardinality(Deck)
<1>1. n \in Nat /\ IsFiniteSet(Deck)
  BY SuitsAre, FS_CardinalityType
<1>2. d \in [1 .. n -> Deck] /\ \A i, j \in 1 .. n : i # j => d[i] # d[j]
  BY DEF SetToSeqs
<1> HIDE DEF n
<1>3. Len(d) = n
  BY <1>1, <1>2
<1>4. d \in Injection(1 .. n, Deck)
  <2>1. \A i, j \in 1 .. n : d[i] = d[j] => i = j
    BY <1>2
  <2> QED
    BY <1>2, <2>1, Fun_IsInj
<1>5. Cardinality(1 .. n) = Cardinality(Deck)
  <2>1. 1 \in Int /\ n \in Int
    BY <1>1
  <2>2. Cardinality(1 .. n) = n
    BY <1>1, <2>1, FS_Interval
  <2> QED
    BY <2>2 DEF n
<1>6. d \in Surjection(1 .. n, Deck)
  BY <1>1, <1>4, <1>5, FS_Injection
<1>7. \A x \in Deck : \E i \in 1 .. n : d[i] = x
  BY <1>6 DEF Surjection
<1> QED
  BY <1>2, <1>3, <1>7 DEF n

\* The columns that are dealt.
LEMMA DealtAre ==
    ASSUME NEW d \in SetToSeqs(Deck)
    PROVE  /\ Dealt(d) \in [1 .. Columns -> Seq(Card)]
           /\ \A j \in 1 .. Columns : Column(Dealt(d)[j]) /\ Len(Dealt(d)[j]) = j
           /\ \A i, j \in 1 .. Columns : i <= j => Bare(Dealt(d)[j][i]) = d[DealtBefore(i) + j - i + 1]
           /\ LenOf(Dealt(d), Columns) = DealtBefore(Columns + 1)
<1> DEFINE used == DealtBefore(Columns + 1)
<1> DEFINE t == Dealt(d)
<1>1. Columns \in Nat /\ Cols = 1 .. Columns
  BY SuitsAre
<1>2. used \in Nat /\ used <= Cardinality(Deck) /\ Cardinality(Deck) \in Nat
  BY Used
<1>3. ASSUME NEW j \in 1 .. Columns, NEW i \in 1 .. Columns, i <= j
      PROVE  DealtBefore(i) + j - i + 1 \in 1 .. used
  <2> DEFINE S == {n \in Nat : n <= Columns /\ i <= n => DealtBefore(i) + (Columns + 1 - i) <= DealtBefore(n + 1)}
  <2>1. DealtBefore(i) \in Nat /\ DealtBefore(i + 1) = DealtBefore(i) + (Columns + 1 - i) /\ i \in Nat /\ i \in 1 .. Columns + 1
    BY <1>1, Rounds
  <2>2. 0 \in S
    BY <1>1
  <2>3. ASSUME NEW n \in Nat, n \in S PROVE n + 1 \in S
    <3> SUFFICES ASSUME n + 1 <= Columns, i <= n + 1
                 PROVE  DealtBefore(i) + (Columns + 1 - i) <= DealtBefore((n + 1) + 1)
      OBVIOUS
    <3>1. CASE i = n + 1
      <4>1. DealtBefore(i) + (Columns + 1 - i) \in Int
        BY <1>1, <2>1
      <4> QED
        BY <2>1, <3>1, <4>1
    <3>2. CASE i # n + 1
      <4>1. DealtBefore(i) + (Columns + 1 - i) <= DealtBefore(n + 1)
        BY <1>1, <2>3, <3>2
      <4>2. n + 1 \in 1 .. Columns /\ n + 1 \in 1 .. Columns + 1
        BY <1>1
      <4>3. DealtBefore(n + 1) \in Nat /\ DealtBefore((n + 1) + 1) = DealtBefore(n + 1) + (Columns + 1 - (n + 1))
        BY <4>2, Rounds
      <4> DEFINE a == DealtBefore(i) + (Columns + 1 - i)
      <4> DEFINE b == DealtBefore(n + 1)
      <4> DEFINE c == DealtBefore((n + 1) + 1)
      <4>4. a \in Int /\ b \in Nat /\ a <= b /\ c = b + (Columns + 1 - (n + 1))
        BY <1>1, <2>1, <4>1, <4>3
      <4> HIDE DEF a, b, c
      <4>5. a <= c
        BY <1>1, <4>2, <4>4
      <4> QED
        BY <4>5 DEF a, c
    <3> QED
      BY <3>1, <3>2
  <2>4. Nat \subseteq S
    <3> HIDE DEF S
    <3> QED
      BY <2>2, <2>3, SetInduction
  <2>5. DealtBefore(i) + (Columns + 1 - i) <= used
    BY <1>1, <2>4
  <2> DEFINE a == DealtBefore(i)
  <2> HIDE DEF a, used
  <2>6. a \in Nat /\ a + (Columns + 1 - i) <= used
    BY <2>1, <2>5 DEF a
  <2>7. a + j - i + 1 \in 1 .. used
    BY <1>1, <1>2, <1>3, <2>1, <2>6
  <2> QED
    BY <2>7 DEF a
<1>4. ASSUME NEW j \in 1 .. Columns
      PROVE  /\ t[j] \in Seq(Card) /\ Len(t[j]) = j
             /\ \A i \in 1 .. j : /\ Bare(t[j][i]) = d[DealtBefore(i) + j - i + 1]
                                  /\ t[j][i].f <=> i = j
  <2> DEFINE c(i) == d[DealtBefore(i) + j - i + 1]
  <2>1. t[j] = [i \in 1 .. j |-> IF i = j THEN Shown(c(i)) ELSE Hidden(c(i))]
    BY <1>1 DEF Dealt
  <2>2. ASSUME NEW i \in 1 .. j PROVE c(i) \in Deck
    <3>1. i \in 1 .. Columns /\ i <= j
      BY <1>1
    <3>2. DealtBefore(i) + j - i + 1 \in 1 .. used
      BY <1>3, <3>1
    <3>3. DealtBefore(i) + j - i + 1 \in 1 .. Cardinality(Deck)
      <4> DEFINE m == DealtBefore(i) + j - i + 1
      <4> HIDE DEF m, used
      <4> SUFFICES m \in 1 .. Cardinality(Deck) BY DEF m
      <4>1. m \in 1 .. used
        BY <3>2 DEF m
      <4> QED
        BY <1>2, <4>1
    <3> QED
      BY <3>3, DealHasAll
  <2> HIDE DEF c
  <2>3. \A x \in Deck : /\ Shown(x) \in Card /\ Bare(Shown(x)) = x /\ Shown(x).f = TRUE
                        /\ Hidden(x) \in Card /\ Bare(Hidden(x)) = x /\ Hidden(x).f = FALSE
    BY DEF Deck, Card, Shown, Hidden, Bare
  <2>4. ASSUME NEW i \in 1 .. j
        PROVE  t[j][i] \in Card /\ Bare(t[j][i]) = c(i) /\ (t[j][i].f <=> i = j)
    <3>1. t[j][i] = IF i = j THEN Shown(c(i)) ELSE Hidden(c(i))
      BY <2>1
    <3> QED
      BY <2>2, <2>3, <3>1
  <2>5. t[j] \in [1 .. j -> Card]
    BY <2>1, <2>4
  <2>6. t[j] \in Seq(Card) /\ Len(t[j]) = j
    BY <2>5
  <2> QED
    BY <2>4, <2>6 DEF c
<1>5. t = [j \in 1 .. Columns |-> t[j]]
  BY <1>1 DEF Dealt
<1> HIDE DEF t, used
<1>6. t \in [1 .. Columns -> Seq(Card)]
  BY <1>4, <1>5
<1>7. ASSUME NEW j \in 1 .. Columns PROVE Column(t[j])
  <2>1. t[j] \in Seq(Card) /\ Len(t[j]) = j /\ \A i \in 1 .. j : t[j][i].f <=> i = j
    BY <1>4
  <2>2. \A i \in 1 .. j - 1 : i \in 1 .. j /\ i # j
    BY <1>1
  <2>3. j \in 1 .. j
    BY <1>1
  <2> QED
    BY <2>1, <2>2, <2>3 DEF Column, Descends
<1>8. LenOf(t, Columns) = used
  <2> DEFINE a == [i \in 1 .. Columns |-> Len(t[i])]
  <2> DEFINE b == [k \in 1 .. Columns |-> k]
  <2>1. \A k \in 1 .. Columns : a[k] = k /\ b[k] = k
    BY <1>4
  <2>2. a = b
    BY <1>4
  <2>3. LenOf(t, Columns) = SumTo(a, Columns)
    BY Zenon DEF LenOf
  <2>4. used = SumTo(b, Columns)
    BY Rounds DEF used
  <2> QED
    BY <2>2, <2>3, <2>4, Zenon
<1>9. \A i, j \in 1 .. Columns : i <= j => Bare(t[j][i]) = d[DealtBefore(i) + j - i + 1]
  BY <1>1, <1>4
<1> QED
  BY <1>4, <1>6, <1>7, <1>8, <1>9 DEF t, used

\* What stays true of a game of solitaire: each card lies in one place and as it may, and
\* the game is won exactly when the foundations have all cards.
SolInv == sol.play = "idle" \/ (sol \in Tables /\ (sol.wn <=> AllUp(sol)))

\* A new game.
LEMMA NewSolIs ==
    ASSUME NEW d \in SetToSeqs(Deck), NEW g,
           g = [play |-> "on", st |-> [i \in 1 .. Len(d) - DealtBefore(Columns + 1) |->
                                           Hidden(d[DealtBefore(Columns + 1) + i])],
                wst |-> <<>>, tb |-> Dealt(d), fd |-> [i \in Piles |-> <<>>], wn |-> FALSE]
    PROVE  g \in Tables /\ g.wn = FALSE /\ ~AllUp(g)
<1> DEFINE n == Cardinality(Deck)
<1> DEFINE used == DealtBefore(Columns + 1)
<1> DEFINE N == NPiles
<1>1. /\ Columns \in Nat /\ Cols = 1 .. Columns /\ N \in Nat /\ Piles = 1 .. N
      /\ used \in Nat \ {0} /\ n \in Nat /\ used <= n
  BY SuitsAre, Used
<1>2. /\ Len(d) = n /\ (\A i \in 1 .. n : d[i] \in Deck) /\ \A x \in Deck : \E i \in 1 .. n : d[i] = x
  BY DealHasAll
<1>3. /\ Dealt(d) \in [1 .. Columns -> Seq(Card)]
      /\ \A j \in 1 .. Columns : Column(Dealt(d)[j]) /\ Len(Dealt(d)[j]) = j
      /\ \A i, j \in 1 .. Columns : i <= j => Bare(Dealt(d)[j][i]) = d[DealtBefore(i) + j - i + 1]
      /\ LenOf(Dealt(d), Columns) = used
  BY DealtAre
<1>4. /\ g.play = "on" /\ g.wst = <<>> /\ g.tb = Dealt(d) /\ g.fd = [i \in Piles |-> <<>>] /\ g.wn = FALSE
      /\ g.st = [i \in 1 .. n - used |-> Hidden(d[used + i])]
  BY <1>2
<1>20. \A play \in {"on", "over", "panic"}, s \in Seq(Card), w \in Seq(Card), t \in [Cols -> Seq(Card)],
         f \in [Piles -> Seq(Card)], won \in BOOLEAN :
          [play |-> play, st |-> s, wst |-> w, tb |-> t, fd |-> f, wn |-> won] \in SolType
  BY DEF SolType
<1>21. g = [play |-> g.play, st |-> g.st, wst |-> g.wst, tb |-> g.tb, fd |-> g.fd, wn |-> g.wn]
  BY Zenon
<1> HIDE DEF n, used, N
<1>5. \A x \in Deck : Hidden(x) \in Card /\ Bare(Hidden(x)) = x
  BY DEF Deck, Card, Hidden, Bare
<1>6. \A i \in 1 .. n - used : used + i \in 1 .. n /\ d[used + i] \in Deck
  <2>1. \A i \in 1 .. n - used : used + i \in 1 .. n
    BY <1>1
  <2> QED
    BY <1>2, <2>1
<1>7. /\ g.st \in Seq(Card) /\ Len(g.st) = n - used
      /\ \A i \in 1 .. n - used : Bare(g.st[i]) = d[used + i]
  <2> DEFINE m == n - used
  <2>1. m \in Nat /\ g.st = [i \in 1 .. m |-> Hidden(d[used + i])]
    BY <1>1, <1>4
  <2>2. \A i \in 1 .. m : d[used + i] \in Deck
    BY <1>6
  <2> HIDE DEF m
  <2>3. ASSUME NEW i \in 1 .. m PROVE g.st[i] \in Card /\ Bare(g.st[i]) = d[used + i]
    <3>1. g.st[i] = Hidden(d[used + i])
      BY <2>1
    <3>2. d[used + i] \in Deck
      BY <2>2
    <3>3. Hidden(d[used + i]) \in Card /\ Bare(Hidden(d[used + i])) = d[used + i]
      BY <1>5, <3>2
    <3> QED
      BY <3>1, <3>3, Zenon
  <2>4. g.st \in Seq(Card) /\ Len(g.st) = m
    <3> DEFINE h(i) == Hidden(d[used + i])
    <3>1. g.st = [i \in 1 .. m |-> h(i)]
      BY <2>1
    <3>2. \A i \in 1 .. m : h(i) \in Card
      BY <1>5, <2>2
    <3> HIDE DEF h
    <3>3. g.st \in [1 .. m -> Card]
      BY <3>1, <3>2
    <3>4. \A x \in [1 .. m -> Card] : x \in Seq(Card) /\ Len(x) = m
      <4>1. m \in Nat
        BY <2>1
      <4> QED
        BY <4>1
    <3> QED
      BY <3>3, <3>4
  <2> QED
    BY <2>3, <2>4 DEF m
<1>8. <<>> \in Seq(Card) /\ Len(<<>>) = 0
  OBVIOUS
<1>9. g.fd \in [1 .. N -> Seq(Card)] /\ \A i \in 1 .. N : g.fd[i] = <<>>
  BY <1>1, <1>4, <1>8
<1>10. LenOf(g.fd, N) = 0
  <2> DEFINE a == [i \in 1 .. N |-> Len(g.fd[i])]
  <2>1. \A i \in 1 .. N : a[i] = 0
    BY <1>8, <1>9
  <2>2. LenOf(g.fd, N) = SumTo(a, N)
    BY Zenon DEF LenOf
  <2> HIDE DEF a
  <2> QED
    BY <1>1, <2>1, <2>2, SumNothing
<1>11. Size(g) = n
  <2>1. Size(g) = Len(g.st) + Len(g.wst) + LenOf(g.tb, Columns) + LenOf(g.fd, N)
    BY Zenon DEF Size, N
  <2>2. Len(g.st) = n - used /\ Len(g.wst) = 0 /\ LenOf(g.tb, Columns) = used
    BY <1>3, <1>4, <1>7, <1>8
  <2>3. Size(g) = n - used + 0 + used + 0
    BY <1>10, <2>1, <2>2, Zenon
  <2>4. n - used + 0 + used + 0 = n
    BY <1>1
  <2> QED
    BY <2>3, <2>4, Zenon
<1>12. ASSUME NEW x PROVE Holds(g, x) <=> x \in Deck
  <2>1. ASSUME Holds(g, x) PROVE x \in Deck
    <3>1. ASSUME NEW p \in Seq(Card), x \in CardsIn(p) PROVE x \in Deck
      <4>1. \E i \in 1 .. Len(p) : x = Bare(p[i]) /\ p[i] \in Card
        BY <3>1, CardsAre
      <4>2. PICK i \in 1 .. Len(p) : x = Bare(p[i]) /\ p[i] \in Card
        BY <4>1
      <4>3. \A c \in Card : Bare(c) \in Deck
        BY DEF Card, Deck, Bare
      <4> QED
        BY <4>2, <4>3
    <3>2. x \notin CardsIn(g.wst) /\ \A i \in 1 .. N : x \notin CardsIn(g.fd[i])
      BY <1>4, <1>9, NoCards
    <3>3. x \in CardsIn(g.st) \/ \E i \in 1 .. Columns : x \in CardsIn(g.tb[i])
      BY <2>1, <3>2 DEF Holds, HeldBy, N
    <3>4. \A i \in 1 .. Columns : g.tb[i] \in Seq(Card)
      BY <1>3, <1>4
    <3> QED
      BY <1>7, <3>1, <3>3, <3>4
  <2>2. ASSUME x \in Deck PROVE Holds(g, x)
    <3>1. PICK m \in 1 .. n : d[m] = x
      BY <1>2, <2>2
    <3>2. CASE m <= used
      <4>1. m \in Nat /\ m >= 1
        BY <1>1
      <4>2. \E i \in 1 .. Columns, j \in 1 .. Columns : i <= j /\ m = DealtBefore(i) + j - i + 1
        BY <3>2, <4>1, RoundOf DEF used
      <4>3. PICK i \in 1 .. Columns, j \in 1 .. Columns : i <= j /\ m = DealtBefore(i) + j - i + 1
        BY <4>2
      <4>4. Bare(g.tb[j][i]) = x
        BY <1>3, <1>4, <3>1, <4>3
      <4>5. g.tb[j] \in Seq(Card) /\ i \in 1 .. Len(g.tb[j])
        <5>1. g.tb[j] \in Seq(Card) /\ Len(g.tb[j]) = j
          BY <1>3, <1>4
        <5>2. i \in 1 .. j
          BY <1>1, <4>3
        <5> QED
          BY <5>1, <5>2
      <4>6. x \in CardsIn(g.tb[j])
        BY <4>4, <4>5, CardsAre
      <4> QED
        BY <4>6 DEF Holds, HeldBy
    <3>3. CASE m > used
      <4>1. m - used \in 1 .. n - used /\ used + (m - used) = m
        BY <1>1, <3>3
      <4>2. Bare(g.st[m - used]) = x /\ m - used \in 1 .. Len(g.st)
        BY <1>7, <3>1, <4>1
      <4>3. x \in CardsIn(g.st)
        BY <1>7, <4>2, CardsAre
      <4> QED
        BY <4>3 DEF Holds
    <3> QED
      BY <1>1, <3>2, <3>3
  <2> QED
    BY <2>1, <2>2
<1>13. \A i \in Piles : Suited(g.fd[i])
  <2>1. Suited(<<>>)
    BY <1>8 DEF Suited
  <2> QED
    BY <1>1, <1>9, <2>1
<1>14. \A i \in Cols : Column(g.tb[i])
  BY <1>1, <1>3, <1>4
<1>15. \A k \in 1 .. Len(g.wst) : g.wst[k].f
  BY <1>4, <1>8
<1>16. g \in SolType
  <2>1. g.play \in {"on", "over", "panic"} /\ g.wn \in BOOLEAN
    BY <1>4
  <2>2. g.st \in Seq(Card) /\ g.wst \in Seq(Card) /\ g.tb \in [Cols -> Seq(Card)] /\ g.fd \in [Piles -> Seq(Card)]
    BY <1>1, <1>3, <1>4, <1>7, <1>8, <1>9
  <2> QED
    BY <1>20, <1>21, <2>1, <2>2, Zenon
<1>17. Table(g)
  BY <1>11, <1>12, <1>13, <1>14, <1>15, <1>16 DEF Table, n
<1>18. ~AllUp(g)
  <2>1. 1 \in 1 .. n
    BY <1>1
  <2>2. d[1] \in Deck
    BY <1>2, <2>1
  <2>3. \A i \in Piles : d[1] \notin CardsIn(g.fd[i])
    BY <1>1, <1>9, NoCards
  <2> QED
    BY <2>2, <2>3 DEF AllUp
<1> QED
  BY <1>4, <1>16, <1>17, <1>18 DEF Tables

\* A game of which only play changes, or wn.
LEMMA PlayChanges ==
    ASSUME NEW g \in Tables, NEW play \in {"on", "over", "panic"}
    PROVE  /\ [g EXCEPT !.play = play] \in Tables
           /\ [g EXCEPT !.play = play].wn = g.wn /\ [g EXCEPT !.play = play].play = play
           /\ AllUp([g EXCEPT !.play = play]) <=> AllUp(g)
<1>1. Table(g) /\ g \in SolType
  BY DEF Tables
<1> DEFINE h == [g EXCEPT !.play = play]
<1>2. h \in SolType /\ h.play = play /\ h.st = g.st /\ h.wst = g.wst /\ h.tb = g.tb /\ h.fd = g.fd /\ h.wn = g.wn
  BY <1>1 DEF SolType
<1> HIDE DEF h
<1>3. Size(h) = Size(g) /\ \A x : Holds(h, x) <=> Holds(g, x)
  BY <1>2 DEF Size, Holds
<1>4. Table(h)
  BY <1>1, <1>2, <1>3 DEF Table
<1>5. AllUp(h) <=> AllUp(g)
  BY <1>2 DEF AllUp
<1> QED
  BY <1>2, <1>4, <1>5 DEF Tables, h

LEMMA WonChanges ==
    ASSUME NEW g \in Tables, NEW won \in BOOLEAN
    PROVE  /\ [g EXCEPT !.wn = won] \in Tables /\ [g EXCEPT !.wn = won].wn = won
           /\ AllUp([g EXCEPT !.wn = won]) <=> AllUp(g)
<1>1. Table(g) /\ g \in SolType
  BY DEF Tables
<1> DEFINE h == [g EXCEPT !.wn = won]
<1>2. h \in SolType /\ h.play = g.play /\ h.st = g.st /\ h.wst = g.wst /\ h.tb = g.tb /\ h.fd = g.fd /\ h.wn = won
  BY <1>1 DEF SolType
<1> HIDE DEF h
<1>3. Size(h) = Size(g) /\ \A x : Holds(h, x) <=> Holds(g, x)
  BY <1>2 DEF Size, Holds
<1>4. Table(h)
  BY <1>1, <1>2, <1>3 DEF Table
<1>5. AllUp(h) <=> AllUp(g)
  BY <1>2 DEF AllUp
<1> QED
  BY <1>2, <1>4, <1>5 DEF Tables, h

\* A game of which three fields change.
LEMMA ThreeFields ==
    ASSUME NEW p, NEW q, NEW v, NEW w, NEW e, NEW f, NEW x, NEW t, NEW s, NEW n,
           n = [play |-> p, st |-> v, wst |-> w, tb |-> e, fd |-> f, wn |-> x]
    PROVE  [n EXCEPT !.play = q, !.tb = t, !.st = s]
           = [play |-> q, st |-> s, wst |-> w, tb |-> t, fd |-> f, wn |-> x]
<1>1. [n EXCEPT !.play = q, !.tb = t, !.st = s] = [[n EXCEPT !.play = q, !.tb = t] EXCEPT !.st = s]
  OBVIOUS
<1>2. [n EXCEPT !.play = q, !.tb = t] = [[n EXCEPT !.play = q] EXCEPT !.tb = t]
  OBVIOUS
<1>3. [n EXCEPT !.play = q] = [play |-> q, st |-> v, wst |-> w, tb |-> e, fd |-> f, wn |-> x]
  OBVIOUS
<1>4. [[play |-> q, st |-> v, wst |-> w, tb |-> e, fd |-> f, wn |-> x] EXCEPT !.tb = t]
      = [play |-> q, st |-> v, wst |-> w, tb |-> t, fd |-> f, wn |-> x]
  OBVIOUS
<1>5. [[play |-> q, st |-> v, wst |-> w, tb |-> t, fd |-> f, wn |-> x] EXCEPT !.st = s]
      = [play |-> q, st |-> s, wst |-> w, tb |-> t, fd |-> f, wn |-> x]
  OBVIOUS
<1> QED
  BY <1>1, <1>2, <1>3, <1>4, <1>5, Zenon

\* SolInv holds at first and is kept.
LEMMA SolInvInit == SolInit => SolInv
<1>1. NoSol.play = "idle"
  BY DEF NoSol
<1> SUFFICES ASSUME SolInit PROVE SolInv
  OBVIOUS
<1>2. sol.play = "idle"
  BY <1>1, Zenon DEF SolInit
<1> QED
  BY <1>2, Zenon DEF SolInv

LEMMA SolInvStep == SolInv /\ [SolNext]_sol => SolInv'
<1> SUFFICES ASSUME SolInv, [SolNext]_sol PROVE SolInv'
  OBVIOUS
<1>1. CASE PlaySol
  <2> DEFINE used == DealtBefore(Columns + 1)
  <2> DEFINE stock(d) == [i \in 1 .. Len(d) - used |-> Hidden(d[used + i])]
  <2>1. PICK d \in SetToSeqs(Deck) : sol' = [NoSol EXCEPT !.play = "on", !.tb = Dealt(d), !.st = stock(d)]
    BY <1>1, Zenon DEF PlaySol
  <2>3. sol' = [play |-> "on", st |-> stock(d), wst |-> <<>>, tb |-> Dealt(d), fd |-> [i \in Piles |-> <<>>],
                wn |-> FALSE]
    <3>1. NoSol = [play |-> "idle", st |-> <<>>, wst |-> <<>>, tb |-> [i \in Cols |-> <<>>],
                   fd |-> [i \in Piles |-> <<>>], wn |-> FALSE]
      BY Zenon DEF NoSol
    <3> QED
      BY <2>1, <3>1, ThreeFields, Zenon
  <2>4. sol' \in Tables /\ sol'.wn = FALSE /\ ~AllUp(sol')
    BY <2>3, NewSolIs
  <2> QED
    BY <2>4 DEF SolInv, AllUp
<1>2. CASE Command
  <2>1. sol.play = "on" /\ sol \in Tables /\ (sol.wn <=> AllUp(sol))
    BY <1>2 DEF Command, SolInv
  <2>2. PICK ws \in Commands :
            IF Panics(sol, ws) THEN sol' = [sol EXCEPT !.play = "panic"]
            ELSE sol' = [auto(Executed(sol, ws)) EXCEPT !.wn = Complete(auto(Executed(sol, ws)))]
    BY <1>2 DEF Command
  <2>3. CASE Panics(sol, ws)
    <3>1. sol' = [sol EXCEPT !.play = "panic"]
      BY <2>2, <2>3
    <3>2. sol' \in Tables /\ sol'.wn = sol.wn /\ (AllUp(sol') <=> AllUp(sol))
      BY <2>1, <3>1, PlayChanges
    <3> QED
      BY <2>1, <3>2 DEF SolInv, AllUp
  <2>4. CASE ~Panics(sol, ws)
    <3> DEFINE g == auto(Executed(sol, ws))
    <3>1. g \in Tables
      BY <2>1, <2>4, ExecutedKeeps, AutoKeeps
    <3>2. sol' = [g EXCEPT !.wn = Complete(g)]
      BY <2>2, <2>4, Zenon
    <3> HIDE DEF g
    <3>3. Complete(g) \in BOOLEAN /\ (Complete(g) <=> AllUp(g))
      BY <3>1, CompleteIs DEF Complete
    <3> DEFINE won == Complete(g)
    <3>4. won \in BOOLEAN /\ (won <=> AllUp(g)) /\ sol' = [g EXCEPT !.wn = won]
      BY <3>2, <3>3
    <3> HIDE DEF won
    <3>5. sol' \in Tables /\ sol'.wn = won /\ (AllUp(sol') <=> AllUp(g))
      BY <3>1, <3>4, WonChanges
    <3> QED
      BY <3>4, <3>5 DEF SolInv, AllUp
  <2> QED
    BY <2>3, <2>4
<1>3. CASE QuitSol
  <2>1. sol \in Tables /\ (sol.wn <=> AllUp(sol)) /\ sol' = [sol EXCEPT !.play = "over"]
    BY <1>3 DEF QuitSol, SolInv
  <2>2. sol' \in Tables /\ sol'.wn = sol.wn /\ (AllUp(sol') <=> AllUp(sol))
    BY <2>1, PlayChanges
  <2> QED
    BY <2>1, <2>2 DEF SolInv, AllUp
<1>4. CASE UNCHANGED sol
  BY <1>4 DEF SolInv, AllUp
<1> QED
  BY <1>1, <1>2, <1>3, <1>4 DEF SolNext

LEMMA SolInvImplies == SolInv => CardsArePlacedByTheRules
<1> SUFFICES ASSUME sol \in Tables, sol.wn <=> AllUp(sol), SolInv
             PROVE  CardsArePlacedByTheRules
  BY DEF SolInv, CardsArePlacedByTheRules
<1>1. Table(sol) /\ Cols = 1 .. Columns /\ Piles = 1 .. NPiles
  BY SuitsAre DEF Tables
<1>2. UNION {CardsIn(p) : p \in AllPiles} = Deck
  <2>1. ASSUME NEW x PROVE x \in UNION {CardsIn(p) : p \in AllPiles} <=> Holds(sol, x)
    BY <1>1 DEF AllPiles, Holds, HeldBy
  <2> QED
    BY <1>1, <2>1 DEF Table
<1>3. Total = Cardinality(Deck)
  <2>1. Total = Size(sol)
    BY <1>1, Zenon DEF Total, Size, LenOf, NPiles
  <2> QED
    BY <1>1, <2>1 DEF Table
<1>4. ASSUME NEW i \in Piles, NEW k \in 1 .. Ranks, k <= Len(sol.fd[i])
      PROVE  sol.fd[i][k].r = k /\ sol.fd[i][k].s = sol.fd[i][1].s
  <2>1. Suited(sol.fd[i])
    BY <1>1 DEF Table
  <2>2. Len(sol.fd[i]) \in Nat
    BY <2>1 DEF Suited
  <2>3. k \in 1 .. Len(sol.fd[i])
    BY <1>4, <2>2, SuitsAre
  <2> QED
    BY <2>1, <2>3 DEF Suited
<1>5. ASSUME NEW i \in Cols, NEW k \in 1 .. Len(sol.tb[i]) - 1, sol.tb[i][k].f
      PROVE  sol.tb[i][k + 1].f /\ LiesOn(sol.tb[i][k + 1], sol.tb[i][k])
  <2>1. Column(sol.tb[i])
    BY <1>1 DEF Table
  <2> QED
    BY <1>5, <2>1 DEF Column, Descends
<1>6. ASSUME NEW i \in Cols, sol.tb[i] # <<>> PROVE Last(sol.tb[i]).f
  <2>1. Column(sol.tb[i])
    BY <1>1 DEF Table
  <2> QED
    BY <1>6, <2>1 DEF Column, Last
<1>7. sol.wn <=> \A c \in Deck : \E i \in Piles : c \in CardsIn(sol.fd[i])
  BY DEF AllUp
<1> QED
  BY <1>2, <1>3, <1>4, <1>5, <1>6, <1>7 DEF CardsArePlacedByTheRules

\* Solitaire by itself: whatever the deal and the commands, each card is in one place and
\* lies as it may, and the game is won exactly when the foundations have all cards.
THEOREM CardsArePlacedByTheRulesHolds == SolInit /\ [][SolNext]_sol => []CardsArePlacedByTheRules
BY SolInvInit, SolInvStep, SolInvImplies, PTL

HIDE SolAssumption

-------------------------------------------------------------------------------
(* The five games of the plugin together.                                  *)

\* Whatever keys the user presses in whichever game, and whatever chance deals and
\* answers, all five games stay within their rules (GamesFollowTheirRules).
THEOREM GamesFollowTheirRulesHolds == GamesSpec => []GamesFollowTheirRules
<1>1. GamesInit => MinesInit /\ TilesInit /\ SolInit /\ FleetInit /\ ChessInit
  BY DEF GamesInit
<1>2. [GamesNext]_games =>
          [MinesNext]_mines /\ [TilesNext]_tiles /\ [SolNext]_sol /\ [FleetNext]_fleet /\ [ChessNext]_chess
  BY DEF GamesNext, games
<1>3. MinefieldAddsUp /\ ScoreIsEarned /\ CardsArePlacedByTheRules /\ BattleIsFair /\ PositionsAreLegal
          => GamesFollowTheirRules
  BY DEF GamesFollowTheirRules
<1> QED
  BY <1>1, <1>2, <1>3, MinefieldAddsUpHolds, ScoreIsEarnedHolds, CardsArePlacedByTheRulesHolds, BattleIsFairHolds,
     PositionsAreLegalHolds, PTL DEF GamesSpec
================================================================================
