------------------------------ MODULE GameBoard ------------------------------
(***************************************************************************)
(* The board of src/GameServer/server.c: what fire does to it and where    *)
(* the players go, as functions from one board to the next.  A board is a  *)
(* torus, stored column by column; a field below FIELD_NONE is the id of a *)
(* player.  The fields keep the numbers they have in gcomdefs.h.           *)
(***************************************************************************)
EXTENDS Integers

CONSTANT Side       \* 0x40

ASSUME SideAssumption == Side \in Nat /\ Side >= 3

Cells == (0 .. Side - 1) \X (0 .. Side - 1)
Fields == 0 .. 61
Boards == [Cells -> Fields]

\* The order of the indices x * 0x40 + y.
Before(p, q) == p[1] < q[1] \/ (p[1] = q[1] /\ p[2] < q[2])

FIELD_NONE == 33
FIELD_MIRROR == 40
FIELD_WALL == 41
FIELD_ROCK == 42
FIELD_GRASS == 43
FIELD_WATER == 44
FIELD_LAVA == 45
FIELD_WALL_D1 == 50
FIELD_WALL_D2 == 51
FIELD_WALL_D3 == 52
FIELD_TELEPRT == 61

\* The first of four fires each, in the order of the directions below.
FIELD_FLEFT == 46
FIELD_WATER_FLEFT == 53
FIELD_GRASS_FLEFT == 57

LEFT == 0
RIGHT == 1
DOWN == 2
UP == 3
Directions == {LEFT, RIGHT, DOWN, UP}
Opposite(d) == IF d \in {LEFT, DOWN} THEN d + 1 ELSE d - 1

IsId(f) == f < FIELD_NONE
Burning(first) == first .. first + 3
IsFire(f) == f \in Burning(FIELD_FLEFT) \cup Burning(FIELD_WATER_FLEFT) \cup Burning(FIELD_GRASS_FLEFT)

first_fire(f) == CASE f \in Burning(FIELD_WATER_FLEFT) -> FIELD_WATER_FLEFT
                   [] f \in Burning(FIELD_GRASS_FLEFT) -> FIELD_GRASS_FLEFT
                   [] OTHER                            -> FIELD_FLEFT

direction(f) == f - first_fire(f)

fire_root(f) == CASE f \in Burning(FIELD_WATER_FLEFT) -> FIELD_WATER
                  [] f \in Burning(FIELD_GRASS_FLEFT) -> FIELD_GRASS
                  [] OTHER                            -> FIELD_NONE

To(p, d) == CASE d = LEFT  -> <<IF p[1] = 0 THEN Side - 1 ELSE p[1] - 1, p[2]>>
              [] d = RIGHT -> <<IF p[1] = Side - 1 THEN 0 ELSE p[1] + 1, p[2]>>
              [] d = DOWN  -> <<p[1], IF p[2] = Side - 1 THEN 0 ELSE p[2] + 1>>
              [] d = UP    -> <<p[1], IF p[2] = 0 THEN Side - 1 ELSE p[2] - 1>>

(* What the field becomes that is hit by the fire what.  A player is told  *)
(* so (GameServer) and stays; lava and fires stay too.                     *)
field_hit(field, what) ==
    CASE field = FIELD_WALL    -> FIELD_WALL_D1
      [] field = FIELD_WALL_D1 -> FIELD_WALL_D2
      [] field = FIELD_WALL_D2 -> FIELD_WALL_D3
      [] field \in {FIELD_WALL_D3, FIELD_ROCK} -> FIELD_NONE
      [] field = FIELD_TELEPRT -> FIELD_LAVA
      [] field = FIELD_MIRROR  -> first_fire(what) + Opposite(direction(what))
      [] field = FIELD_NONE    -> FIELD_FLEFT + direction(what)
      [] field = FIELD_WATER   -> FIELD_WATER_FLEFT + direction(what)
      [] field = FIELD_GRASS   -> direction(what) + IF first_fire(what) = FIELD_WATER_FLEFT
                                                    THEN FIELD_WATER_FLEFT ELSE FIELD_GRASS_FLEFT
      [] OTHER -> field

Fires(b) == {p \in Cells : IsFire(b[p])}
Hitting(b, q) == {p \in Fires(b) : To(p, direction(b[p])) = q}
LastOf(S) == CHOOSE p \in S : \A q \in S \ {p} : Before(q, p)

(* The fires move in the order of the cells.  Each leaves its ground in    *)
(* the copy, whatever an earlier one has put there, and is put, as the     *)
(* board was before the step, on what it hits; the last to hit a cell      *)
(* counts.  A fire that is hit by a later one therefore stays.             *)
progress_fire(b) ==
    [q \in Cells |->
        IF IsFire(b[q])
        THEN IF \E p \in Hitting(b, q) : Before(q, p) THEN b[q] ELSE fire_root(b[q])
        ELSE IF Hitting(b, q) = {} THEN b[q]
                                   ELSE field_hit(b[q], b[LastOf(Hitting(b, q))])]

\* The players who are hit.
Hits(b) == {b[To(p, direction(b[p]))] : p \in Fires(b)} \cap 0 .. FIELD_NONE - 1

where(b, id) == LastOf({p \in Cells : b[p] = id})

(* move_id_up and its like: the boards that a move may lead to, and        *)
(* whether it could be made.  The place is looked up before the fires      *)
(* move.  A teleport leaves fire behind, and chooses a free cell; but the  *)
(* index that mrandom gives it may be one past the end of free_idx, and    *)
(* then (strayed) any cell may be overwritten, or one outside of the       *)
(* board, or the move is refused.                                          *)
move_id(b, id, d) ==
    LET w == where(b, id)
        t == To(w, d)
        n == progress_fire(b)
        free == {p \in Cells : n[p] = FIELD_NONE}
        fire == FIELD_FLEFT + Opposite(d)
    IN  CASE n[t] \in {FIELD_NONE, FIELD_GRASS} ->
                 {[can |-> TRUE, strayed |-> FALSE, board |-> [n EXCEPT ![t] = id, ![w] = n[t]]]}
          [] n[t] = FIELD_TELEPRT /\ free # {} ->
                 {[can |-> TRUE, strayed |-> p \notin free, board |-> [n EXCEPT ![p] = id, ![w] = fire]] : p \in Cells}
                 \cup {[can |-> c, strayed |-> TRUE, board |-> IF c THEN [n EXCEPT ![w] = fire] ELSE n] : c \in BOOLEAN}
          [] OTHER -> {[can |-> FALSE, strayed |-> FALSE, board |-> n]}

(* fire_id: fire is put on the neighbours that take it, then all fires     *)
(* move.                                                                   *)
kindle(f, d) == CASE f = FIELD_NONE  -> FIELD_FLEFT + d
                  [] f = FIELD_WATER -> FIELD_WATER_FLEFT + d
                  [] f = FIELD_GRASS -> FIELD_GRASS_FLEFT + d
                  [] OTHER           -> f

fire_id(b, id, ds) ==
    LET w == where(b, id)
    IN  progress_fire([p \in Cells |-> IF \E d \in ds : To(w, d) = p
                                       THEN kindle(b[p], CHOOSE d \in ds : To(w, d) = p)
                                       ELSE b[p]])

(* mrandom: four bytes, of which int may make a negative number, divided   *)
(* by 0xffffffff / lb.  Its results, for a generator of w bits.            *)
mrandom(r, lb, w) == r \div ((2 ^ w - 1) \div lb)
=============================================================================
