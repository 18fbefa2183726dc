--------------------------- MODULE MC_GameServer -----------------------------
(* Two clients; and, on small boards, what GameServer takes for granted of  *)
(* the board of which it only counts the ids.                               *)
EXTENDS GameServer, GameBoard, TLC

CONSTANTS c1, c2

(* The clients can be exchanged in the specification, in its one condition *)
(* of fairness and in every property.  No state comes back, so a behaviour *)
(* ends in one state for ever, and Settles speaks of those states only: it *)
(* too may be checked up to the exchange.                                  *)
Symmetry == Permutations(Clients)

Crowded == [Cells -> {0, FIELD_GRASS, FIELD_GRASS_FLEFT + UP}]
Start == <<1, 1>>
AloneAmong(F) == {b \in [Cells -> F \cup {1}] : \A p \in Cells : b[p] = 1 <=> p = Start}

(* Fire moves no player, and each fire makes at most one fire.             *)
ASSUME \A b \in Crowded : LET n == progress_fire(b)
                          IN  /\ \A p \in Cells : IsId(b[p]) \/ IsId(n[p]) => n[p] = b[p]
                              /\ Cardinality(Fires(n)) <= Cardinality(Fires(b))

(* A move, and a teleport too when nobody else moves meanwhile and free_idx *)
(* is not overrun, leaves the player on one cell, another one if the move   *)
(* can be made; else he is on one cell or on none.                          *)
ASSUME \A b \in AloneAmong({FIELD_TELEPRT, FIELD_FLEFT + RIGHT}), d \in Directions :
          \A m \in move_id(b, 1, d) :
          LET n == Cardinality({p \in Cells : m.board[p] = 1})
          IN  IF m.strayed THEN n <= 1 ELSE n = 1 /\ (m.can <=> m.board[Start] # 1)

(* Nobody is hit by the fire he sends out, on a board without mirrors.     *)
ASSUME \A b \in AloneAmong({FIELD_NONE, FIELD_WATER}) :
          1 \notin Hits(fire_id(b, 1, Directions))

(* Every cell of lb can be drawn, and one after the last.                  *)
ASSUME \A lb \in 1 .. 8 : {mrandom(r, lb, 8) : r \in 0 .. 255} = 0 .. lb
=============================================================================
