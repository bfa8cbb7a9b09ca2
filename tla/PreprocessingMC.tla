-------------------------- MODULE PreprocessingMC --------------------------
(* Meshes of four elements read in parallel: a line between two walls, the *)
(* same line closed by a periodic pair, and a star (an element next to all *)
(* others, so that a second layer of ghosts has several owners).           *)
EXTENDS Preprocessing

Mesh(pairs, wallElements, periodicPairs) ==
  [e2e |-> [e \in Elem |-> {f \in Elem : {<<e, f>>, <<f, e>>} \cap (pairs \cup periodicPairs) # {}}],
   walls |-> wallElements, periodic |-> periodicPairs]

Line == {<<0, 1>>, <<1, 2>>, <<2, 3>>}
Star == {<<0, 1>>, <<0, 2>>, <<0, 3>>}

LinesAndStar == {Mesh(Line, {0, 3}, {}), Mesh(Line, {1}, {<<3, 0>>}), Mesh(Star, {2}, {})}
=============================================================================
