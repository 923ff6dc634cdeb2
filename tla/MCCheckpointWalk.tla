-------------------------- MODULE MCCheckpointWalk --------------------------
(* Three checkpoints: the shortest window, a longer one, and one that lasts  *)
(* as long as the clock.                                                     *)
EXTENDS CheckpointWalk

MCTimeout == <<1, 3, 7>>
====
