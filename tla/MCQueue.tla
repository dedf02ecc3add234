------------------------------ MODULE MCQueue ------------------------------
(* Three tasks, two distinguishable values, a queue with two slots: pushes *)
(* meet a full queue, pops an empty one, and a third task interferes.      *)
EXTENDS Queue

CONSTANTS t1, t2, t3, v1, v2
MCThread == {t1, t2, t3}
MCValue == {v1, v2}
MCOneValue == {v1}

=============================================================================
