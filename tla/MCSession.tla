------------------------------ MODULE MCSession -----------------------------
(* Session for TLC: sessions of two devices, one after another.            *)
EXTENDS Session

CONSTANTS d1, d2, m1, w1

Pair == {<<d1, d2>>}

OneWatcher == [m \in {m1} |-> w1]
=============================================================================
