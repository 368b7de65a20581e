-------------------------- MODULE MCInformerCache --------------------------
(* Small instances of InformerCache for TLC. *)
EXTENDS InformerCache, TLC

Both     == {VSD, DD}
OnlyVSD  == {VSD}
TwoNames == {1, 2}

\* All callers share one informer.
SameWish == {[c \in Callers |-> t] : t \in Resources}
=============================================================================
