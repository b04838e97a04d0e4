---------------------------- MODULE MCRplP2pDags ----------------------------
(* Small instances of RplP2pDags for TLC.                                  *)
EXTENDS RplP2pDags

CONSTANTS self, a, b, c

MCNodes == {self, a, b}
FourNodes == {self, a, b, c}

Global(n) == [instance |-> GlobalInstance, dodag |-> n]
Local(i, n) == [instance |-> i, dodag |-> n]

\* A discovery by a whose target is elsewhere, one by b whose target is this
\* node, and the global DAG rooted at a.
Through == Local(0, a)
Towards == Local(0, b)
MCTargetKeys == {Towards}
ThreeKeys == {Through, Towards, Global(a)}
LocalTwo == {Through, Towards}

Long == [k \in ThreeKeys |-> 2]
LongTwo == [k \in LocalTwo |-> 2]
\* The discovery this node answers is over before its DRO timer fires.
ShortTowards == [k \in ThreeKeys |-> IF k = Towards THEN 1 ELSE 2]

NoVectors == {<<>>}
SomeVectors == {<<>>, <<a>>, <<a, b>>}
=============================================================================
