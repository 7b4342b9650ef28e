----------------------------- MODULE MCKnowledge -----------------------------
(***************************************************************************)
(* Instances of the knowledge index for TLC: an empty text and one that    *)
(* takes three chunks of one setting and two of the other.                 *)
(***************************************************************************)
EXTENDS KnowledgeIndex

CONSTANTS w1, w2, empty, long

LengthDef == [t \in Texts |-> IF t = empty THEN 0 ELSE 7]
SettingsDef == {[max |-> 3, overlap |-> 1], [max |-> 5, overlap |-> 2]}
=============================================================================
