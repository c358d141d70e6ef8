---------------------------- MODULE MCFrameCodec ----------------------------
(* Texts for FrameCodec: one byte repeated, a short period, and one in     *)
(* which what repeats is never far but never regular.                      *)
EXTENDS FrameCodec

Repeated == [i \in 1 .. MaxAppended |-> 0]
Mixed    == [i \in 1 .. MaxAppended |-> (i \div 2 + i \div 3 + i \div 7) % 2]
(* Whose three bytes come again after a Window and no sooner.              *)
Sparse   == [i \in 1 .. MaxAppended |-> <<0, 1, 2, 1, 2, 2, 1, 1, 2, 0, 2, 2>>[(i % 12) + 1]]

TheTexts == {Repeated, Mixed, Sparse}
=============================================================================
