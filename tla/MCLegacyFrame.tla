---------------------------- MODULE MCLegacyFrame ----------------------------
(* LegacyFrame for TLC: every kind of id, with the sizes scaled down.        *)
EXTENDS LegacyFrame

IdLengths == {0, 1, MAX_ID_LENGTH - 1, MAX_ID_LENGTH, MAX_ID_LENGTH + 1}

MCIds == {i \in [length: IdLengths, ascii: BOOLEAN, separators: {0, 1}] :
            i.separators <= i.length /\ (i.length = 0 => i.ascii)}
=============================================================================
