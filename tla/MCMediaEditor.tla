----------------------------- MODULE MCMediaEditor -----------------------------
(***************************************************************************)
(* Two callers: one may run every command, with arguments of a few values, *)
(* the other one stabilizes its video at the same time.                    *)
(***************************************************************************)
EXTENDS MediaEditor

CONSTANTS c1, c2

MCSources == {File(6, <<16, 8>>, 6), File(4, <<16, 8>>, 4), File(4, <<8, 16>>, None),
              File(None, <<0, 0>>, 6)}
MCImages == {File(4, <<16, 8>>, None)}

\* The second caller has a video with sound.
MCStarts == {work0 \in [{c1, c2} -> MCSources] : work0[c2] = File(6, <<16, 8>>, 6)}

\* 1 + 3 and 3 + 3 are the lengths of sources, at which a crossfade ends; a
\* side of 17 is larger than every source's, and odd.
MCTicks == {1, 3}
MCSpeeds == {<<2, 1>>, <<1, 2>>}
MCSides == {6, 17}

MCCommands == [c \in {c1, c2} |-> IF c = c1 THEN EditorCommands ELSE {}]
=============================================================================
