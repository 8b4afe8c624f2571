--------------------------- MODULE MCBatchResult ---------------------------
(* Instances of BatchResult: two requests with prompts of one and of three   *)
(* chunks, with and without overlap and grammars; the copy of a batch carries *)
(* has_grammar or does not, which matters with both.                          *)
EXTENDS BatchResult

MCChunks == <<1, 3>>
MCLimit == <<4, 3>>
MCIllegalAt == <<2, 0>>
MCModes == {m \in [overlap : BOOLEAN, grammar : {{}, {1}, {1, 2}}, carries : BOOLEAN] :
              m.carries \/ (m.overlap /\ m.grammar # {})}
=============================================================================
