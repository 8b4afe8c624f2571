---------------------------- MODULE MCCompressPairs ----------------------------
(* Instances of CompressPairs: two requests, blocks of two drafts and a ring of   *)
(* three, the narrowest that the launch check admits.  Padding is longer than the *)
(* ring and a number of whole blocks.                                             *)
EXTENDS CompressPairs

MCReqs == {0, 1}
MCMaxLen == [r \in MCReqs |-> IF r = 0 THEN 6 ELSE 3]
MCPaddings == {0, 4}
MCModes == {[verify |-> "none", fused |-> TRUE], [verify |-> "static", fused |-> TRUE],
            [verify |-> "compact", fused |-> TRUE]}
===============================================================================
