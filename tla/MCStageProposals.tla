--------------------------- MODULE MCStageProposals ---------------------------
(* Small instances of StageProposals for TLC. *)
EXTENDS StageProposals, TLC

CONSTANTS g1, g2

(* A project up to Memory, made by hand; Design and Memory change while Memory *)
(* is generated.                                                               *)
UpToMemory == <<1, 1, 2, 1, 2>>
LateCalls  == {<<Discover, "draft">>, <<Memory, "proposal">>}

(* A project up to Memory whose earlier stages are generated too.              *)
MemoryTwice == <<1, 1, 1, 1, 2>>
SomeCalls   == {<<Discover, "draft">>, <<Define, "draft">>, <<Design, "proposal">>,
                <<Memory, "proposal">>}

(* A project up to Design, every stage twice. *)
UpToDesign  == <<2, 2, 2>>
DefineCalls == {<<Discover, "proposal">>, <<Define, "proposal">>}
================================================================================
