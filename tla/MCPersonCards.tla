--------------------------- MODULE MCPersonCards ---------------------------
(* Two people with a file each, one field, one goroutine that runs the tool. *)
EXTENDS PersonCards, TLC

CONSTANTS ana, ben, anaFile, benFile
TwoPeople == {ana, ben}
TwoFiles == {anaFile, benFile}
FilePerPerson == (ana :> anaFile) @@ (ben :> benFile)

\* the two people, each with the file, may be exchanged
Exchange == {(ana :> ben) @@ (ben :> ana) @@ (anaFile :> benFile) @@ (benFile :> anaFile)}

\* the person a writer was working on is forgotten with the rest
Live == <<files, sweep, history, budget, pc,
          [w \in Writers |-> IF pc[w] \in {"idle", "off", "next", "done"}
                             THEN None ELSE <<who[w], card[w], found[w], copy[w]>>]>>
=============================================================================
