---------------------------- MODULE MCIndexCache ----------------------------
(* Two processes of one repository: a hook and a sweep, one of which may have *)
(* an older extractor or no parser.  Three commits of three files: one that   *)
(* changes, one that comes, goes and declares nothing in between, one without *)
(* a grammar.                                                                 *)
EXTENDS IndexCache

MCFiles == {"a.java", "b.ts", "c.kt"}
MCSupported == {"a.java", "b.ts"}
MCOpaque == {"blank"}
MCTreeOf ==
    [c \in Commits |->
        CASE c = 1 -> [f \in MCFiles |-> IF f = "b.ts" THEN Absent ELSE "x"]
          [] c = 2 -> [f \in MCFiles |-> IF f = "a.java" THEN "y" ELSE "x"]
          [] c = 3 -> [f \in MCFiles |-> IF f = "b.ts" THEN "blank" ELSE IF f = "a.java" THEN "x" ELSE Absent]]
MCExtractorOf == [p \in Procs |-> IF p = "old" THEN 2 ELSE 3]
MCParses == [p \in Procs |-> p # "portable"]
=============================================================================
