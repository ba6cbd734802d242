------------------------------ MODULE MCLogback ------------------------------
(* A file of two or three symbols, adjacent or apart, that up to three notes  *)
(* cite in either order, twice, or not at all.                               *)
EXTENDS Logback

MCSources ==
    {<<Code("a"), Code("b")>>, <<Code(""), Code("a"), Blank, Code("b")>>, <<Code("a"), Code("b"), Code("c")>>}

Cites(note, symbol) == [note |-> note, symbol |-> symbol]
MCVaults ==
    {<< >>, <<Cites("n1", "b")>>, <<Cites("n1", "a"), Cites("n2", "b")>>, <<Cites("n1", "b"), Cites("n1", "a"), Cites("n2", "b")>>,
     <<Cites("n1", "c"), Cites("n2", "a"), Cites("n2", "b")>>}
=============================================================================
