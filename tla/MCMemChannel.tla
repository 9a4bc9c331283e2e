--------------------------- MODULE MCMemChannel ---------------------------
(* Messages for MemChannel: empty, one byte, exactly the ring, longer than *)
(* the ring, so that three of them make the counters wrap, and longer than *)
(* a header can say.                                                       *)
EXTENDS MemChannel

MCMessage == { <<>>, <<1>>, <<2, 1, 0, 2>>, <<1, 2, 0, 1, 2, 2, 1>>, [i \in 1 .. 18 |-> i % 3] }
=============================================================================
