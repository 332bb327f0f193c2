---------------------------- MODULE MCFrame3762 ----------------------------
(* Instance of Frame3762: frames of a communication module, one for the     *)
(* concentrator and one with addresses, the data of which holds the flags.  *)
EXTENDS Frame3762

Address(n) == <<n, 0, 0, 0, 0, n>>

Up(link, addresses, data) ==
  [control |-> 129, link |-> <<link, 0, 0, 0, 0, 9>>,
   src |-> IF addresses THEN Address(1) ELSE <<>>,
   dest |-> IF addresses THEN Address(2) ELSE <<>>,
   relays |-> <<>>, afn |-> 3, fn |-> 4, data |-> data]

MCInfos ==
  {Up(0, FALSE, data) : data \in {<<>>, <<7>>, <<StartFlag>>, <<TailFlag>>}}
  \cup {Up(4, TRUE, <<7>>)}

MCNoise == {<<>>, <<1>>}
=============================================================================
