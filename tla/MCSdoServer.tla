---------------------------- MODULE MCSdoServer ----------------------------
(***************************************************************************)
(* A small instance of SdoServer: a segment carries two bytes and an       *)
(* expedited answer one, so that objects of one, two and five bytes need   *)
(* an expedited answer, one segment and three segments, the last of them   *)
(* not full.                                                               *)
(***************************************************************************)
EXTENDS SdoServer

CONSTANTS
  node_id,   \* one byte, read-write, its hook refuses a value (0x2001:01)
  clock,     \* two bytes, read-only, refreshed by the node
  gain,      \* five bytes, read-write, its hook refuses most values
  key        \* one byte, write-only

MCObjects == {node_id, clock, gain, key}
MCSize == [o \in MCObjects |-> CASE o = gain -> 5 [] o = clock -> 2 [] OTHER -> 1]
MCReadable == {node_id, clock, gain}
MCWritable == {node_id, gain, key}
MCRefused ==
  {<<node_id, <<1>>>>}
    \cup {<<gain, v>> : v \in {w \in [1..5 -> {0, 1}] : w[1] # w[2] \/ w[3] # w[5]}}
MCLocal == {clock}
=============================================================================
