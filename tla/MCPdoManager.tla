---------------------------- MODULE MCPdoManager ----------------------------
(***************************************************************************)
(* One transmit channel with every parameter in play and one receive       *)
(* channel.  Three bytes fit a frame: a two-byte and a one-byte object     *)
(* together, but not two two-byte ones.  "setpoint" may only be received,  *)
(* "position" only be transmitted.                                         *)
(***************************************************************************)
EXTENDS PdoManager

CONSTANTS position, status, setpoint

MCWords == {position, status, setpoint}
MCBytes == [w \in MCWords |-> IF w = status THEN 1 ELSE 2]
MCDefaultId == [ch \in Channels |-> 1]

\* Bound: the two directions share nothing but the revision count, so at most
\* one of them is reconfigured; nor is a receive channel given a type, which
\* nothing looks at.
OneDirection ==
  /\ \A ch \in RChannels : cfg[ch].type = 255
  /\ \/ \A ch \in RChannels : cfg[ch] = Default(ch)
     \/ \A ch \in TChannels : cfg[ch] = Default(ch)

MCSpec == Init /\ [][Next /\ OneDirection']_pdovars /\ Fairness
=============================================================================
