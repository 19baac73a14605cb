-------------------------- MODULE MCGatewayPacketLog --------------------------
(* Lines for the runs of GatewayPacketLog: packets of five tokens.          *)
EXTENDS GatewayPacketLog

\* Nothing, a timestamp, half a magic on either side, a whole one.
SomeTexts ==
  { <<>>, <<"nn">>, <<"nn", "nn", "nn">>, <<"54">>, <<"nn", "54">>, <<"50", "54">>,
    <<"54", "50">>, <<"nn", "54", "50">> }

SomeTails == { <<>>, <<"nn">>, <<"nn", "54", "50">> }

\* Whole packets, among them one with the magic in its payload and CRC, and
\* packets that were cut short.
SomePackets ==
  { <<"54", "50", a, b, c>> : a \in {"nn", "XX"}, b \in {"nn", "XX"}, c \in {"nn", "XX"} }
    \cup { <<"54", "50", "54", "50", "nn">>, <<"54", "50", "50", "nn", "54">>,
           <<"54", "50", "nn", "nn">>, <<"54", "50", "nn">>, <<>> }
=============================================================================
