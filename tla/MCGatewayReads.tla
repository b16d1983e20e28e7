--------------------------- MODULE MCGatewayReads ---------------------------
(* GatewayReads with two servers, and containers that write to one stream  *)
(* each or one that writes to both.                                        *)
EXTENDS GatewayReads

TwoServers    == <<"gl-a", "gl-b">>
OneStreamEach == [a |-> {"stdout"}, b |-> {"stderr"}]
BothStreams   == [a |-> {"stdout", "stderr"}]
=============================================================================
