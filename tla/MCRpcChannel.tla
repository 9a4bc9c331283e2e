--------------------------- MODULE MCRpcChannel ---------------------------
(* Instances of RpcChannel for TLC: two parties and short scripts. *)
EXTENDS RpcChannel

CONSTANTS a, b

MCParty == {a, b}
MCSymmetry == Permutations(Msg)
MCPeer == (a :> b) @@ (b :> a)

\* One side streams, the other reads
StreamScript == (a :> <<"send", "send", "flush">>) @@ (b :> <<"recv", "recv">>)
\* Request and reply
EchoScript == (a :> <<"send", "recv">>) @@ (b :> <<"recv", "send", "flush">>)
\* Two messages in each direction, with a flush between the replies
RepliesScript == (a :> <<"send", "send", "recv", "recv">>)
                 @@ (b :> <<"recv", "recv", "send", "flush", "send">>)
\* Two messages that nobody waits for
TwoScript == (a :> <<"send", "send">>) @@ (b :> <<"recv", "recv">>)
\* More messages than two windows of one and the thread hold
FourScript == (a :> <<"send", "send", "send", "send", "flush">>)
              @@ (b :> <<"recv", "recv", "recv", "recv">>)
\* One message
OneScript == (a :> <<"send", "flush">>) @@ (b :> <<"recv">>)

BothV2 == (a :> 2) @@ (b :> 2)
MixedVersions == (a :> 3) @@ (b :> 1)
=============================================================================
