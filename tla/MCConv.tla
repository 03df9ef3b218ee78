------------------------------- MODULE MCConv -------------------------------
(* A code of the tests of rather/conv.rs. *)
EXTENDS ConvCode

MCGenerators == <<3, 7, 13>>

\* test_encode: the bytes 72 and 01, most significant bit first.
ASSUME TestEncode ==
    Encode(<<0,1,1,1,0,0,1,0, 0,0,0,0,0,0,0,1>>) =
        <<<<0,0,0>>, <<1,1,1>>, <<0,0,1>>, <<0,1,0>>, <<1,0,0>>, <<0,1,0>>, <<1,1,0>>,
          <<1,1,0>>, <<0,1,1>>, <<0,0,1>>, <<0,0,0>>, <<0,0,0>>, <<0,0,0>>, <<0,0,0>>,
          <<0,0,0>>, <<1,1,1>>, <<1,1,0>>, <<0,1,1>>, <<0,0,1>>>>
=============================================================================
