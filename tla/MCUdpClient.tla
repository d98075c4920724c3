----------------------------- MODULE MCUdpClient -----------------------------
(* The instance of UdpClient that TLC checks: values at the bounds of each *)
(* type, and one of each kind that is marked.                              *)
EXTENDS UdpClient

Typed == {<<>>, <<"1", "2", "8">>, <<"-", "1", "2", "9">>, <<"-", "1">>, <<"2", "5", "6">>, <<"+", "7">>,
          <<"f", "0">>, <<"f", " ", "0">>, <<"f", "tab", "0">>, <<"f">>, <<"wide">>}
Sizes3 == {0, 2}
Two == {1, 2}
Three == {1, 2, 3}
=============================================================================
