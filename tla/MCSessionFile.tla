------------------------------ MODULE MCSessionFile ----------------------------
(***************************************************************************)
(* Up to three datagrams of at most two bytes with delays of one and two   *)
(* digits; Hex holds every byte that the digits of torn lines can pair up  *)
(* to.                                                                     *)
(***************************************************************************)
EXTENDS SessionFile

HexDigits == { <<1, "1">>, <<2, "2">>, <<7, "7">>, <<14, "E">> }
MCDigits == { h[2] : h \in HexDigits }
MCHex == [b \in { 16 * h[1] + l[1] : h, l \in HexDigits } |->
            LET Digit(n) == (CHOOSE d \in HexDigits : d[1] = n)[2]
            IN <<Digit(b \div 16), Digit(b % 16)>>]
MCDecimal == [d \in {1, 12} |-> IF d = 1 THEN <<"1">> ELSE <<"1", "2">>]

MCDatagrams ==
    { [delay |-> d, bytes |-> b] :
        d \in {Undelayed, 1, 12}, b \in { << >>, <<126>>, <<18, 126>> } }
================================================================================
