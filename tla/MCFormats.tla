----------------------------- MODULE MCFormats ------------------------------
(* Every content of up to four words and five longer ones, so that a delta   *)
(* copies, inserts, does both, does neither and is too large; images and     *)
(* packs with a delta, an empty entry, an entry of two and of three header   *)
(* bytes, a base one, two and three bytes of distance back, an entry too     *)
(* large and an entry too many; every body of up to three packets.           *)
EXTENDS Formats

MCContents ==
    UNION {[1 .. n -> {1, 2}] : n \in 0 .. 4} \cup
    {[i \in 1 .. 9 |-> IF i = 4 THEN 2 ELSE 1], [i \in 1 .. 10 |-> 1 + ((i \div 3) % 2)], [i \in 1 .. 9 |-> 1],
     [i \in 1 .. 16 |-> 1 + (i % 2)], [i \in 1 .. 17 |-> 1]}

Packed(s, k, b, c) == [sha |-> s, kind |-> k, base |-> b, content |-> c]
MCImages ==
    { <<Packed(1, 1, 0, <<1>>)>>,
      <<Packed(1, 1, 0, <<1, 2>>), Packed(2, 2, 0, <<>>), Packed(3, 2, 7, <<1, 2, 3, 4, 5>>), Packed(4, 3, 2, <<1>>)>>,
      <<Packed(1, 1, 9, <<1, 2, 1, 2>>), Packed(3, 3, 0, [i \in 1 .. 20 |-> 1])>>,
      <<Packed(1, 1, 0, <<1>>), Packed(2, 2, 1, [i \in 1 .. 16 |-> 1]), Packed(3, 2, 1, <<1>>), Packed(4, 3, 2, <<2>>)>>,
      [i \in 1 .. 5 |-> Packed(i, 1, 0, <<1>>)],
      <<Packed(1, 1, 0, <<2>>), Packed(3, 2, 0, <<1, 1, 1>>)>> }

Line(data) == [marker |-> 9, data |-> data]
Marker(m) == [marker |-> m, data |-> <<>>]
MCBodies == UNION {[1 .. n -> {Line(<<1>>), Line(<<5, 0>>), Marker(0), Marker(1), Marker(2)}] : n \in 0 .. 3}
=============================================================================
