---------------------------- MODULE MCNfcReader ----------------------------
(* Blocks of six bytes of which five are kept, ids of two digits.          *)
EXTENDS NfcReader

Text(a, b) == <<105, 100, 61, a, b, 254>>
Other == <<4, 120, 0, 120, 0, 120>>
Blank == <<0, 0, 0, 0, 0, 0>>

Second == [id |-> <<55, 56>>, serial |-> <<4, 160, 53, 178, 188, 43, 128>>,
           sums |-> <<1, 2, 3, 4, 161>>,
           block |-> <<Other, Text(55, 56), Blank, Blank>>]
Third  == [id |-> <<57, 49>>, serial |-> <<4, 0, 0, 0, 0, 0, 1>>,
           sums |-> <<0, 2, 3, 4, 7>>,
           block |-> <<Other, Blank, Text(57, 49), Blank>>]
TwoTags == {Second, Third}
=============================================================================
