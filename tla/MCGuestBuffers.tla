--------------------------- MODULE MCGuestBuffers ---------------------------
(* An instance of GuestBuffers for TLC: bytes below 5, numbers in binary, an  *)
(* int of two bytes.                                                          *)
EXTENDS GuestBuffers

CONSTANT Wide   \* the bytes of a pointer on a 64-bit guest

MCArchs == [ptr : {IntBytes, Wide}, big : BOOLEAN]
LittleArchs == {g \in MCArchs : ~g.big}

\* The keys "0" and "11".
MCKey == {<<1>>, <<2, 2>>}

\* "", "1", "-1", "=1" and "110".
MCText == {<<>>, <<2>>, <<3, 2>>, <<4, 2>>, <<2, 2, 1>>}

MCNum == {1}

MCMarked == {<<1>>}
=============================================================================
