--------------------------- MODULE MCSlottedPage ----------------------------
(* A small page: records of one, two and three bytes in a data area of     *)
(* DataSize bytes.                                                         *)
EXTENDS SlottedPage

CONSTANTS a, b, c, d

MCRecords == {<<a>>, <<b, c>>, <<b, c, d>>}
MCByte == {a, b, c, d}
=============================================================================
