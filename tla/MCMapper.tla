----------------------------- MODULE MCMapper -------------------------------
(* An instance of Mapper: a word of RAM and a word of ROM that share their  *)
(* cache line, a range that overlaps the ROM and is left out, and a range   *)
(* at the top of the address space, which is left out as well: its end      *)
(* wraps to 0, so that it seems to lie inside any other.                    *)
EXTENDS Mapper

Map == << [kind |-> "ram", base |-> 0, extent |-> 4],
          [kind |-> "rom", base |-> 8, extent |-> 4],
          [kind |-> "ram", base |-> 4, extent |-> 8],
          [kind |-> "ram", base |-> 12, extent |-> 4] >>

RomBytes == [k \in 0..3 |-> IF k = 1 THEN 1 ELSE 0]

AllOrders == [hostBig : BOOLEAN, bigendian : BOOLEAN]
(* Each width in RAM, a word of ROM, a word where nothing is mapped.        *)
Stores == {<<4, 0, 0>>, <<4, 0, 1>>, <<2, 0, 1>>, <<1, 1, 1>>, <<4, 8, 1>>, <<4, 12, 1>>}
=============================================================================
