----------------------------- MODULE MCDirectRead -----------------------------
(***************************************************************************)
(* Tables of up to 17 rows in files around one and two pages long, at      *)
(* offsets that put rows before, on and across a page boundary.            *)
(***************************************************************************)
EXTENDS DirectRead

MCSizes == {0, 3900, 4095, 4096, 4097, 8191, 8192, 8193}
MCOffsets == {0, 1, 8, 3840, 3841, 4089, 4096, 8193}
MCRowCounts == {0, 1, 2, 15, 16, 17}
=============================================================================
