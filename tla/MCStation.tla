------------------------------ MODULE MCStation ------------------------------
(***************************************************************************)
(* Small instances of the board: one block of one processor, one BKHO_A    *)
(* device and one servo drive; requests of seven parts.                      *)
(***************************************************************************)
EXTENDS Station

=============================================================================
