---------------------------- MODULE MCRs485Link ----------------------------
(***************************************************************************)
(* Small instances of the link.  Two blocks of one processor, one BKHO_A   *)
(* device and one servo drive give the four kinds of slot and a warm-up.   *)
(***************************************************************************)
EXTENDS Rs485Link

\* Device 2 is not fitted: it never answers.
MCResponders == Devices \ {2}

=============================================================================
