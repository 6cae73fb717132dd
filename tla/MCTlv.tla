-------------------------------- MODULE MCTlv -------------------------------
(***************************************************************************)
(* Tlv for TLC: three octets for size_t, lengths on both sides of every    *)
(* change of form.                                                         *)
(***************************************************************************)
EXTENDS Tlv

MCLengths == {0, 1, 127, 128, 255, 256, 32768, 65535, 65536}

\* The vectors of src/tlv_test.cc that fit.
ASSUME TestVectors ==
  /\ write_length(32) = <<32>>
  /\ write_length(172) = <<129, 172>>
  /\ write_length(1025) = <<130, 4, 1>>
  /\ write_length(66051) = <<131, 1, 2, 3>>
  /\ write_string(11).octets = <<8, 11>>
  /\ write_string(128).octets = <<8, 129, 128>>

=============================================================================
