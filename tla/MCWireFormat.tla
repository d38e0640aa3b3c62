---------------------------- MODULE MCWireFormat -----------------------------
(* Two SPS and two PPS of different length modulo 3, an IDR and a slice that *)
(* need three and four fragments, and an SEI of a single byte.               *)
EXTENDS WireFormat

MCNalUnits ==
  {<<103, 66, 0, 31>>, <<39, 77, 255>>, <<104, 206>>, <<104, 201, 140, 178, 200>>,
   <<101, 136, 132, 0, 255, 7, 200>>, <<65, 154, 33, 108, 63, 255, 1, 9>>, <<6>>}
==============================================================================
