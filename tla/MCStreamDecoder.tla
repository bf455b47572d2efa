-------------------------- MODULE MCStreamDecoder ---------------------------
(* All streams of six bytes over an alphabet of four: a mark that is also  *)
(* a length, a reserved byte, payloads up to two bytes, a length too big.  *)
EXTENDS StreamDecoder
=============================================================================
