---------------------------- MODULE MCAudioQueue -----------------------------
(* A queue of two bytes; empty, one-byte, queue-filling and oversized      *)
(* chunks; two HTTP requests, one provider.                                *)
EXTENDS AudioQueue

MCSizes == 0..3
==============================================================================
