------------------------- MODULE MCBufferProtocol -------------------------
(* BufferProtocol for TLC: a four-byte stream with both kinds of line end *)
(* through a two-byte buffer.                                            *)
EXTENDS BufferProtocol

MCSource == <<"a", "\r", "\n", "\n">>
=============================================================================
