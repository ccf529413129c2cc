-------------------------- MODULE MCMessageFraming --------------------------
EXTENDS MessageFraming

\* Bytes are bits: a header is three binary digits and the type.
MCPayloads == {<< >>, <<1, 0, 0, 0, 1>>}
=============================================================================
