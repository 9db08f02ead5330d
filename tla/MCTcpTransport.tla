--------------------------- MODULE MCTcpTransport ---------------------------
(* Small instances of the TCP transporter: two lookups, messages of two     *)
(* bytes.                                                                    *)
EXTENDS TcpTransport

CONSTANTS q1, q2
=============================================================================
