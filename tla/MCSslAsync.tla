----------------------------- MODULE MCSslAsync -----------------------------
EXTENDS SslAsync

(* A full handshake: the certificate is sent in two units.                 *)
MCFlights == [s \in Sides |-> IF s = "client" THEN <<"out", "in", "in", "out", "in">>
                              ELSE <<"in", "out", "out", "in", "out">>]
=============================================================================
