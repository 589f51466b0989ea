------------------------------ MODULE MCHttpServer ------------------------------
(* Two endpoints that share a buffer, and a page in flash. *)
EXTENDS HttpServer

MCEndpoints == {"status", "history", "page"}
MCBufferOf == [e \in MCEndpoints |-> IF e = "page" THEN "rom" ELSE "json"]

=============================================================================
