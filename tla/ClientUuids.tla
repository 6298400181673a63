----------------------------- MODULE ClientUuids -----------------------------
(* The identity that a sale has at the till, on the link and on the server. *)

CONSTANT Sales      \* client_uuids: one per sale, for its whole life
=============================================================================
