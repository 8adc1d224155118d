-------------------------------- MODULE MCTurn -------------------------------
(* Turn for TLC: its requests, by method.                                   *)
EXTENDS Turn

Gets  == {"item", "login", "issue", "comments", "head", "reviews", "inline",
          "files", "tool"}
Posts == {"vend", "chat", "append"}
Requests == Gets \union Posts
=============================================================================
