------------------------------ MODULE MCDbPosix ------------------------------
(* DbPosix with one client that updates a variable and one that watches it. *)
EXTENDS DbPosix

CONSTANTS writer, watcher

Roles == [c \in Client |->
            IF c = writer THEN {"CREATE", "UPDATE"} ELSE {"READ", "TRIG_SET", "LOGOUT"}]

QueueIds == {-1, 1, 2, 3}
=============================================================================
