---------------------------- MODULE MC_Supervisor ----------------------------
(* Two requests share the connection with the maintenance task.  The        *)
(* instances differ in what the two clients ask for.                        *)
EXTENDS Supervisor

CONSTANTS c1, c2

MCClients == {c1, c2}

\* A command, while another operation shares the one slot or somebody replaces
\* the master under it, or looks at it in order to attach or to reconnect.
MCShared ==
    (c1 :> {"unsafe"} @@ c2 :> {"force", "transfer", "shell", "reconnect"})

\* A command and its replay, beside looks at the connection's health.
MCReplay == (c1 :> {"replayable"} @@ c2 :> {"status"})

\* Two operations that compete for the one slot, or a command and a user who
\* has the master replaced under it and wakes maintenance up.
MCCompeting == (c1 :> {"unsafe"} @@ c2 :> {"transfer", "force"})

\* Two commands, two uses of a lost connection.
MCCommands == (c1 :> {"replayable"} @@ c2 :> {"unsafe"})
=============================================================================
