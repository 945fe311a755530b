----------------------------- MODULE PgSession -----------------------------
(***************************************************************************)
(* The database connection of a PgIndexer (basic-indexer-pg/src): one      *)
(* client shared by the loop and by every handler, the flag that says      *)
(* whether it is connected, its replacement after DB_CLIENT_RECYCLE_COUNT  *)
(* commits, and the server's side of it: the open transaction and what is  *)
(* durable.  Whoever sends a query uses the transaction that is open.      *)
(*                                                                         *)
(* A client can be connected once.  The constructor and the recycling      *)
(* attach handlers for its `end' and `error' events; the client that       *)
(* getNextHeight() makes has none.  The models begin after setup(), which  *)
(* connected the client of the constructor.                                *)
(***************************************************************************)
EXTENDS Integers

CONSTANT RecycleCount    \* DB_CLIENT_RECYCLE_COUNT

ASSUME RecycleAssumption == RecycleCount \in Nat \ {0}

VARIABLES
    client,             \* [open, watched]: connected?  with event handlers?
    instanceConnected,  \* the flag
    clientReuse,        \* commits through this client
    tx,                 \* on the server: "none", "open" or "aborted"
    pending,            \* written in the open transaction
    durable             \* committed

clientVars == <<client, instanceConnected, clientReuse>>
serverVars == <<tx, pending, durable>>
sessionVars == <<clientVars, serverVars>>

NewClient(open, watched) == [open |-> open, watched |-> watched]

ConnectedAtSetup ==
    /\ client' = NewClient(TRUE, TRUE)
    /\ instanceConnected' = TRUE
    /\ clientReuse' = 0

SessionInit ==
    /\ client = NewClient(TRUE, TRUE)
    /\ instanceConnected = TRUE
    /\ clientReuse = 0
    /\ tx = "none" /\ pending = {} /\ durable = {}

\* The server rolls back, on request or because the connection is gone.
DropTransaction == tx' = "none" /\ pending' = {} /\ UNCHANGED durable

-----------------------------------------------------------------------------
\* beginTransaction().  With the flag down it connects the client it has, which
\* was connected before and rejects.
CanBegin == instanceConnected /\ client.open

BeginTransaction ==
    /\ CanBegin
    /\ tx' = "open"
    /\ UNCHANGED <<clientVars, pending, durable>>

\* COMMIT: the server answers the COMMIT of an aborted transaction without an
\* error, and rolls back.
CommitTransaction ==
    /\ durable' = IF tx = "open" THEN durable \cup pending ELSE durable
    /\ tx' = "none"
    /\ pending' = {}

\* The finally block of endTransaction(): a client that was used often enough is
\* replaced, and so it is after an error.
Recycle(reuse) ==
    IF reuse >= RecycleCount
    THEN /\ client' = NewClient(TRUE, TRUE)
         /\ instanceConnected' = TRUE
         /\ clientReuse' = 0
    ELSE clientReuse' = reuse /\ UNCHANGED <<client, instanceConnected>>

\* The new client cannot connect; it has handlers, and its end clears the flag.
RecycleFails(reuse) ==
    /\ reuse >= RecycleCount
    /\ client' = NewClient(FALSE, TRUE)
    /\ instanceConnected' = FALSE
    /\ clientReuse' = reuse

-----------------------------------------------------------------------------
\* Mutant: the end of a connection goes unnoticed.
LoseConnection_Unnoticed ==
    /\ client.open
    /\ client' = [client EXCEPT !.open = FALSE]
    /\ UNCHANGED <<instanceConnected, clientReuse>>

\* The server or the network ends the connection.
LoseConnection ==
    /\ client.open
    /\ client' = [client EXCEPT !.open = FALSE]
    /\ instanceConnected' = (instanceConnected /\ ~client.watched)
    /\ UNCHANGED clientReuse

\* getNextHeight() makes a new client if the flag is down.
Reconnect ==
    /\ IF instanceConnected
       THEN client.open /\ UNCHANGED client
       ELSE client' = NewClient(TRUE, FALSE)
    /\ instanceConnected' = TRUE
    /\ UNCHANGED <<clientReuse, serverVars>>
=============================================================================
