------------------------------- MODULE Wire -------------------------------
(***************************************************************************)
(* The messages of the WebSocket (shared/protocol.ts), reduced to those    *)
(* that change who holds a channel or waits for an answer. "fin" stands    *)
(* for the socket's own close frame; from the server it always carries     *)
(* CLOSE_REVOKED, the only code Session.close() is called with.            *)
(***************************************************************************)
CONSTANTS
  Sessions,   \* the WebSockets a page makes, each with its Session
  Ids         \* values of RpcClient.nextId

ClientMessage == [t : {"fin"}] \cup [t : {"req", "open", "close"}, id : Ids]

ServerMessage == [t : {"hello", "fin"}] \cup [t : {"res", "opened", "close"}, id : Ids]

\* A table with an entry for every id of every socket.
Table(T) == [Sessions -> [Ids -> T]]
=============================================================================
