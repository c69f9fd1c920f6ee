------------------------------- MODULE ScriptWs -------------------------------
(***************************************************************************)
(* mb:ws, the WebSocket servers scripts may open: operators on a record w  *)
(* of servers and connections.  libwebsockets is external: it calls        *)
(* wsCallback from the event loop, and goes on calling it for a vhost      *)
(* after lws_vhost_destroy, until its context is destroyed.                *)
(*                                                                         *)
(* w.server[s]: owner, the instance; place, where the WsServer is kept     *)
(* ("open" in servers, "dying" in pendingDeath, "freed"); ctx, whether JS  *)
(* may still be called for it; vhost.                                      *)
(* w.conn[c]: server; closed; js, whether jsObj is held; wsi, whether lws  *)
(* still has the connection; rx, fragments of the message being received;  *)
(* tx, frames to send; told, how often "close" was fired.                  *)
(* w.got: the messages listeners were given, w.sent: the frames written.   *)
(***************************************************************************)
EXTENDS ScriptFs

NoWs == [server |-> <<>>, conn |-> <<>>, got |-> <<>>, sent |-> <<>>]

ConnsOf(w, s) == {c \in DOMAIN w.conn : w.conn[c].server = s /\ ~w.conn[c].closed}
\* What lws_vhost_user gives a callback.
Memory(w, s) == w.server[s].place # "freed"

\* createServer.  The vhost is bound before anything is kept.
JsWsCreateServer(w, owner) ==
    [w EXCEPT !.server = Append(@, [owner |-> owner, place |-> "open", ctx |-> TRUE, vhost |-> TRUE])]

\* "close" is fired at most once for a connection object: then it is let go.
DestroyConnectionJs(k, fire) ==
    IF ~k.js THEN k ELSE [k EXCEPT !.js = FALSE, !.told = IF fire THEN @ + 1 ELSE @]

\* The connections' scripts are told, the server leaves the list of open ones
\* and waits, allocated, for the engine's end.  Closing a server touches its
\* own connections only, so a loop over servers is one step.
CloseWsServers(w, ss) ==
    LET open == {s \in ss : w.server[s].place = "open"}
    IN [w EXCEPT !.conn = [c \in DOMAIN @ |-> IF \E s \in open : c \in ConnsOf(w, s)
                                             THEN DestroyConnectionJs(@[c], TRUE) ELSE @[c]],
                 !.server = [s \in DOMAIN @ |-> IF s \in open
                               THEN [@[s] EXCEPT !.ctx = FALSE, !.vhost = FALSE, !.place = "dying"]
                               ELSE @[s]]]
JsWsServerClose(w, s) == CloseWsServers(w, {s})
WsUnloadInstance(w, owner) ==
    CloseWsServers(w, {s \in DOMAIN w.server : w.server[s].owner = owner})

-----------------------------------------------------------------------------
(* wsCallback.                                                               *)

\* A closed server refuses; else the script gets a connection object.
Established(w, s) ==
    IF w.server[s].place # "open" THEN w
    ELSE [w EXCEPT !.conn = Append(@, [server |-> s, closed |-> FALSE, js |-> w.server[s].ctx,
                                       wsi |-> TRUE, rx |-> <<>>, tx |-> <<>>, told |-> 0])]
\* Fragments are put together; the last one delivers the message, if there is
\* somebody to deliver it to.
Receive(w, c, fragment, final) ==
    LET text == Append(w.conn[c].rx, fragment)
        heard == w.server[w.conn[c].server].ctx /\ w.conn[c].js
    IN CASE w.conn[c].closed -> w
         [] ~w.conn[c].closed /\ final /\ heard ->
              [w EXCEPT !.conn[c].rx = <<>>, !.got = Append(@, <<c, text>>)]
         [] OTHER -> [w EXCEPT !.conn[c].rx = text]
\* One frame a call; a short write loses it.
ServerWriteable(w, c, short) ==
    LET tx == w.conn[c].tx IN
    IF w.conn[c].closed \/ tx = <<>> THEN w
    ELSE [w EXCEPT !.conn[c].tx = Tail(@),
                   !.sent = IF short THEN @ ELSE Append(@, <<c, Head(tx)>>)]
JsWsConnSend(w, c, frame) ==
    IF w.conn[c].closed \/ ~w.conn[c].js \/ ~w.conn[c].wsi THEN w
    ELSE [w EXCEPT !.conn[c].tx = Append(@, frame)]

\* The peer, or lws_vhost_destroy, ended the connection k.
LwsClosed(w, k) ==
    LET told == IF w.server[k.server].ctx /\ w.server[k.server].place = "open"
                THEN DestroyConnectionJs(k, TRUE) ELSE k
    IN IF k.closed THEN k ELSE [told EXCEPT !.closed = TRUE, !.wsi = FALSE]

\* The end of the engine: everything is closed, lws is drained, and then the
\* servers are freed.
WsDestroyEngine(w) ==
    LET shut == CloseWsServers(w, DOMAIN w.server)
    IN [shut EXCEPT !.conn = [c \in DOMAIN @ |-> LwsClosed(shut, @[c])],
                    !.server = [s \in DOMAIN @ |-> [@[s] EXCEPT !.place = "freed"]]]
=============================================================================
