------------------------------ MODULE WsClient ------------------------------
(***************************************************************************)
(* The Relay's WebSocket client (createHaWsClient): all requests share one *)
(* connection, made when one is needed and dropped when an operation on it *)
(* fails.  The library's connection is external: it reconnects by itself   *)
(* until it is closed or Home Assistant rejects the token, does not renew  *)
(* subscriptions, rejects what was unanswered when it is lost, and may     *)
(* still report that after it was closed.                                  *)
(*                                                                         *)
(* Requests that wait for one connection attempt resume one after another  *)
(* with nothing in between.  A request's number, payload and error text    *)
(* are left out.                                                           *)
(***************************************************************************)
EXTENDS Naturals

CONSTANTS Sends, Collects,  \* calls of sendMessage and of collectMessageEvents
          Conns, NoConn,    \* bound: each connection is attempted once
          MaxEvents         \* maxEvents of every collection

WsAssumption ==
  /\ NoConn \notin Conns /\ Sends \cap Collects = {} /\ MaxEvents \in Nat \ {0}

VARIABLES current,     \* connection
          connecting,  \* the attempt connectingPromise stands for
          connected,
          everConnected,
          failure,     \* lastConnectFailure
          link,        \* the library's side of each connection
          send, collect,
          broken       \* history: the connections some operation failed on

clientVars == <<current, connecting, connected, everConnected, failure>>
vars == <<clientVars, link, send, collect, broken>>

\* lost: rejected with its connection, and the caller does not know yet.
Send == [at : {"idle", "waiting", "sent", "lost", "done"}, conn : Conns \cup {NoConn}]

\* acked: unsubscribe is known; late: unsubscribeOnAck.
Collect ==
  [at : {"idle", "waiting", "open", "leaving", "done"}, conn : Conns \cup {NoConn},
   window : BOOLEAN, sub : {"none", "asked", "live", "gone"}, acked : BOOLEAN,
   late : BOOLEAN, events : 0..MaxEvents,
   result : {"none", "finished", "truncated", "overflow", "failed", "refused"}]

WsTypeOK ==
  /\ current \in Conns \cup {NoConn} /\ connecting \in Conns \cup {NoConn}
  /\ connected \in BOOLEAN /\ everConnected \in BOOLEAN
  /\ failure \in {"none", "auth", "network"}
  /\ link \in [Conns -> {"new", "connecting", "open", "down", "closed"}]
  /\ send \in [Sends -> Send] /\ collect \in [Collects -> Collect]
  /\ broken \in SUBSET Conns
  /\ \A s \in Sends : send[s].at \in {"waiting", "sent", "lost"} => send[s].conn # NoConn

Init ==
  /\ current = NoConn /\ connecting = NoConn
  /\ connected = FALSE /\ everConnected = FALSE /\ failure = "none"
  /\ link = [c \in Conns |-> "new"]
  /\ send = [s \in Sends |-> [at |-> "idle", conn |-> NoConn]]
  /\ collect = [k \in Collects |->
       [at |-> "idle", conn |-> NoConn, window |-> FALSE, sub |-> "none", acked |-> FALSE,
        late |-> FALSE, events |-> 0, result |-> "none"]]
  /\ broken = {}

-----------------------------------------------------------------------------
(* getOrCreateConnection *)

Attempt(c) ==
  /\ link[c] = "new"
  /\ connecting' = c /\ link' = [link EXCEPT ![c] = "connecting"]

AttemptIfNone(c) ==
  /\ current = NoConn
  /\ \/ connecting = NoConn /\ Attempt(c)
     \/ connecting = c /\ UNCHANGED <<connecting, link>>

\* The connection that is there, the one being made, or a new attempt.
Request(c, using, waiting) ==
  /\ \/ current = c /\ using /\ UNCHANGED <<connecting, link>>
     \/ AttemptIfNone(c) /\ waiting
  /\ UNCHANGED <<current, connected, everConnected, failure, broken>>

StartSend(s, c) ==
  /\ send[s].at = "idle"
  /\ Request(c, send' = [send EXCEPT ![s] = [at |-> "sent", conn |-> c]],
                send' = [send EXCEPT ![s] = [at |-> "waiting", conn |-> c]])
  /\ UNCHANGED collect

Subscribing(call) == [call EXCEPT !.at = "open", !.sub = "asked"]

StartCollect(k, c, window) ==
  LET call == [collect[k] EXCEPT !.conn = c, !.window = window] IN
  /\ collect[k].at = "idle"
  /\ Request(c, collect' = [collect EXCEPT ![k] = Subscribing(call)],
                collect' = [collect EXCEPT ![k] = [call EXCEPT !.at = "waiting"]])
  /\ UNCHANGED send

Waits(call, c) == call.at = "waiting" /\ call.conn = c

Connect(c) ==
  /\ link[c] = "connecting"
  /\ link' = [link EXCEPT ![c] = "open"]
  /\ current' = c /\ connected' = TRUE /\ everConnected' = TRUE /\ failure' = "none"
  /\ connecting' = NoConn
  /\ send' = [s \in Sends |-> IF Waits(send[s], c) THEN [send[s] EXCEPT !.at = "sent"]
                                                   ELSE send[s]]
  /\ collect' = [k \in Collects |-> IF Waits(collect[k], c) THEN Subscribing(collect[k])
                                                            ELSE collect[k]]
  /\ UNCHANGED broken

ConnectFails(c, why) ==
  /\ link[c] = "connecting"
  /\ link' = [link EXCEPT ![c] = "closed"] /\ broken' = broken \cup {c}
  /\ failure' = why
  /\ connecting' = NoConn
  /\ send' = [s \in Sends |-> IF Waits(send[s], c) THEN [send[s] EXCEPT !.at = "done"]
                                                   ELSE send[s]]
  /\ collect' = [k \in Collects |->
       IF Waits(collect[k], c) THEN [collect[k] EXCEPT !.at = "done", !.result = "failed"]
                               ELSE collect[k]]
  /\ UNCHANGED <<current, connected, everConnected>>

-----------------------------------------------------------------------------
(* resetConnection, and the events of a connection *)

CloseCurrent ==
  /\ current' = NoConn /\ connected' = FALSE
  /\ link' = [link EXCEPT ![current] = "closed"]

\* A late failure on a connection that was replaced leaves the replacement alone.
Reset(c) ==
  \/ current = c /\ CloseCurrent
  \/ current # c /\ UNCHANGED <<current, connected, link>>

IsCurrent(c) == current = c

Report(c, up) == connected' = IF IsCurrent(c) THEN up ELSE connected

\* The library loses the connection: its subscriptions are gone, and what was
\* asked is rejected.
Disconnect(c) ==
  /\ link[c] = "open"
  /\ link' = [link EXCEPT ![c] = "down"]
  /\ Report(c, FALSE)
  /\ send' = [s \in Sends |->
       IF send[s].conn = c /\ send[s].at = "sent" THEN [send[s] EXCEPT !.at = "lost"]
                                                  ELSE send[s]]
  /\ collect' = [k \in Collects |->
       IF collect[k].conn = c THEN [collect[k] EXCEPT !.sub = "gone"] ELSE collect[k]]
  /\ UNCHANGED <<current, connecting, everConnected, failure, broken>>

\* The final events of a connection that was closed.
LateEvent(c) ==
  /\ link[c] = "closed"
  /\ \E up \in BOOLEAN : Report(c, up)
  /\ UNCHANGED <<current, connecting, everConnected, failure, link, send, collect, broken>>

Ready(c) ==
  /\ link[c] = "down"
  /\ link' = [link EXCEPT ![c] = "open"]
  /\ Report(c, TRUE)
  /\ UNCHANGED <<current, connecting, everConnected, failure, send, collect, broken>>

\* reconnect-error: Home Assistant rejects the token.
ReconnectError(c) ==
  /\ link[c] = "down" /\ IsCurrent(c)
  /\ failure' = "auth" /\ broken' = broken \cup {c}
  /\ Reset(c)
  /\ UNCHANGED <<connecting, everConnected, send, collect>>

\* A timeout or a transport failure of an operation on c.
FailOn(c) ==
  /\ Reset(c) /\ broken' = broken \cup {c}
  /\ UNCHANGED <<connecting, everConnected, failure>>

-----------------------------------------------------------------------------
(* sendMessage *)

\* The answer, or Home Assistant's error for the command: the connection stays.
Answered(s) ==
  /\ send[s].at = "sent" /\ link[send[s].conn] = "open"
  /\ send' = [send EXCEPT ![s].at = "done"]
  /\ UNCHANGED <<clientVars, link, collect, broken>>

SendFails(s) ==
  /\ send[s].at \in {"sent", "lost"}
  /\ send' = [send EXCEPT ![s].at = "done"]
  /\ FailOn(send[s].conn)
  /\ UNCHANGED collect

-----------------------------------------------------------------------------
(* collectMessageEvents *)

Put(k, call) == collect' = [collect EXCEPT ![k] = call]

\* `finally`: unsubscribe and wait, or leave it to the acknowledgement.
LeaveAtOnce(call) == IF call.acked THEN [call EXCEPT !.at = "leaving"]
                                   ELSE [call EXCEPT !.at = "done"]

Leave(call) == IF call.acked THEN [call EXCEPT !.at = "leaving"]
                             ELSE [call EXCEPT !.at = "done", !.late = TRUE]

Ack(k) ==
  LET call == collect[k] IN
  /\ call.sub = "asked" /\ link[call.conn] = "open"
  /\ Put(k, IF call.late THEN [call EXCEPT !.sub = "gone"]
                         ELSE [call EXCEPT !.sub = "live", !.acked = TRUE])
  /\ UNCHANGED <<clientVars, link, send, broken>>

\* Home Assistant's error for the subscription.
Refused(k) ==
  LET call == [collect[k] EXCEPT !.sub = "gone"] IN
  /\ collect[k].sub = "asked" /\ link[call.conn] = "open"
  /\ Put(k, IF call.at = "open" THEN Leave([call EXCEPT !.result = "refused"]) ELSE call)
  /\ UNCHANGED <<clientVars, link, send, broken>>

AtLimit(n) == n >= MaxEvents

\* An event may come before the acknowledgement.
Event(k, finish) ==
  LET call == [collect[k] EXCEPT !.events = @ + 1] IN
  /\ collect[k].at = "open" /\ collect[k].sub \in {"asked", "live"}
  /\ link[call.conn] = "open"
  /\ Put(k, IF finish THEN Leave([call EXCEPT !.result = "finished"])
            ELSE IF ~AtLimit(call.events) THEN call
            ELSE Leave([call EXCEPT !.result = IF call.window THEN "truncated" ELSE "overflow"]))
  /\ UNCHANGED <<clientVars, link, send, broken>>

\* The window's timer starts with the acknowledgement.
TimerRuns(call) == call.window /\ call.acked

WindowEnds(k) ==
  /\ collect[k].at = "open" /\ TimerRuns(collect[k])
  /\ Put(k, Leave([collect[k] EXCEPT !.result = "truncated"]))
  /\ UNCHANGED <<clientVars, link, send, broken>>

\* The timeout of the whole, or the subscription's request lost: an unsubscribe
\* on the connection is not waited for.
CollectFails(k) ==
  LET call == [collect[k] EXCEPT !.result = "failed", !.at = "done"] IN
  /\ collect[k].at = "open"
  /\ Put(k, IF call.acked THEN [call EXCEPT !.sub = "gone"] ELSE [call EXCEPT !.late = TRUE])
  /\ FailOn(call.conn)
  /\ UNCHANGED send

\* The unsubscribe is answered, or rejected with its connection.
Unsubscribed(k) ==
  /\ collect[k].at = "leaving"
  /\ \/ Put(k, [collect[k] EXCEPT !.at = "done", !.sub = "gone"])
     \/ /\ link[collect[k].conn] # "open"
        /\ Put(k, [collect[k] EXCEPT !.at = "done", !.sub = "gone", !.result = "failed"])
  /\ UNCHANGED <<clientVars, link, send, broken>>

-----------------------------------------------------------------------------

Next ==
  \/ \E c \in Conns :
       \/ \E s \in Sends : StartSend(s, c)
       \/ \E k \in Collects, window \in BOOLEAN : StartCollect(k, c, window)
       \/ Connect(c)
       \/ \E why \in {"auth", "network"} : ConnectFails(c, why)
       \/ Disconnect(c) \/ LateEvent(c) \/ Ready(c) \/ ReconnectError(c)
  \/ \E s \in Sends : Answered(s) \/ SendFails(s)
  \/ \E k \in Collects :
       \/ Ack(k) \/ Refused(k) \/ WindowEnds(k) \/ CollectFails(k) \/ Unsubscribed(k)
       \/ \E finish \in BOOLEAN : Event(k, finish)

Spec == Init /\ [][Next]_vars

-----------------------------------------------------------------------------
(* Properties *)

\* However many requests ask at once, and whichever of them fail, the one open
\* (or reconnecting) connection is the one the client uses: no abandoned one
\* goes on next to it.  What /health reports of it is true, whatever an older
\* one still reports.  And a connection is closed only after an operation on that
\* very connection failed: a late failure of a replaced one does not take down its
\* replacement.  While it is open, no subscription outlives its collection on it, also
\* when the collection ended before the acknowledgement.
OneTrueConnection ==
  /\ {c \in Conns : link[c] \in {"open", "down"}} = {current} \ {NoConn}
  /\ connected <=> current # NoConn /\ link[current] = "open"
  /\ \A c \in Conns : link[c] = "closed" => c \in broken
  /\ \A k \in Collects :
       collect[k].at = "done" /\ collect[k].sub = "live" => link[collect[k].conn] # "open"
=============================================================================
