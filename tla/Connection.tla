----------------------------- MODULE Connection -----------------------------
(***************************************************************************)
(* Signing in, and the byte stream below everything else: the client's     *)
(* ConnectionDialog (GUI thread) and NetworkManager (network thread), the  *)
(* server's TcpServer, ClientSession and AuthManager, and the part of      *)
(* MessageHandler that authenticates.                                      *)
(*                                                                         *)
(* The two threads of the client talk through queued calls and queued      *)
(* signals: netq and guiq.  A connection carries bytes; a message becomes  *)
(* a frame, a header of HeaderSize bytes in base Base with the length and  *)
(* then the payload.  A payload of size n is n distinct bytes.  The TCP    *)
(* connection and Qt's socket are external.                                *)
(***************************************************************************)
EXTENDS Naturals, Sequences, FiniteSets

CONSTANTS Names, Passwords,     \* what a user may type; "" is an empty field
          HeaderSize, Base,     \* 4 and 256 in the code
          MaxPayload,           \* MAX_PAYLOAD_SIZE
          PushSizes,            \* sizes of the messages other parts exchange
          MaxAttempts,          \* bound on the attempts to sign in
          MaxPushes,            \* bound on those messages
          MaxFaults             \* bound on the connections lost

\* The value of a digit with i digits behind it.
Weight[i \in 0 .. HeaderSize] == IF i = 0 THEN 1 ELSE Weight[i - 1] * Base

\* No length in a header is as large; stands for std::nullopt.
Oversize == Weight[HeaderSize]

ASSUME ConnectionAssumption ==
    /\ HeaderSize \in Nat \ {0} /\ Base \in Nat \ {0, 1} /\ MaxAttempts \in Nat
    /\ PushSizes \subseteq 1 .. Oversize - 1
    /\ MaxPayload \in 1 .. Oversize - 1

VARIABLES
    \* ConnectionDialog, in the GUI thread
    pending_action,    \* "" when no attempt is under way
    box,               \* the message box of reportFailure is open
    username, password,
    accepted,          \* the dialog was accepted, the list window is shown
    identity,          \* NetworkManager's userId and username
    guiq,              \* signals on their way to the GUI thread
    \* NetworkManager, in the network thread
    netq,              \* queued calls
    sock,              \* state of the QTcpSocket
    pendingClose,      \* disconnectFromHost was called while connecting
    conn,              \* number of the current connection, 0 at first
    rx_buffer,
    \* connections
    link,              \* "none", "open", "closed" by the client or "lost"
    up, down,          \* bytes under way in each direction
    \* the server
    session,           \* the ClientSession of each connection
    sessions,          \* TcpServer::sessions_
    pool,              \* tasks of the thread pool, in any order
    users,             \* AuthManager::users_: [id, password] or NoUser
    \* history variables and counters of the bounds
    toClient,          \* payloads passed to ClientSession::send
    emitted,           \* payloads of messageReceived
    attempts, pushes, faults

dialogVars == <<pending_action, box, username, password, accepted, identity>>
netVars == <<sock, pendingClose, conn, rx_buffer>>
serverVars == <<session, sessions, pool, users, toClient>>
connBounds == <<attempts, pushes, faults>>
connVars == <<dialogVars, guiq, netq, netVars, link, up, down, serverVars,
              emitted, connBounds>>

Conn == 1 .. MaxAttempts
NoUser == [id |-> 0, password |-> ""]
Registered == {n \in Names : users[n] # NoUser}

ConnInit ==
    /\ pending_action = "" /\ box = FALSE /\ username = "" /\ password = ""
    /\ accepted = FALSE /\ identity = <<0, "">>
    /\ guiq = << >> /\ netq = << >>
    /\ sock = "unconnected" /\ pendingClose = FALSE /\ conn = 0 /\ rx_buffer = << >>
    /\ link = [k \in Conn |-> "none"]
    /\ up = [k \in Conn |-> << >>] /\ down = [k \in Conn |-> << >>]
    /\ session = [k \in Conn |-> [userId |-> 0, username |-> "", authenticated |-> FALSE,
                                  disconnected |-> FALSE, reading |-> "none",
                                  length |-> 0, write_queue |-> << >>, writing |-> FALSE]]
    /\ sessions = {} /\ pool = {}
    /\ users = [n \in Names |-> NoUser]
    /\ toClient = [k \in Conn |-> << >>] /\ emitted = [k \in Conn |-> << >>]
    /\ attempts = 0 /\ pushes = 0 /\ faults = 0

-----------------------------------------------------------------------------
(* Messages and frames *)

AuthRequest == [type |-> "auth_request", action |-> pending_action,
                username |-> username, password |-> password, size |-> 1]
AuthResponse(success, userId) ==
    [type |-> "auth_response", success |-> success, userId |-> userId, size |-> 1]
Request(n, size) == [type |-> "request", number |-> n, size |-> size]
ErrorMsg(code) == [type |-> "error", code |-> code, size |-> 1]
Push(n, size) == [type |-> "push", number |-> n, size |-> size]

\* The bytes of a message; the first one tells which message it is.
Payload(m) == [i \in 1 .. m.size |-> <<m, i>>]
Parsed(payload) == payload[1][1]

Header(n) == [i \in 1 .. HeaderSize |->
                <<[type |-> "header"], (n \div Weight[HeaderSize - i]) % Base>>]

encode_frame(payload) == Header(Len(payload)) \o payload

\* The length in a header, or Oversize.
decode_frame_header(bytes) ==
    LET value[i \in 0 .. HeaderSize] ==
            IF i = 0 THEN 0 ELSE value[i - 1] * Base + bytes[i][2]
    IN  IF value[HeaderSize] > MaxPayload THEN Oversize ELSE value[HeaderSize]

-----------------------------------------------------------------------------
(* ConnectionDialog *)

Post(calls) == netq' = netq \o calls

\* startAuth.  A user acts after the events already queued in both threads
\* have been handled.
startAuth ==
    /\ ~ accepted /\ ~ box /\ pending_action = ""
    /\ netq = << >> /\ guiq = << >> /\ attempts < MaxAttempts
    /\ \E action \in {"login", "register"}, name \in Names \cup {""}, pw \in Passwords :
        /\ username' = name /\ password' = pw
        /\ IF name = ""
           THEN box' = TRUE /\ UNCHANGED <<pending_action, netq>>
           ELSE pending_action' = action /\ Post(<<[call |-> "connect"]>>) /\ box' = box
    /\ attempts' = attempts + 1
    /\ UNCHANGED <<accepted, identity, guiq, netVars, link, up, down, serverVars,
                   emitted, pushes, faults>>

\* reportFailure: the box is modal, the disconnection is asked for when the
\* user has closed it; other events are handled in between.
reportFailure ==
    /\ pending_action' = "" /\ box' = TRUE
    /\ UNCHANGED <<accepted, identity, netq>>

CloseBox ==
    /\ box
    /\ box' = FALSE /\ Post(<<[call |-> "disconnect"]>>)
    /\ UNCHANGED <<pending_action, username, password, accepted, identity, guiq,
                   netVars, link, up, down, serverVars, emitted, connBounds>>

onConnected ==
    /\ Post(<<[call |-> "send", msg |-> AuthRequest]>>)
    /\ UNCHANGED <<pending_action, box, accepted, identity>>

\* The list window, created when the dialog is accepted, asks for the list.
onAuthResponse(auth) ==
    IF ~ auth.success THEN reportFailure
    ELSE /\ identity' = <<auth.userId, username>>
         /\ pending_action' = "" /\ accepted' = TRUE /\ box' = box
         /\ Post(<<[call |-> "send", msg |-> Request(0, 1)]>>)

GuiEvent_bug_error ==
    /\ guiq # << >>
    /\ guiq' = Tail(guiq)
    /\ LET e == Head(guiq)
           ignored == UNCHANGED <<pending_action, box, accepted, identity, netq>>
       IN  IF pending_action = "" THEN ignored
           ELSE CASE e.signal = "connected" -> onConnected
                  [] e.signal = "disconnected" -> reportFailure
                  [] e.signal = "error" -> ignored
                  [] e.signal = "message" ->
                       IF Parsed(e.payload).type = "auth_response"
                       THEN onAuthResponse(Parsed(e.payload)) ELSE ignored
    /\ UNCHANGED <<username, password, netVars, link, up, down, serverVars,
                   emitted, connBounds>>

\* A signal reaches the dialog; it counts only while an attempt is pending.
GuiEvent ==
    /\ guiq # << >>
    /\ guiq' = Tail(guiq)
    /\ LET e == Head(guiq)
           ignored == UNCHANGED <<pending_action, box, accepted, identity, netq>>
       IN  IF pending_action = "" THEN ignored
           ELSE CASE e.signal = "connected" -> onConnected
                  [] e.signal \in {"disconnected", "error"} -> reportFailure
                  [] e.signal = "message" ->
                       IF Parsed(e.payload).type = "auth_response"
                       THEN onAuthResponse(Parsed(e.payload)) ELSE ignored
    /\ UNCHANGED <<username, password, netVars, link, up, down, serverVars,
                   emitted, connBounds>>

\* A window asks for something: the client does not look at the size either.
UserRequest ==
    /\ accepted /\ pushes < MaxPushes
    /\ \E size \in PushSizes :
        Post(<<[call |-> "send", msg |-> Request(pushes + 1, size)]>>)
    /\ pushes' = pushes + 1
    /\ UNCHANGED <<dialogVars, guiq, netVars, link, up, down, serverVars, emitted,
                   attempts, faults>>

-----------------------------------------------------------------------------
(* NetworkManager *)

Signal(names) == guiq' = guiq \o [i \in DOMAIN names |-> [signal |-> names[i]]]

connectToHost ==
    /\ rx_buffer' = << >>
    /\ IF sock = "unconnected"
       THEN sock' = "connecting" /\ conn' = conn + 1 /\ guiq' = guiq
       ELSE Signal(<<"error">>) /\ UNCHANGED <<sock, conn>>
    /\ UNCHANGED <<pendingClose, up>>

disconnectFromHost ==
    /\ sock' = IF sock = "connected" THEN "closing" ELSE sock
    /\ pendingClose' = (sock = "connecting")
    /\ UNCHANGED <<guiq, conn, rx_buffer, up>>

sendFrame(m) ==
    /\ IF sock = "connected"
       THEN /\ up' = [up EXCEPT ![conn] = IF link[conn] = "open"
                                           THEN @ \o encode_frame(Payload(m)) ELSE @]
            /\ guiq' = guiq
       ELSE Signal(<<"error">>) /\ up' = up
    /\ UNCHANGED netVars

NetCall ==
    /\ netq # << >>
    /\ netq' = Tail(netq)
    /\ LET c == Head(netq)
       IN  CASE c.call = "connect" -> connectToHost
             [] c.call = "disconnect" -> disconnectFromHost
             [] c.call = "send" -> sendFrame(c.msg)
    /\ UNCHANGED <<dialogVars, link, down, serverVars, emitted, connBounds>>

SocketConnected ==
    /\ sock = "connecting"
    /\ sock' = IF pendingClose THEN "closing" ELSE "connected"
    /\ pendingClose' = FALSE
    /\ link' = [link EXCEPT ![conn] = "open"]
    /\ Signal(<<"connected">>)
    /\ UNCHANGED <<dialogVars, netq, conn, rx_buffer, up, down, serverVars,
                   emitted, connBounds>>

SocketRefused ==
    /\ sock = "connecting"
    /\ sock' = "unconnected" /\ pendingClose' = FALSE
    /\ Signal(<<"error">>)
    /\ UNCHANGED <<dialogVars, netq, conn, rx_buffer, link, up, down, serverVars,
                   emitted, connBounds>>

\* onSocketDisconnected, after disconnectFromHost or after the other end or
\* the network has closed the connection (then an error is signalled first).
SocketDisconnected ==
    /\ \/ sock = "closing" /\ Signal(<<"disconnected">>)
       \/ /\ sock = "connected" /\ link[conn] = "lost" /\ down[conn] = << >>
          /\ Signal(<<"error", "disconnected">>)
    /\ sock' = "unconnected" /\ rx_buffer' = << >>
    /\ link' = [link EXCEPT ![conn] = IF @ = "open" THEN "closed" ELSE @]
    /\ down' = [down EXCEPT ![conn] = << >>]
    /\ UNCHANGED <<dialogVars, netq, pendingClose, conn, up, serverVars,
                   emitted, connBounds>>

\* The loop of onReadyRead over the buffer b: the payloads it emits, the
\* bytes it consumes, and whether it met a header that is too large.
Frames_bug_short(b) ==
    LET from[o \in 0 .. Len(b)] ==
            IF Len(b) - o < HeaderSize THEN [payloads |-> << >>, end |-> o, bad |-> FALSE]
            ELSE LET n == decode_frame_header(SubSeq(b, o + 1, o + HeaderSize))
                     next == o + HeaderSize + n
                     clipped == IF next > Len(b) THEN Len(b) ELSE next
                 IN  IF n = Oversize THEN [payloads |-> << >>, end |-> o, bad |-> TRUE]
                     ELSE IF Len(b) = o + HeaderSize
                     THEN [payloads |-> << >>, end |-> o, bad |-> FALSE]
                     ELSE [from[clipped] EXCEPT
                            !.payloads = <<SubSeq(b, o + HeaderSize + 1, clipped)>> \o @]
    IN  from[0]

Frames(b) ==
    LET from[o \in 0 .. Len(b)] ==
            IF Len(b) - o < HeaderSize THEN [payloads |-> << >>, end |-> o, bad |-> FALSE]
            ELSE LET n == decode_frame_header(SubSeq(b, o + 1, o + HeaderSize))
                     next == o + HeaderSize + n
                 IN  IF n = Oversize THEN [payloads |-> << >>, end |-> o, bad |-> TRUE]
                     ELSE IF next > Len(b) THEN [payloads |-> << >>, end |-> o, bad |-> FALSE]
                     ELSE [from[next] EXCEPT
                            !.payloads = <<SubSeq(b, o + HeaderSize + 1, next)>> \o @]
    IN  from[0]

\* Any number of the bytes under way have arrived.
onReadyRead ==
    /\ sock = "connected"
    /\ \E n \in 1 .. Len(down[conn]) :
        LET b == rx_buffer \o SubSeq(down[conn], 1, n)
            f == Frames(b)
            messages == [i \in DOMAIN f.payloads |->
                            [signal |-> "message", payload |-> f.payloads[i]]]
        IN  /\ down' = [down EXCEPT ![conn] = SubSeq(@, n + 1, Len(@))]
            /\ rx_buffer' = SubSeq(b, f.end + 1, Len(b))
            /\ emitted' = [emitted EXCEPT ![conn] = @ \o f.payloads]
            /\ guiq' = guiq \o messages \o (IF f.bad THEN <<[signal |-> "error"]>> ELSE << >>)
            /\ sock' = IF f.bad THEN "closing" ELSE sock
    /\ UNCHANGED <<dialogVars, netq, pendingClose, conn, link, up, serverVars, connBounds>>

-----------------------------------------------------------------------------
(* TcpServer and ClientSession *)

do_accept(k) ==
    /\ link[k] # "none" /\ session[k].reading = "none"
    /\ sessions' = sessions \cup {k}
    /\ session' = [session EXCEPT ![k].reading = "header"]
    /\ UNCHANGED <<dialogVars, guiq, netq, netVars, link, up, down, pool, users,
                   toClient, emitted, connBounds>>

\* disconnected_.exchange(true), and on_disconnect for the first who sets it.
Disconnected(k) ==
    /\ session' = [session EXCEPT ![k].disconnected = TRUE, ![k].reading = "ended",
                                  ![k].write_queue = << >>]
    /\ sessions' = IF session[k].disconnected THEN sessions ELSE sessions \ {k}

\* async_read completes with all the bytes asked for.  A header that is too
\* large closes the connection.
do_read_header(k) ==
    LET n == decode_frame_header(SubSeq(up[k], 1, HeaderSize))
    IN  /\ session[k].reading = "header" /\ Len(up[k]) >= HeaderSize
        /\ IF n = Oversize
           THEN /\ Disconnected(k)
                /\ link' = [link EXCEPT ![k] = IF @ = "open" THEN "lost" ELSE @]
                /\ up' = [up EXCEPT ![k] = << >>]
           ELSE /\ session' = [session EXCEPT ![k].length = n, ![k].reading = "body"]
                /\ up' = [up EXCEPT ![k] = SubSeq(@, HeaderSize + 1, Len(@))]
                /\ UNCHANGED <<link, sessions>>
        /\ UNCHANGED <<dialogVars, guiq, netq, netVars, down, pool, users,
                       toClient, emitted, connBounds>>

\* on_message_ submits a task of its own for every message.
do_read_body(k) ==
    LET n == session[k].length
    IN  /\ session[k].reading = "body" /\ Len(up[k]) >= n
        /\ pool' = pool \cup {[conn |-> k, msg |-> Parsed(SubSeq(up[k], 1, n)),
                               step |-> "received", userId |-> 0]}
        /\ session' = [session EXCEPT ![k].reading = "header", ![k].length = 0]
        /\ up' = [up EXCEPT ![k] = SubSeq(@, n + 1, Len(@))]
        /\ UNCHANGED <<dialogVars, guiq, netq, netVars, link, down, sessions,
                       users, toClient, emitted, connBounds>>

Needed(k) == IF session[k].reading = "header" THEN HeaderSize ELSE session[k].length

\* async_read fails: the connection ended before the bytes it needs.
ReadFails(k) ==
    /\ session[k].reading \in {"header", "body"} /\ link[k] \in {"closed", "lost"}
    /\ Len(up[k]) < Needed(k)
    /\ Disconnected(k)
    /\ up' = [up EXCEPT ![k] = << >>]
    /\ UNCHANGED <<dialogVars, guiq, netq, netVars, link, down, pool, users,
                   toClient, emitted, connBounds>>

\* ClientSession::send starts a write unless one is under way.
Sending(k, m) ==
    /\ session' = [session EXCEPT
                    ![k].write_queue = IF session[k].disconnected THEN @
                                       ELSE Append(@, encode_frame(Payload(m))),
                    ![k].writing = @ \/ ~ session[k].disconnected]
    /\ toClient' = IF session[k].disconnected THEN toClient
                   ELSE [toClient EXCEPT ![k] = Append(@, Payload(m))]

\* async_write of the front of the queue completes, or fails.
do_write(k) ==
    /\ session[k].writing /\ session[k].write_queue # << >>
    /\ IF link[k] = "open"
       THEN /\ down' = [down EXCEPT ![k] = @ \o Head(session[k].write_queue)]
            /\ session' = [session EXCEPT ![k].write_queue = Tail(@),
                                          ![k].writing = Len(session[k].write_queue) > 1]
            /\ sessions' = sessions
       ELSE Disconnected(k) /\ down' = down
    /\ UNCHANGED <<dialogVars, guiq, netq, netVars, link, up, pool, users,
                   toClient, emitted, connBounds>>

-----------------------------------------------------------------------------
(* MessageHandler and AuthManager *)

register_user(m) ==
    IF m.password = "" \/ m.username \in Registered
    THEN [success |-> FALSE, userId |-> 0]
    ELSE [success |-> TRUE, userId |-> Cardinality(Registered) + 1]

login(m) ==
    IF m.username \in Registered /\ users[m.username].password = m.password
    THEN [success |-> TRUE, userId |-> users[m.username].id]
    ELSE [success |-> FALSE, userId |-> 0]

\* handle_auth_request: the account, set_auth and the answer take a lock each.
Verify(task) ==
    LET m == task.msg
        result == IF m.action = "register" THEN register_user(m) ELSE login(m)
    IN  /\ task.step = "received" /\ m.type = "auth_request"
        /\ users' = IF result.success /\ m.action = "register"
                    THEN [users EXCEPT ![m.username] = [id |-> result.userId,
                                                        password |-> m.password]]
                    ELSE users
        /\ IF result.success
           THEN /\ pool' = (pool \ {task}) \cup
                           {[task EXCEPT !.step = "verified", !.userId = result.userId]}
                /\ UNCHANGED <<session, toClient>>
           ELSE pool' = pool \ {task} /\ Sending(task.conn, AuthResponse(FALSE, 0))

set_auth_bug_late(task) ==
    /\ task.step = "verified"
    /\ pool' = (pool \ {task}) \cup {[task EXCEPT !.step = "authenticated"]}
    /\ Sending(task.conn, AuthResponse(TRUE, task.userId))
    /\ UNCHANGED users

set_auth(task) ==
    /\ task.step = "verified"
    /\ session' = [session EXCEPT ![task.conn].userId = task.userId,
                                  ![task.conn].username = task.msg.username,
                                  ![task.conn].authenticated = TRUE]
    /\ pool' = (pool \ {task}) \cup {[task EXCEPT !.step = "authenticated"]}
    /\ UNCHANGED <<users, toClient>>

Answer(task) ==
    /\ task.step = "authenticated"
    /\ pool' = pool \ {task}
    /\ Sending(task.conn, AuthResponse(TRUE, task.userId))
    /\ UNCHANGED users

\* check_auth, and the answer of any other request.
HandleRequest(task) ==
    /\ task.step = "received" /\ task.msg.type = "request"
    /\ pool' = pool \ {task}
    /\ Sending(task.conn, IF session[task.conn].authenticated THEN Push(0, 1)
                          ELSE ErrorMsg("not_authenticated"))
    /\ UNCHANGED users

PoolTask(task) ==
    /\ Verify(task) \/ set_auth(task) \/ Answer(task) \/ HandleRequest(task)
    /\ UNCHANGED <<dialogVars, guiq, netq, netVars, link, up, down, sessions,
                   emitted, connBounds>>

\* Another part of the server sends to a user who is signed in; the sender
\* does not look at the size.
PushMessage(k) ==
    /\ session[k].authenticated /\ pushes < MaxPushes
    /\ \E size \in PushSizes : Sending(k, Push(pushes + 1, size))
    /\ pushes' = pushes + 1
    /\ UNCHANGED <<dialogVars, guiq, netq, netVars, link, up, down, sessions, pool,
                   users, emitted, attempts, faults>>

\* The connection breaks: the ends of both streams may be lost.
LoseLink(k) ==
    /\ link[k] = "open" /\ faults < MaxFaults
    /\ link' = [link EXCEPT ![k] = "lost"]
    /\ \E i \in 0 .. Len(up[k]), j \in 0 .. Len(down[k]) :
        /\ up' = [up EXCEPT ![k] = SubSeq(@, 1, i)]
        /\ down' = [down EXCEPT ![k] = SubSeq(@, 1, j)]
    /\ faults' = faults + 1
    /\ UNCHANGED <<dialogVars, guiq, netq, netVars, serverVars, emitted,
                   attempts, pushes>>

-----------------------------------------------------------------------------
(* Specification *)

Gui == GuiEvent
Net == \/ NetCall \/ SocketConnected \/ SocketRefused \/ SocketDisconnected \/ onReadyRead
Io(k) == \/ do_accept(k) \/ do_read_header(k) \/ do_read_body(k) \/ ReadFails(k) \/ do_write(k)
Handle == \E task \in pool : PoolTask(task)

ConnNext == \/ startAuth \/ CloseBox \/ UserRequest \/ Gui \/ Net \/ Handle
            \/ \E k \in Conn : Io(k) \/ PushMessage(k) \/ LoseLink(k)

\* Both threads of the client, the I/O thread and the pool go on working, and
\* a connection attempt ends; the user need not do anything.
ConnFairness == /\ WF_connVars(Gui) /\ WF_connVars(Net) /\ WF_connVars(Handle)
                /\ \A k \in Conn : WF_connVars(Io(k))

ConnSpec == ConnInit /\ [][ConnNext]_connVars /\ ConnFairness

-----------------------------------------------------------------------------
(* Properties *)

\* Whatever way the bytes are split, the client's network thread emits the
\* payloads that were given to ClientSession::send, whole, once and in order.
StreamKeepsOrder ==
    \A k \in Conn : /\ Len(emitted[k]) <= Len(toClient[k])
                    /\ emitted[k] = SubSeq(toClient[k], 1, Len(emitted[k]))

\* Once the dialog is accepted, the session at the other end of the connection
\* is authenticated as the user the client believes it is: the list window's
\* first request is never refused with not_authenticated.
IdentityAgrees ==
    /\ accepted /\ sock = "connected" =>
        /\ session[conn].authenticated
        /\ identity = <<session[conn].userId, session[conn].username>>
    /\ \A k \in Conn : \A i \in DOMAIN toClient[k] :
        Parsed(toClient[k][i]).type # "error"

\* An attempt to sign in ends, by success or by a message box: no lost
\* connection, stale signal or refused call leaves the dialog waiting with
\* its fields disabled.
AttemptEnds == pending_action # "" ~> pending_action = ""
=============================================================================
