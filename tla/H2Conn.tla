------------------------------- MODULE H2Conn -------------------------------
(***************************************************************************)
(* The connection controller of the h2o HTTP/2 server connection           *)
(* (lib/http2/connection.c): the write buffer and the in-flight write, the *)
(* zero-delay write timer, the idle/write timeout, read stop at the        *)
(* output soft limit, the staged graceful shutdown and the two-step close. *)
(*                                                                         *)
(* Frames are counted, not encoded: _write.buf and _write.buf_in_flight    *)
(* are numbers of frames.  A stream is only its place in the life of a     *)
(* request as the controller sees it: the application works on it         *)
(* (SEND_HEADERS), its final response waits in the scheduler               *)
(* (SEND_BODY_IS_FINAL), it was flushed and waits in streams_to_proceed    *)
(* (END_STREAM), or it is freed.  Request bodies, admission limits, flow   *)
(* control and priorities belong to H2Request and other modules.          *)
(*                                                                         *)
(* The socket is the evloop build's (H2O_USE_LIBUV unset): after a write   *)
(* completes with more to send, h2o_socket_notify_write waits for the      *)
(* socket to become writable, and the socket counts as writing meanwhile.  *)
(***************************************************************************)
EXTENDS Integers, FiniteSets

CONSTANTS
  StreamIds,               (* odd stream ids the client may open           *)
  SoftMaxSize,             (* H2O_HTTP2_DEFAULT_OUTBUF_SOFT_MAX_SIZE, frames *)
  GracefulShutdownTimeout  (* http2.graceful_shutdown_timeout; 0 disables   *)

ASSUME \A id \in StreamIds : id \in Nat /\ id % 2 = 1
ASSUME SoftMaxSize \in Nat \ {0}
ASSUME GracefulShutdownTimeout \in Nat

VARIABLES
  conn,     (* the h2o_http2_conn_t fields of the controller                 *)
  sock,     (* the socket: a write or a writability wait pending; reading    *)
  streams,  (* stream id -> its state                                        *)
  failed    (* "none", or the assertion of the C code that failed            *)

vars == <<conn, sock, streams, failed>>

Live == {"OPEN", "HALF_CLOSED"}       (* conn->state < IS_CLOSING *)

-----------------------------------------------------------------------------
(* The whole state as one record; every handler maps it to a new one.      *)
W == [c |-> conn, k |-> sock, s |-> streams, failed |-> failed]
Step(w) == \E v \in {w} :
  conn' = v.c /\ sock' = v.k /\ streams' = v.s /\ failed' = v.failed

CAssert(w, cond, name) ==
  IF cond \/ w.failed # "none" THEN w ELSE [w EXCEPT !.failed = name]

Registered(w) == {id \in StreamIds : w.s[id] \notin {"IDLE", "FREED"}}
(* num_streams.pull.open: streams not yet at END_STREAM *)
PullOpen(w) == Cardinality({id \in StreamIds : w.s[id] \in {"SEND_HEADERS", "SEND_BODY_IS_FINAL"}})
(* num_streams.blocked_by_server: execute_or_enqueue_request sets the flag *)
(* of every admitted stream and h2o_http2_conn_unregister_stream clears it; *)
(* the requests of this module have no body, so proceed_request never     *)
(* clears it earlier: every registered stream is blocked by the server     *)
BlockedByServer(w) == Cardinality(Registered(w))
(* the scheduler has an active stream: a final response waits to be emitted *)
Finals(w) == {id \in StreamIds : w.s[id] = "SEND_BODY_IS_FINAL"}

BytesInBuf(w) == w.c.buf + w.c.in_flight

(* h2o_http2_conn_get_buffer_window: room left below the soft limit *)
BufferWindow(w) == SoftMaxSize - w.c.buf

(* request_gathered_write *)
RequestGatheredWrite(w) ==
  LET w1 == CAssert(w, w.c.state \in Live, "request_gathered_write") IN
  IF w1.k.writing = "none" /\ ~w1.c.write_timer
  THEN [w1 EXCEPT !.c.write_timer = TRUE] ELSE w1

(* h2o_http2_conn_request_write without the read stop at the soft limit *)
RequestWrite_NoReadStop(w) ==
  IF w.c.state = "IS_CLOSING" THEN w ELSE RequestGatheredWrite(w)

(* h2o_http2_conn_request_write *)
RequestWrite(w) ==
  IF w.c.state = "IS_CLOSING" THEN w
  ELSE RequestGatheredWrite(
         IF w.k.reading /\ BytesInBuf(w) >= SoftMaxSize
         THEN [w EXCEPT !.k.reading = FALSE] ELSE w)

(* a frame is encoded into _write.buf *)
Encode(w) == [w EXCEPT !.c.buf = @ + 1]

(* enqueue_goaway *)
EnqueueGoaway(w) ==
  IF w.c.state \in Live
  THEN [RequestWrite(Encode(w)) EXCEPT !.c.state = "HALF_CLOSED"]
  ELSE w

(* update_idle_timeout treating the connection as always blocked by the   *)
(* server: the timer is unlinked and never linked again                    *)
UpdateIdleTimeout_UnlinkOnly(w) ==
  IF w.c.in_flight # 0 THEN CAssert(w, w.c.idle_timer, "update_idle_timeout")
  ELSE [w EXCEPT !.c.idle_timer = FALSE]

(* update_idle_timeout; the TLS early-data case is not modelled *)
UpdateIdleTimeout(w) ==
  IF w.c.in_flight # 0 THEN CAssert(w, w.c.idle_timer, "update_idle_timeout")
  ELSE [w EXCEPT !.c.idle_timer = (BlockedByServer(w) = 0)]

(* h2o_http2_stream_close of a stream: h2o_http2_conn_unregister_stream    *)
(* clears blocked_by_server and the link; while the connection is not      *)
(* closing it runs the pending requests (H2Request) and update_idle_timeout *)
CloseStream(w, id) ==
  LET w1 == [w EXCEPT !.s[id] = "FREED"] IN
  IF w1.c.state \in Live THEN UpdateIdleTimeout(w1) ELSE w1

RECURSIVE CloseStreams(_, _)
CloseStreams(w, ids) ==
  IF ids = {} THEN w
  ELSE LET id == CHOOSE i \in ids : TRUE IN CloseStreams(CloseStream(w, id), ids \ {id})

(* close_connection_now: the streams are closed, the timers unlinked, the  *)
(* buffers disposed and the socket closed                                  *)
CloseConnectionNow(w) ==
  LET w1 == CAssert([w EXCEPT !.c.state = "IS_CLOSING"], ~w.c.write_timer, "close_connection_now")
      w2 == CloseStreams(w1, Registered(w1))
  IN [w2 EXCEPT !.c.state = "CLOSED", !.c.idle_timer = FALSE, !.c.gs_linked = FALSE,
                !.c.buf = 0, !.c.in_flight = 0, !.k = [writing |-> "none", reading |-> FALSE]]

(* close_connection: wait for a pending write, or close now *)
CloseConnection(w) ==
  LET w1 == [w EXCEPT !.c.state = "IS_CLOSING"] IN
  IF w1.c.in_flight # 0 \/ w1.c.write_timer THEN w1 ELSE CloseConnectionNow(w1)

(* h2o_http2_scheduler_run with emit_writereq_of_openref: each active     *)
(* stream flattens its final response and joins streams_to_proceed; the   *)
(* run stops once the buffer window is used up                             *)
RECURSIVE SchedulerRun(_)
SchedulerRun(w) ==
  IF Finals(w) = {} \/ BufferWindow(w) <= 0 THEN w
  ELSE LET id == CHOOSE i \in Finals(w) : TRUE
       IN SchedulerRun([w EXCEPT !.s[id] = "END_STREAM", !.c.buf = @ + 1])

(* do_emit_writereq: the scheduler runs, a write of the buffer starts with *)
(* the write timeout, then the close check                                 *)
DoEmitWritereq(w) ==
  LET w1 == CAssert(w, w.c.in_flight = 0, "do_emit_writereq")
      w2 == IF w1.c.state \in Live /\ BufferWindow(w1) > 0 THEN SchedulerRun(w1) ELSE w1
      w3 == IF w2.c.buf # 0
            THEN [w2 EXCEPT !.c.in_flight = w2.c.buf, !.c.buf = 0, !.k.writing = "write",
                            !.c.idle_timer = TRUE]
            ELSE w2
  IN IF w3.c.state = "OPEN" \/ (w3.c.state = "HALF_CLOSED" /\ PullOpen(w3) # 0)
     THEN w3 ELSE CloseConnection(w3)

(* on_write_complete without resuming the reads it stopped *)
OnWriteComplete_NoReadStart(w, err) ==
  LET w0 == [CAssert(w, w.c.in_flight # 0, "on_write_complete") EXCEPT !.k.writing = "none"]
      w1 == [w0 EXCEPT !.c.in_flight = 0]
      w2 == IF w1.c.state \in Live
            THEN CloseStreams(w1, {id \in StreamIds : w1.s[id] = "END_STREAM"}) ELSE w1
      w3 == [UpdateIdleTimeout(w2) EXCEPT !.c.write_timer = FALSE]
  IN IF err THEN CloseConnectionNow(w0)
     ELSE IF w3.c.state = "OPEN" /\ (w3.c.buf # 0 \/ Finals(w3) # {})
     THEN [w3 EXCEPT !.k.writing = "notify"]
     ELSE DoEmitWritereq(w3)

(* on_write_complete; err is the socket's error                            *)
OnWriteComplete(w, err) ==
  LET w0 == [CAssert(w, w.c.in_flight # 0, "on_write_complete") EXCEPT !.k.writing = "none"]
      w1 == [w0 EXCEPT !.c.in_flight = 0]
      \* h2o_http2_stream_proceed closes each flushed stream
      w2 == IF w1.c.state \in Live
            THEN CloseStreams(w1, {id \in StreamIds : w1.s[id] = "END_STREAM"}) ELSE w1
      w3 == [UpdateIdleTimeout(w2) EXCEPT !.c.write_timer = FALSE]
      w4 == IF w3.c.state \in Live /\ ~w3.k.reading /\ BytesInBuf(w3) < SoftMaxSize
            THEN [w3 EXCEPT !.k.reading = TRUE] ELSE w3
  IN IF err THEN CloseConnectionNow(w0)
     ELSE IF w4.c.state = "OPEN" /\ (w4.c.buf # 0 \/ Finals(w4) # {})
     THEN [w4 EXCEPT !.k.writing = "notify"]
     ELSE DoEmitWritereq(w4)

(* on_notify_write *)
OnNotifyWrite(w, err) ==
  LET w1 == [w EXCEPT !.k.writing = "none"] IN
  IF err THEN CloseConnectionNow(w1) ELSE DoEmitWritereq(w1)

(* on_idle_timeout, also the write timeout while a write is in flight *)
OnIdleTimeout(w) ==
  LET w1 == [w EXCEPT !.c.idle_timer = FALSE] IN
  IF w1.c.in_flight # 0 THEN CloseConnectionNow(w1)
  ELSE CloseConnection(EnqueueGoaway(w1))

(* initiate_graceful_shutdown without moving the connection to the core's *)
(* SHUTDOWN state, so the server may ask again                             *)
InitiateGracefulShutdown_NoSetState(w) ==
  LET w1 == [CAssert(w, w.c.gs_cb = "none", "initiate_graceful_shutdown")
               EXCEPT !.c.gs_cb = "resend"]
      w2 == IF w1.c.state = "OPEN" THEN RequestWrite(Encode(w1)) ELSE w1
  IN [w2 EXCEPT !.c.gs_linked = TRUE]

(* initiate_graceful_shutdown: the advisory GOAWAY(INT32_MAX) and the 1s   *)
(* timer                                                                   *)
InitiateGracefulShutdown(w) ==
  LET w1 == [CAssert(w, w.c.gs_cb = "none", "initiate_graceful_shutdown")
               EXCEPT !.c.shutdown = TRUE, !.c.gs_cb = "resend"]
      w2 == IF w1.c.state = "OPEN" THEN RequestWrite(Encode(w1)) ELSE w1
  IN [w2 EXCEPT !.c.gs_linked = TRUE]

(* graceful_shutdown_resend_goaway that never arms the straggler timer *)
ResendGoaway_NoStraggler(w) ==
  IF w.c.state = "OPEN" THEN EnqueueGoaway(w) ELSE w

(* graceful_shutdown_resend_goaway: GOAWAY(max_open), then the straggler   *)
(* timer if graceful_shutdown_timeout is set                               *)
ResendGoaway(w) ==
  IF w.c.state = "OPEN"
  THEN LET w1 == EnqueueGoaway(w) IN
       IF GracefulShutdownTimeout > 0
       THEN [w1 EXCEPT !.c.gs_cb = "straggler", !.c.gs_linked = TRUE] ELSE w1
  ELSE w

-----------------------------------------------------------------------------
(* on_read, after a successful read: the frame is handled while the        *)
(* connection is OPEN or HALF_CLOSED (parse_input), then the idle timer is *)
(* updated and a scheduled write is emitted at once.  handled is the state *)
(* the frame handler leaves; a handler that closed the connection ends the *)
(* callback.                                                               *)
OnRead(w, handled) ==
  LET w1 == IF w.c.state \in Live THEN handled ELSE w
      w2 == UpdateIdleTimeout(w1)
  IN IF w1.c.state = "CLOSED" THEN w1
     ELSE IF w2.c.write_timer THEN DoEmitWritereq([w2 EXCEPT !.c.write_timer = FALSE])
     ELSE w2

(* handle_headers_frame for a new stream id, with END_STREAM: the stream   *)
(* opens (max_open moves only while OPEN) and execute_or_enqueue_request   *)
(* admits it, or resets it when it was opened after a GOAWAY               *)
HandleRequest(w, id) ==
  IF w.c.state = "HALF_CLOSED"
  THEN CloseStream(w, id)
  ELSE UpdateIdleTimeout([w EXCEPT !.s[id] = "SEND_HEADERS", !.c.max_open = id])

(* a PING or SETTINGS frame the connection answers *)
HandleAnsweredFrame(w) == RequestWrite(Encode(w))

(* handle_rst_stream_frame on an open stream id: h2o_http2_stream_reset    *)
(* moves a responding stream to END_STREAM and queues it for its proceed   *)
(* callback without requesting a write                                     *)
HandleRstStream(w, id) ==
  IF w.s[id] \in {"SEND_HEADERS", "SEND_BODY_IS_FINAL"}
  THEN [w EXCEPT !.s[id] = "END_STREAM"] ELSE w

(* parse_input on a handler error: GOAWAY unless the error closes at once, *)
(* then close_connection                                                   *)
HandleProtocolError(w, goaway) ==
  CloseConnection(IF goaway THEN EnqueueGoaway(w) ELSE w)

(* expect_preface: the client preface has SERVER_PREFACE (SETTINGS and    *)
(* WINDOW_UPDATE) encoded and a write requested, and frames are read from *)
(* then on; other bytes are PROTOCOL_CLOSE_IMMEDIATELY: no GOAWAY          *)
HandlePreface(w, match) ==
  IF match THEN [RequestWrite(Encode(w)) EXCEPT !.c.read_expect = "default"]
  ELSE HandleProtocolError(w, FALSE)

-----------------------------------------------------------------------------
Init ==
  /\ conn = [state |-> "OPEN", buf |-> 0, in_flight |-> 0, write_timer |-> FALSE,
             idle_timer |-> TRUE, gs_cb |-> "none", gs_linked |-> FALSE,
             shutdown |-> FALSE, max_open |-> 0, read_expect |-> "preface"]
  /\ sock = [writing |-> "none", reading |-> TRUE]
  /\ streams = [id \in StreamIds |-> "IDLE"]
  /\ failed = "none"

Reading == failed = "none" /\ sock.reading

(* _read_expect is expect_default: the preface was received *)
Framed == conn.read_expect = "default"

RecvPreface(match) ==
  /\ Reading /\ ~Framed
  /\ Step(OnRead(W, HandlePreface(W, match)))

(* the peer: a request, an answered frame, a reset, a protocol error, EOF *)
RecvRequest(id) ==
  /\ Reading /\ Framed /\ streams[id] = "IDLE" /\ id > conn.max_open
  /\ Step(OnRead(W, HandleRequest(W, id)))

RecvAnsweredFrame ==
  /\ Reading /\ Framed
  /\ Step(OnRead(W, HandleAnsweredFrame(W)))

RecvRstStream(id) ==
  /\ Reading /\ Framed /\ id <= conn.max_open
  /\ Step(OnRead(W, HandleRstStream(W, id)))

RecvProtocolError(goaway) ==
  /\ Reading /\ Framed
  /\ Step(OnRead(W, HandleProtocolError(W, goaway)))

(* on_read with a read error *)
ReadError ==
  /\ Reading
  /\ Step(CloseConnection([W EXCEPT !.k.reading = FALSE]))

(* the application answers a request: h2o_http2_conn_register_for_proceed_ *)
(* callback requests a write and activates the stream in the scheduler     *)
AppRespond(id) ==
  /\ failed = "none" /\ conn.state # "CLOSED" /\ streams[id] = "SEND_HEADERS"
  /\ Step([RequestWrite(W) EXCEPT !.s[id] = "SEND_BODY_IS_FINAL"])

(* the socket: a write completes, or becomes possible after notify_write *)
WriteDone(err) ==
  /\ failed = "none" /\ sock.writing = "write"
  /\ Step(OnWriteComplete(W, err))

NotifyWritable(err) ==
  /\ failed = "none" /\ sock.writing = "notify"
  /\ Step(OnNotifyWrite(W, err))

(* the timers: emit_writereq, on_idle_timeout as idle and as write timeout, *)
(* and the graceful-shutdown timer with either callback                    *)
WriteTimerFires ==
  /\ failed = "none" /\ conn.write_timer
  /\ Step(DoEmitWritereq([W EXCEPT !.c.write_timer = FALSE]))

IdleTimeout ==
  /\ failed = "none" /\ conn.idle_timer /\ conn.in_flight = 0
  /\ Step(OnIdleTimeout(W))

WriteTimeout ==
  /\ failed = "none" /\ conn.idle_timer /\ conn.in_flight # 0
  /\ Step(OnIdleTimeout(W))

GracefulTimerFires ==
  /\ failed = "none" /\ conn.gs_linked
  /\ LET w1 == [W EXCEPT !.c.gs_linked = FALSE] IN
     Step(IF conn.gs_cb = "resend" THEN ResendGoaway(w1) ELSE CloseConnection(w1))

(* the server's connection list: request_shutdown or close_idle_connection, *)
(* called for a connection not yet in the SHUTDOWN state                   *)
Shutdown ==
  /\ failed = "none" /\ conn.state # "CLOSED" /\ ~conn.shutdown
  /\ Step(InitiateGracefulShutdown(W))

(* h2o_destroy_connection has run: nothing happens on the connection      *)
(* anymore (or a C assert aborted the process)                             *)
Destroyed ==
  /\ conn.state = "CLOSED" \/ failed # "none"
  /\ UNCHANGED vars

Next ==
  \/ \E id \in StreamIds : RecvRequest(id) \/ RecvRstStream(id) \/ AppRespond(id)
  \/ RecvAnsweredFrame
  \/ \E goaway \in BOOLEAN : RecvProtocolError(goaway)
  \/ \E match \in BOOLEAN : RecvPreface(match)
  \/ ReadError
  \/ \E err \in BOOLEAN : WriteDone(err) \/ NotifyWritable(err)
  \/ WriteTimerFires \/ IdleTimeout \/ WriteTimeout \/ GracefulTimerFires
  \/ Shutdown
  \/ Destroyed

Spec == Init /\ [][Next]_vars

(* Fairness the event loop gives: the zero-delay write timer runs, the     *)
(* write timeout (its deadline is fixed while a write is in flight, since  *)
(* update_idle_timeout leaves it alone) and the graceful-shutdown timer    *)
(* (linked once per stage, unlinked only by close_connection_now) expire.  *)
(* The idle timer with no write in flight is re-armed by every read, the   *)
(* socket completes only when the peer reads, and the application may     *)
(* never answer: none of them is fair.                                     *)
Fairness == WF_vars(WriteTimerFires) /\ WF_vars(WriteTimeout) /\ WF_vars(GracefulTimerFires)

FairSpec == Spec /\ Fairness

-----------------------------------------------------------------------------
(* The write buffer and the write in flight stay within the soft limit,    *)
(* plus the frames the server adds on its own (three GOAWAYs and one       *)
(* answer per read): h2o_http2_conn_request_write stops reading once       *)
(* bytes_in_buf reaches H2O_HTTP2_DEFAULT_OUTBUF_SOFT_MAX_SIZE.            *)
BufCap == SoftMaxSize + 3

TypeOK ==
  /\ conn.state \in {"OPEN", "HALF_CLOSED", "IS_CLOSING", "CLOSED"}
  /\ conn.buf \in 0..BufCap /\ conn.in_flight \in 0..BufCap
  /\ {conn.write_timer, conn.idle_timer, conn.gs_linked, conn.shutdown} \subseteq BOOLEAN
  /\ conn.gs_cb \in {"none", "resend", "straggler"}
  /\ conn.max_open \in {0} \cup StreamIds
  /\ conn.read_expect \in {"preface", "default"}
  /\ sock.writing \in {"none", "write", "notify"} /\ sock.reading \in BOOLEAN
  /\ streams \in [StreamIds -> {"IDLE", "SEND_HEADERS", "SEND_BODY_IS_FINAL", "END_STREAM", "FREED"}]

(* No assert of the controller fires: a timer callback set twice           *)
(* (initiate_graceful_shutdown), a write emitted with one in flight        *)
(* (do_emit_writereq), a completion without a write (on_write_complete),   *)
(* the write timeout unlinked during a write (update_idle_timeout), a      *)
(* frame requested on a closing connection (request_gathered_write), the   *)
(* write timer still linked at close (close_connection_now).               *)
NoAssertionFails == failed = "none"

(* A connection that is not closed and has no request in the server's     *)
(* hands (num_streams.blocked_by_server = 0) always has an event that will *)
(* move it: the idle or write timeout, the write timer, or a pending socket *)
(* write or writability wait.  Otherwise a silent peer leaves it open      *)
(* forever.  While a request is blocked by the server, update_idle_timeout *)
(* deliberately arms no timer: the application is to answer it.           *)
NeverStranded ==
  failed = "none" /\ conn.state # "CLOSED" /\ BlockedByServer(W) = 0 =>
    conn.idle_timer \/ conn.write_timer \/ sock.writing # "none"

(* Reading stops at the soft output limit only while a write is pending    *)
(* that will restart it: on_write_complete resumes reading once the        *)
(* buffered bytes drop below the limit.                                    *)
ReadStopIsTemporary ==
  failed = "none" /\ conn.state \in Live /\ ~sock.reading =>
    sock.writing # "none" \/ conn.write_timer

(* A connection the server shuts down, or one that started closing, is     *)
(* eventually closed and its streams released, whatever the peer and the   *)
(* application do: the straggler timer closes it if streams hang, and the  *)
(* write timeout ends a write the peer does not read.                      *)
ConnectionEventuallyReleased ==
  (conn.shutdown \/ conn.state = "IS_CLOSING") ~> (conn.state = "CLOSED" \/ failed # "none")

====
