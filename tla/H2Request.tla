------------------------------ MODULE H2Request ------------------------------
(***************************************************************************)
(* Request admission and request-body streaming of the h2o HTTP/2 server   *)
(* connection (lib/http2/connection.c).                                    *)
(*                                                                         *)
(* One connection, the client-initiated streams in StreamIds.  The peer    *)
(* sends HEADERS, DATA, trailing HEADERS and RST_STREAM frames; the        *)
(* application answers requests and, for streamed request bodies, takes    *)
(* chunks through write_req and hands them back through proceed_req.  The  *)
(* writer only appears as the flush of a final response and as the         *)
(* completion of a socket write (on_write_complete).  The input windows    *)
(* (_input_window, each stream's input_window and bytes_unnotified) are    *)
(* kept; the peer respects them.  Output windows, priorities, timers and   *)
(* byte contents are left to other modules: a body is a count of bytes.    *)
(*                                                                         *)
(* Code that h2o keeps outside this file (h2o_http2_stream_open, _reset,   *)
(* _close, _proceed, _set_state and the per-state stream counters) is      *)
(* modelled from the design document.  A failed assert() of the C code     *)
(* sets `failed` and stops the connection.                                 *)
(***************************************************************************)
EXTENDS Integers, Sequences, FiniteSets, SequencesExt

CONSTANTS
  StreamIds,                (* odd stream ids the client may open          *)
  MaxConcurrentRequests,    (* max_concurrent_requests_per_connection       *)
  MaxStreamingRequests,     (* max_concurrent_streaming_requests_per_conn.. *)
  MaxRequestEntitySize,     (* max_request_entity_size, in model bytes      *)
  HostMaxConcurrentStreams, (* H2O_HTTP2_SETTINGS_HOST_MAX_CONCURRENT_STREAMS *)
  NULL,                     (* a NULL pointer / SIZE_MAX content-length     *)
  HeaderResults,            (* outcomes of h2o_hpack_parse_request tried    *)
  ContentLengths,           (* content-length values tried (NULL: absent)   *)
  DataLengths,              (* DATA frame payload sizes tried              *)
  WriteFailures,            (* results of write_req.cb tried (TRUE: fails)  *)
  Paddings,                 (* DATA frame padding sizes tried              *)
  StreamWindowSize,         (* H2O_HTTP2_SETTINGS_HOST_STREAM_INITIAL_WINDOW_SIZE *)
  ActiveStreamWindowSize,   (* http2.active_stream_window_size              *)
  ConnectionWindowSize,     (* H2O_HTTP2_SETTINGS_HOST_CONNECTION_WINDOW_SIZE *)
  MaxWindowSize,            (* 2^31-1, the largest window                   *)
  EndHeadersFlags,          (* END_HEADERS flag values tried on HEADERS and *)
                            (* CONTINUATION frames                          *)
  HeaderBlockFits,          (* whether a CONTINUATION keeps the header block *)
                            (* within H2O_MAX_REQLEN                        *)
  Upgrades                  (* TRUE: the connection may start as an h2c     *)
                            (* upgrade; FALSE: through h2o_http2_accept     *)

ASSUME \A id \in StreamIds : id \in Nat /\ id % 2 = 1
ASSUME MaxConcurrentRequests \in Nat \ {0}
ASSUME MaxStreamingRequests \in Nat \ {0}
ASSUME MaxRequestEntitySize \in Nat \ {0}
ASSUME HostMaxConcurrentStreams \in Nat \ {0}
ASSUME HeaderResults \subseteq {"ok", "bad_pseudo", "bad_char", "hpack_error"}
ASSUME ContentLengths \subseteq {NULL} \cup 1..MaxRequestEntitySize
ASSUME DataLengths \subseteq 0..MaxRequestEntitySize
ASSUME WriteFailures \subseteq BOOLEAN /\ WriteFailures # {}
ASSUME Paddings \subseteq Nat /\ 0 \in Paddings
ASSUME StreamWindowSize \in Nat \ {0} /\ ActiveStreamWindowSize >= StreamWindowSize
ASSUME ConnectionWindowSize \in Nat \ {0} /\ MaxWindowSize >= ActiveStreamWindowSize
ASSUME TRUE \in EndHeadersFlags /\ EndHeadersFlags \subseteq BOOLEAN
ASSUME HeaderBlockFits \subseteq BOOLEAN /\ HeaderBlockFits # {}
ASSUME Upgrades \subseteq BOOLEAN /\ Upgrades # {} /\ (TRUE \in Upgrades => 1 \in StreamIds)

VARIABLES
  streams,  (* stream id -> the h2o_http2_stream_t fields this module uses *)
  conn,     (* the h2o_http2_conn_t fields this module uses                *)
  failed    (* "none", or the assertion of the C code that failed          *)

vars == <<streams, conn, failed>>

(* enum h2o_http2_stream_state_t, in declaration order; "FREED" is a      *)
(* stream that has been closed and removed from conn->streams.            *)
StateRank == [IDLE |-> 0, RECV_HEADERS |-> 1, RECV_BODY |-> 2, REQ_PENDING |-> 3,
              SEND_HEADERS |-> 4, SEND_BODY |-> 5, SEND_BODY_IS_FINAL |-> 6,
              END_STREAM |-> 7, FREED |-> 8]
StreamStates == DOMAIN StateRank

(* enum en_h2o_req_body_state_t, in declaration order *)
BodyRank == [NONE |-> 0, OPEN_BEFORE_FIRST_FRAME |-> 1, OPEN |-> 2,
             CLOSE_QUEUED |-> 3, CLOSE_DELIVERED |-> 4]
BodyStates == DOMAIN BodyRank

StateBefore(st, other) == StateRank[st] < StateRank[other]

NewStream ==
  [state |-> "IDLE", req_body_state |-> "NONE", buf_size |-> 0, entity |-> NULL,
   req_body_bytes_received |-> 0, content_length |-> NULL, streamed |-> FALSE,
   is_tunnel_req |-> FALSE, proceed_req |-> FALSE, write_req |-> FALSE,
   process_called |-> FALSE, in_avail |-> StreamWindowSize, unnotified |-> 0,
   req_body_buf |-> FALSE]

(* a stream that is in conn->streams *)
Registered(w, id) == w.s[id].state \notin {"IDLE", "FREED"}

(* num_streams.pull.open and num_streams.pull.half_closed, as kept by      *)
(* h2o_http2_stream_set_state: open from RECV_HEADERS until END_STREAM,    *)
(* half-closed from SEND_HEADERS until END_STREAM.                         *)
PullOpen(w) ==
  Cardinality({id \in StreamIds : w.s[id].state \in
     {"RECV_HEADERS", "RECV_BODY", "REQ_PENDING", "SEND_HEADERS", "SEND_BODY", "SEND_BODY_IS_FINAL"}})
HalfClosed(w) ==
  Cardinality({id \in StreamIds : w.s[id].state \in {"SEND_HEADERS", "SEND_BODY", "SEND_BODY_IS_FINAL"}})

(* An assert() of the C code: the first failure is kept. *)
CAssert(w, cond, name) ==
  IF cond \/ w.failed # "none" THEN w ELSE [w EXCEPT !.failed = name]

(* stream->_link is in at most one list: _pending_reqs or streams_to_proceed *)
IsLinked(w, id) == Contains(w.c.pending_reqs, id) \/ Contains(w.c.streams_to_proceed, id)
Unlink(w, id) == [w EXCEPT !.c.pending_reqs = Remove(@, id),
                           !.c.streams_to_proceed = Remove(@, id)]
(* h2o_linklist_insert asserts that the link is not linked yet *)
LinkInsert(w, list, id) ==
  LET w1 == CAssert(w, ~IsLinked(w, id), "linklist_insert") IN
  IF list = "pending" THEN [w1 EXCEPT !.c.pending_reqs = Append(@, id)]
                      ELSE [w1 EXCEPT !.c.streams_to_proceed = Append(@, id)]

(* stream_send_error: emits RST_STREAM; the frame itself is not modelled *)
StreamSendError(w) == CAssert(w, w.c.state # "IS_CLOSING", "stream_send_error")

(* send_window_update on stream id's input window (0: the connection's):   *)
(* the frame's increment must fit in 31 bits, and h2o_http2_window_update, *)
(* whose failure is ignored, grows the window unless it would pass 2^31-1 *)
SendWindowUpdate(w, id, delta) ==
  LET w1 == CAssert(w, delta <= MaxWindowSize, "send_window_update")
      Grow(avail) == IF avail + delta > MaxWindowSize THEN avail ELSE avail + delta
  IN IF id = 0 THEN [w1 EXCEPT !.c.input_window = Grow(@)]
     ELSE [w1 EXCEPT !.s[id].in_avail = Grow(@)]

(* update_stream_input_window forgetting to clear bytes_unnotified *)
UpdateStreamInputWindow_NoReset(w, id, delta) ==
  LET u == w.s[id].unnotified + delta IN
  IF u >= w.s[id].in_avail
  THEN SendWindowUpdate([w EXCEPT !.s[id].unnotified = u], id, u)
  ELSE [w EXCEPT !.s[id].unnotified = u]

(* update_stream_input_window: delta bytes are released; once they reach   *)
(* what the peer may still send, one WINDOW_UPDATE returns them all        *)
UpdateStreamInputWindow(w, id, delta) ==
  LET u == w.s[id].unnotified + delta IN
  IF u >= w.s[id].in_avail
  THEN [SendWindowUpdate(w, id, u) EXCEPT !.s[id].unnotified = 0]
  ELSE [w EXCEPT !.s[id].unnotified = u]

(* The window extension a request body gets when its first DATA frame      *)
(* arrives or it is streamed: active_stream_window_size minus the default  *)
Runway == ActiveStreamWindowSize - StreamWindowSize

-----------------------------------------------------------------------------
(* Mutants of the definitions below, each a plausible slip in the code it  *)
(* stands for.                                                             *)

(* set_req_body_state decrementing the counters of a non-streamed body too *)
SetReqBodyState_DecUnstreamed(w, id, new) ==
  LET st == w.s[id]
      dec == IF new = "CLOSE_DELIVERED" THEN 1 ELSE 0
  IN [w EXCEPT !.s[id].req_body_state = new,
               !.c.req_streaming_in_progress = @ - dec,
               !.c.tunnel = @ - (IF st.is_tunnel_req THEN dec ELSE 0)]

(* set_req_body_state forgetting the tunnel counter *)
SetReqBodyState_KeepTunnel(w, id, new) ==
  LET st == w.s[id]
      dec == IF new = "CLOSE_DELIVERED" /\ st.streamed THEN 1 ELSE 0
  IN [w EXCEPT !.s[id].req_body_state = new,
               !.c.req_streaming_in_progress = @ - dec]

(* set_req_body_state *)
SetReqBodyState(w, id, new) ==
  LET st == w.s[id]
      w1 == CAssert(w, BodyRank[st.req_body_state] < BodyRank[new], "set_req_body_state")
      w2 == CAssert(w1, new # "CLOSE_DELIVERED" \/ ~st.proceed_req, "set_req_body_state")
      dec == IF new = "CLOSE_DELIVERED" /\ st.streamed THEN 1 ELSE 0
  IN [w2 EXCEPT !.s[id].req_body_state = new,
                !.c.req_streaming_in_progress = @ - dec,
                !.c.tunnel = @ - (IF st.is_tunnel_req THEN dec ELSE 0)]

(* can_run_requests *)
CanRunRequests(w) == HalfClosed(w) < MaxConcurrentRequests

(* process_request; h2o_process_request sets req->process_called *)
ProcessRequest(w, id) ==
  LET st == w.s[id]
      w1 == IF st.proceed_req
            THEN UpdateStreamInputWindow(
                   [CAssert(w, st.req_body_state \notin {"NONE", "CLOSE_DELIVERED"}, "process_request")
                      EXCEPT !.c.req_streaming_in_progress = @ + 1,
                             !.c.tunnel = @ + (IF st.is_tunnel_req THEN 1 ELSE 0),
                             !.s[id].streamed = TRUE], id, Runway)
            ELSE IF StateBefore(st.state, "SEND_HEADERS")
                 THEN [w EXCEPT !.s[id].state = "SEND_HEADERS"]
                 ELSE w
  IN [w1 EXCEPT !.s[id].process_called = TRUE]

(* run_pending_requests with the streaming limit off by one *)
RECURSIVE RunPass_OffByOne(_, _, _)
RunPass_OffByOne(w, rest, ran) ==
  IF rest = <<>> \/ ~CanRunRequests(w) THEN <<w, ran>>
  ELSE LET id == Head(rest) IN
       IF w.s[id].proceed_req
          /\ w.c.req_streaming_in_progress - w.c.tunnel > MaxStreamingRequests
       THEN RunPass_OffByOne(w, Tail(rest), ran)
       ELSE RunPass_OffByOne(ProcessRequest(Unlink(w, id), id), Tail(rest), TRUE)

(* One walk of run_pending_requests over _pending_reqs. *)
RECURSIVE RunPass(_, _, _)
RunPass(w, rest, ran) ==
  IF rest = <<>> \/ ~CanRunRequests(w) THEN <<w, ran>>
  ELSE LET id == Head(rest) IN
       IF w.s[id].proceed_req
          /\ w.c.req_streaming_in_progress - w.c.tunnel >= MaxStreamingRequests
       THEN RunPass(w, Tail(rest), ran)
       ELSE RunPass(ProcessRequest(Unlink(w, id), id), Tail(rest), TRUE)

(* run_pending_requests: walks again while a walk ran one *)
RECURSIVE RunPendingRequests(_)
RunPendingRequests(w) ==
  LET r == RunPass(w, w.c.pending_reqs, FALSE) IN
  IF r[2] /\ r[1].c.pending_reqs # <<>> THEN RunPendingRequests(r[1]) ELSE r[1]

(* h2o_http2_conn_unregister_stream leaving an open request body as it is *)
CloseStream_KeepBody(w, id) ==
  LET st == w.s[id]
      w2 == CAssert(w, /\ st.state = "REQ_PENDING" => IsLinked(w, id)
                       /\ st.state = "RECV_HEADERS" => ~IsLinked(w, id), "unregister_stream")
      w3 == [Unlink(w2, id) EXCEPT !.s[id].state = "FREED"]
  IN IF w3.c.state # "IS_CLOSING" THEN RunPendingRequests(w3) ELSE w3

(* h2o_http2_stream_close: h2o_http2_conn_unregister_stream, then free *)
CloseStream(w, id) ==
  LET st == w.s[id]
      w1 == IF st.req_body_state # "NONE"
               /\ BodyRank[st.req_body_state] < BodyRank["CLOSE_DELIVERED"]
            THEN SetReqBodyState([w EXCEPT !.s[id].proceed_req = FALSE], id, "CLOSE_DELIVERED")
            ELSE w
      w2 == CAssert(w1, /\ st.state = "REQ_PENDING" => IsLinked(w1, id)
                        /\ st.state = "RECV_HEADERS" => ~IsLinked(w1, id), "unregister_stream")
      \* the freed stream's windows are gone with it
      w3 == [Unlink(w2, id) EXCEPT !.s[id].state = "FREED", !.s[id].in_avail = 0,
                                   !.s[id].unnotified = 0, !.s[id].req_body_buf = FALSE]
  IN IF w3.c.state # "IS_CLOSING" THEN RunPendingRequests(w3) ELSE w3

(* h2o_http2_stream_reset *)
StreamReset(w, id) ==
  IF StateRank[w.s[id].state] <= StateRank["REQ_PENDING"]
  THEN CloseStream(w, id)
  ELSE LET w1 == [w EXCEPT !.s[id].state = "END_STREAM"] IN
       IF IsLinked(w1, id) THEN w1 ELSE LinkInsert(w1, "proceed", id)

(* reset_stream_if_disregarded, as a test *)
Disregarded(w, id) == id > w.c.max_open

(* execute_or_enqueue_request_core *)
ExecuteOrEnqueueCore(w, id) == RunPendingRequests(LinkInsert(w, "pending", id))

(* execute_or_enqueue_request moving to REQ_PENDING without queueing *)
ExecuteOrEnqueue_NoInsert(w, id) ==
  IF Disregarded(w, id) THEN StreamReset(w, id)
  ELSE RunPendingRequests([w EXCEPT !.s[id].state = "REQ_PENDING"])

(* execute_or_enqueue_request *)
ExecuteOrEnqueue(w, id) ==
  LET w1 == CAssert(w, w.s[id].state \in {"RECV_HEADERS", "REQ_PENDING"}, "execute_or_enqueue_request") IN
  IF Disregarded(w1, id) THEN StreamReset(w1, id)
  ELSE ExecuteOrEnqueueCore([w1 EXCEPT !.s[id].state = "REQ_PENDING"], id)

(* write_streaming_body; writeFails is the outcome of write_req.cb *)
WriteStreamingBody(w, id, writeFails) ==
  LET st == w.s[id]
      w1 == CAssert(w, st.entity = NULL, "write_streaming_body")
      w2 == CASE st.req_body_state \in {"OPEN_BEFORE_FIRST_FRAME", "OPEN"} ->
                   CAssert(w1, st.buf_size # 0, "write_streaming_body")
              [] st.req_body_state = "CLOSE_QUEUED" ->
                   SetReqBodyState([w1 EXCEPT !.s[id].proceed_req = FALSE], id, "CLOSE_DELIVERED")
              [] OTHER -> CAssert(w1, FALSE, "write_streaming_body")
      w3 == [w2 EXCEPT !.s[id].entity = st.buf_size]
  IN IF writeFails THEN StreamReset(StreamSendError(w3), id)
     ELSE IF w3.s[id].req_body_state = "CLOSE_DELIVERED" /\ w3.s[id].state = "END_STREAM"
          THEN CloseStream(w3, id)
          ELSE w3

(* req_body_bytes_received only meets max_request_entity_size and a       *)
(* content-length of at most that size, so it is kept exactly up to one    *)
(* byte past the limit and saturates there: a reset stream that keeps      *)
(* receiving DATA would otherwise count without bound (ReceivedCap).       *)
ReceivedCap == MaxRequestEntitySize + 1
Saturate(n) == IF n > ReceivedCap THEN ReceivedCap ELSE n

(* handle_request_body_chunk: len bytes of payload, is_end_stream = isEnd; *)
(* canStream is h2o_req_can_stream_request, writeFails as above.           *)
HandleRequestBodyChunk(w, id, len, isEnd, canStream, writeFails) ==
  LET isFirst == w.s[id].req_body_state = "OPEN_BEFORE_FIRST_FRAME"
      w1 == CASE isFirst -> SetReqBodyState(w, id, "OPEN")
              [] w.s[id].req_body_state = "OPEN" -> w
              [] OTHER -> CAssert(w, FALSE, "handle_request_body_chunk")
      w2 == [w1 EXCEPT !.s[id].req_body_bytes_received = Saturate(@ + len)]
      st == w2.s[id]
      cl == st.content_length
      received == st.req_body_bytes_received
      reqQueued == st.proceed_req
      \* the end of the body: state and req_body.state, then buffer the payload
      w3 == IF ~isEnd THEN w2
            ELSE LET wa == IF ~StateBefore(st.state, "REQ_PENDING") THEN w2
                           ELSE [w2 EXCEPT !.s[id].state =
                                   IF st.process_called THEN "SEND_HEADERS" ELSE "REQ_PENDING"]
                 IN IF st.write_req THEN SetReqBodyState(wa, id, "CLOSE_QUEUED")
                    ELSE SetReqBodyState([wa EXCEPT !.s[id].proceed_req = FALSE], id, "CLOSE_DELIVERED")
      w4 == [w3 EXCEPT !.s[id].buf_size = @ + len]
      w5 == [w4 EXCEPT !.s[id].entity = w4.s[id].buf_size]
  IN CASE received > MaxRequestEntitySize ->
            StreamReset(StreamSendError(w2), id)
       [] cl # NULL /\ (IF isEnd THEN received # cl ELSE received > cl) ->
            StreamReset(StreamSendError(w2), id)
       [] Disregarded(w2, id) ->
            StreamReset(w2, id)
       [] st.streamed ->
            IF st.write_req
            THEN IF w4.s[id].entity = NULL THEN WriteStreamingBody(w4, id, writeFails) ELSE w4
            ELSE w5
       [] isFirst /\ ~isEnd /\ canStream ->
            ExecuteOrEnqueueCore([w5 EXCEPT !.s[id].proceed_req = TRUE], id)
       [] isFirst /\ ~isEnd ->
            UpdateStreamInputWindow(w5, id, Runway)
       [] isEnd /\ ~reqQueued ->
            ExecuteOrEnqueue(w5, id)
       [] OTHER -> w5

(* send_invalid_request_error: a 400 response without processing *)
SendInvalidRequestError(w, id) == [w EXCEPT !.s[id].state = "SEND_HEADERS"]

(* parse_input on a handler error: enqueue_goaway, then close_connection.  *)
(* enqueue_goaway has requested a write, so close_connection always waits  *)
(* for it: the streams are released later by CloseAfterWrite.               *)
ConnectionError(w) == [w EXCEPT !.c.state = "IS_CLOSING"]

(* h2o_http2_stream_prepare_for_request raising max_open after a GOAWAY *)
OpenStream_AfterGoaway(w, id) ==
  [w EXCEPT !.s[id] = [NewStream EXCEPT !.state = "RECV_HEADERS"],
            !.c.max_open = IF @ < id THEN id ELSE @]

(* h2o_http2_stream_open and h2o_http2_stream_prepare_for_request: the new *)
(* stream is in RECV_HEADERS; max_open only moves while no GOAWAY was sent *)
OpenStream(w, id) ==
  [w EXCEPT !.s[id] = [NewStream EXCEPT !.state = "RECV_HEADERS"],
            !.c.max_open = IF w.c.state = "OPEN" /\ @ < id THEN id ELSE @]

(* handle_incoming_request, after the HPACK decode: hdr is the outcome of  *)
(* h2o_hpack_parse_request ("ok", "bad_pseudo": a required pseudo-header   *)
(* missing, "bad_char": an invalid header character).  The request has no  *)
(* body when the stream has no req_body.buf.                               *)
HandleIncomingRequest(w, id, isConnect, cl, hdr) ==
  LET isEnd == ~w.s[id].req_body_buf IN
  CASE hdr = "bad_pseudo" -> StreamReset(StreamSendError(w), id)
    [] PullOpen(w) > HostMaxConcurrentStreams -> StreamReset(StreamSendError(w), id)
    [] hdr = "bad_char" -> SendInvalidRequestError(w, id)
    [] isConnect /\ (cl # NULL \/ isEnd) -> SendInvalidRequestError(w, id)
    [] isConnect ->
         LET w1 == [w EXCEPT !.s[id].is_tunnel_req = TRUE, !.s[id].proceed_req = TRUE,
                             !.s[id].state = "RECV_BODY"]
         IN ProcessRequest(SetReqBodyState(w1, id, "OPEN"), id)
    [] isEnd -> ExecuteOrEnqueue(w, id)
    [] OTHER -> SetReqBodyState([w EXCEPT !.s[id].state = "RECV_BODY"], id, "OPEN_BEFORE_FIRST_FRAME")

StreamProceed(w, id) ==
  IF w.s[id].state = "END_STREAM" /\ w.s[id].req_body_state \in {"NONE", "CLOSE_DELIVERED"}
  THEN CloseStream(w, id)
  ELSE w

(* the loop of on_write_complete over _write.streams_to_proceed *)
RECURSIVE ProceedAll(_)
ProceedAll(w) ==
  IF w.c.streams_to_proceed = <<>> THEN w
  ELSE LET id == Head(w.c.streams_to_proceed) IN ProceedAll(StreamProceed(Unlink(w, id), id))

(* close_connection_now: every stream is closed, then the counters and the *)
(* lists are asserted to be empty *)
RECURSIVE CloseAll(_, _)
CloseAll(w, ids) ==
  IF ids = {} THEN w
  ELSE LET id == CHOOSE i \in ids : TRUE IN CloseAll(CloseStream(w, id), ids \ {id})

CloseConnectionNowW(w) ==
  LET w1 == CloseAll([w EXCEPT !.c.state = "IS_CLOSING"], {id \in StreamIds : Registered(w, id)})
      w2 == CAssert(w1, w1.c.req_streaming_in_progress = 0 /\ w1.c.tunnel = 0
                       /\ PullOpen(w1) = 0 /\ HalfClosed(w1) = 0, "close_connection_now")
      w3 == CAssert(w2, w2.c.pending_reqs = <<>> /\ w2.c.streams_to_proceed = <<>>, "close_connection_now")
  IN [w3 EXCEPT !.c.state = "CLOSED"]

-----------------------------------------------------------------------------
(* The state as one record, and a step that installs a new one.            *)
W == [s |-> streams, c |-> conn, failed |-> failed]
(* (v is w evaluated once, before its three fields are assigned)          *)
Step(w) == \E v \in {w} : streams' = v.s /\ conn' = v.c /\ failed' = v.failed

(* create_conn: no stream, the parser expecting the client preface *)
CreateConn ==
  [s |-> [id \in StreamIds |-> NewStream],
   c |-> [state |-> "OPEN", max_open |-> 0, pending_reqs |-> <<>>,
          streams_to_proceed |-> <<>>, req_streaming_in_progress |-> 0, tunnel |-> 0,
          input_window |-> ConnectionWindowSize, read_expect |-> "preface"],
   failed |-> "none"]

(* h2o_http2_handle_upgrade opens stream 1 for the HTTP/1 request, which   *)
(* was read in full; on_upgrade_complete runs it through                   *)
(* execute_or_enqueue_request before any HTTP/2 frame is read              *)
UpgradedConn ==
  LET w == OpenStream(CreateConn, 1) IN ExecuteOrEnqueue(w, 1)

Init ==
  \E up \in Upgrades :
    LET w == IF up THEN UpgradedConn ELSE CreateConn
    IN streams = w.s /\ conn = w.c /\ failed = w.failed

(* frames are parsed while conn->state < IS_CLOSING (parse_input) *)
Reading == failed = "none" /\ conn.state \in {"OPEN", "HALF_CLOSED"}

(* _read_expect is expect_default: a frame is dispatched by its type *)
ExpectDefault == Reading /\ conn.read_expect = "default"

(* PREPARE_FOR_CONTINUATION: the header block is kept in _headers_unparsed *)
(* and the next frame must be its CONTINUATION                              *)
PrepareForContinuation(w) == [w EXCEPT !.c.read_expect = "continuation"]

(* expect_preface: the client preface sends SERVER_PREFACE (the writer's  *)
(* part) and switches to expect_default; any other bytes are              *)
(* PROTOCOL_CLOSE_IMMEDIATELY, a close_connection without GOAWAY           *)
RecvPreface(match) ==
  /\ Reading
  /\ conn.read_expect = "preface"
  /\ Step(IF match THEN [W EXCEPT !.c.read_expect = "default"] ELSE ConnectionError(W))

(* handle_trailing_headers, after the HPACK decode: any error of           *)
(* h2o_hpack_parse_request is returned to parse_input as a connection error *)
HandleTrailingHeaders(w, id, hpackOk, writeFails) ==
  IF hpackOk THEN HandleRequestBodyChunk(w, id, 0, TRUE, FALSE, writeFails)
  ELSE ConnectionError(w)

(* handle_headers_frame for a stream id above max_open: a new request.     *)
(* The stream gets a req_body.buf unless END_STREAM is set; without        *)
(* END_HEADERS the request waits for its CONTINUATION frames.              *)
RecvHeaders(id, isEnd, endHeaders, isConnect, cl, hdr) ==
  /\ ExpectDefault
  /\ id > conn.max_open
  /\ ~Registered(W, id)
  /\ LET w1 == [OpenStream(W, id) EXCEPT !.s[id].req_body_buf = ~isEnd]
         w2 == [w1 EXCEPT !.s[id].content_length = cl]
     IN Step(CASE ~endHeaders -> PrepareForContinuation(w1)
               [] hdr = "hpack_error" -> ConnectionError(w1)
               [] OTHER -> HandleIncomingRequest(w2, id, isConnect, cl, hdr))

(* handle_headers_frame for a stream id at or below max_open: trailers *)
RecvTrailers(id, hasEndStream, endHeaders, hpackOk, writeFails) ==
  /\ ExpectDefault
  /\ id <= conn.max_open
  /\ Step(CASE ~Registered(W, id)
               \/ streams[id].req_body_state \notin {"OPEN_BEFORE_FIRST_FRAME", "OPEN"}
               \/ streams[id].is_tunnel_req
               \/ ~hasEndStream -> ConnectionError(W)
            [] ~endHeaders -> PrepareForContinuation(W)
            [] OTHER -> HandleTrailingHeaders(W, id, hpackOk, writeFails))

(* A CONTINUATION frame.  expect_default refuses it (handle_invalid_       *)
(* continuation_frame).  expect_continuation_of_headers takes it for any   *)
(* stream id whose stream is in RECV_HEADERS or RECV_BODY; a block grown   *)
(* past H2O_MAX_REQLEN refuses that stream and leaves _read_expect as it   *)
(* is; END_HEADERS hands the block to handle_incoming_request or to        *)
(* handle_trailing_headers, by the state of that stream.  hdr is the       *)
(* outcome of h2o_hpack_parse_request on the block.                        *)
RecvContinuation(id, endHeaders, fits, isConnect, cl, hdr, writeFails) ==
  /\ Reading
  /\ conn.read_expect # "preface"
  /\ LET w == [W EXCEPT !.c.read_expect = "default"]
         w2 == [w EXCEPT !.s[id].content_length = cl]
     IN Step(CASE conn.read_expect = "default" -> ConnectionError(W)
               [] streams[id].state \notin {"RECV_HEADERS", "RECV_BODY"} -> ConnectionError(W)
               [] ~fits -> StreamReset(StreamSendError(W), id)
               [] ~endHeaders -> W
               [] streams[id].state = "RECV_BODY" ->
                    HandleTrailingHeaders(w, id, hdr = "ok", writeFails)
               [] hdr = "hpack_error" -> ConnectionError(w)
               [] OTHER -> HandleIncomingRequest(w2, id, isConnect, cl, hdr))

(* expect_continuation_of_headers on any other frame type, and             *)
(* expect_default on PUSH_PROMISE (handle_push_promise_frame)               *)
RecvFrameOutOfPlace ==
  /\ Reading
  /\ conn.read_expect # "preface"
  /\ Step(ConnectionError(W))

(* The connection-level part of handle_data_frame: the frame uses the      *)
(* window, which is restored to its full size once half of it is used      *)
ConsumeConnectionWindow(w, flen) ==
  LET w1 == [w EXCEPT !.c.input_window = @ - flen] IN
  IF w1.c.input_window <= ConnectionWindowSize \div 2
  THEN SendWindowUpdate(w1, 0, ConnectionWindowSize - w1.c.input_window)
  ELSE w1

(* The stream-level part: the frame uses the stream's window, and its      *)
(* padding, which carries no body, is released at once                     *)
ConsumeStreamWindow(w, id, flen, pad) ==
  LET w1 == [w EXCEPT !.s[id].in_avail = @ - flen] IN
  IF pad # 0 THEN UpdateStreamInputWindow(w1, id, pad) ELSE w1

(* The peer respects the windows (RFC 7540 6.9.1): a DATA frame, payload   *)
(* and padding, fits in the connection window and in the stream's window   *)
(* while the stream is known.  A frame is handled as it is sent; the peer  *)
(* that learns of a WINDOW_UPDATE later sends less, never more.            *)
PeerMaySend(id, flen) ==
  /\ flen <= conn.input_window
  /\ Registered(W, id) => flen <= streams[id].in_avail

(* handle_data_frame: len bytes of payload and pad bytes of padding *)
RecvData(id, len, pad, isEnd, canStream, writeFails) ==
  /\ ExpectDefault
  /\ PeerMaySend(id, len + pad)
  /\ LET w == ConsumeConnectionWindow(W, len + pad) IN
     Step(CASE ~Registered(w, id) /\ id <= w.c.max_open -> StreamSendError(w)
            [] ~Registered(w, id) -> ConnectionError(w)
            [] w.s[id].req_body_state \notin {"OPEN_BEFORE_FIRST_FRAME", "OPEN"} ->
                 StreamReset(StreamSendError(w), id)
            [] OTHER ->
                 LET w1 == ConsumeStreamWindow(w, id, len + pad, pad) IN
                 IF len = 0 /\ ~isEnd THEN w1
                 ELSE HandleRequestBodyChunk(w1, id, len, isEnd, canStream, writeFails))

(* handle_rst_stream_frame *)
RecvRstStream(id) ==
  /\ ExpectDefault
  /\ Step(CASE id > conn.max_open -> ConnectionError(W)
            [] Registered(W, id) -> StreamReset(W, id)
            [] OTHER -> W)

(* enqueue_goaway(NO_ERROR) from the graceful-shutdown or idle timer *)
SendGoaway ==
  /\ failed = "none"
  /\ conn.state = "OPEN"
  /\ conn' = [conn EXCEPT !.state = "HALF_CLOSED"]
  /\ UNCHANGED <<streams, failed>>

(* on_read with an error, or a write error: close_connection *)
ReadError ==
  /\ Reading
  /\ conn' = [conn EXCEPT !.state = "IS_CLOSING"]
  /\ UNCHANGED <<streams, failed>>

(* The application installs req->write_req.cb on a streamed request *)
AppSetWriteReq(id) ==
  /\ failed = "none"
  /\ streams[id].streamed /\ streams[id].proceed_req /\ ~streams[id].write_req
  /\ streams' = [streams EXCEPT ![id].write_req = TRUE]
  /\ UNCHANGED <<conn, failed>>

(* proceed_request leaving the stream's window as it is *)
ProceedRequest_NoWindowUpdate(w, id, err, writeFails) ==
  LET st == w.s[id]
      written == IF st.entity = NULL THEN 0 ELSE st.entity
      w1 == [w EXCEPT !.s[id].buf_size = @ - written, !.s[id].entity = NULL]
  IN IF err
     THEN LET w2 == SetReqBodyState([w1 EXCEPT !.s[id].proceed_req = FALSE], id, "CLOSE_DELIVERED")
              w3 == IF IsLinked(w2, id) THEN w2 ELSE LinkInsert(w2, "proceed", id)
          IN IF w2.c.state = "IS_CLOSING" THEN w2 ELSE StreamReset(StreamSendError(w3), id)
     ELSE IF w1.s[id].buf_size # 0 THEN WriteStreamingBody(w1, id, writeFails) ELSE w1

(* proceed_request: the application is done with req->entity (err = FALSE) *)
(* or gives up on the request body (err = TRUE)                            *)
ProceedRequest(w, id, err, writeFails) ==
  LET st == w.s[id]
      written == IF st.entity = NULL THEN 0 ELSE st.entity
      w1 == [CAssert(w, st.streamed, "proceed_request")
               EXCEPT !.s[id].buf_size = @ - written, !.s[id].entity = NULL]
  IN IF err
     THEN LET w2 == SetReqBodyState([w1 EXCEPT !.s[id].proceed_req = FALSE], id, "CLOSE_DELIVERED")
              w3 == IF IsLinked(w2, id) THEN w2 ELSE LinkInsert(w2, "proceed", id)
          IN IF w2.c.state = "IS_CLOSING" THEN w2 ELSE StreamReset(StreamSendError(w3), id)
     ELSE CASE st.req_body_state = "OPEN" ->
                 LET w2 == UpdateStreamInputWindow(CAssert(w1, written # 0, "proceed_request"),
                                                   id, written)
                 IN IF w2.s[id].buf_size # 0 THEN WriteStreamingBody(w2, id, writeFails) ELSE w2
            [] st.req_body_state = "CLOSE_QUEUED" ->
                 WriteStreamingBody(CAssert(w1, written # 0, "proceed_request"), id, writeFails)
            [] OTHER -> CAssert(w1, FALSE, "proceed_request")

AppProceedReq(id, err, writeFails) ==
  /\ failed = "none"
  /\ streams[id].streamed /\ streams[id].proceed_req
  /\ err \/ (streams[id].write_req /\ streams[id].entity # NULL)
  /\ Step(ProceedRequest(W, id, err, writeFails))

(* The application starts the response: HEADERS are queued (stream.c) *)
AppSendHeaders(id) ==
  /\ failed = "none"
  /\ \/ streams[id].state = "SEND_HEADERS"
     \/ streams[id].state = "RECV_BODY" /\ streams[id].process_called
  /\ streams' = [streams EXCEPT ![id].state = "SEND_BODY"]
  /\ UNCHANGED <<conn, failed>>

(* The application sends the last part of the response *)
AppSendFinal(id) ==
  /\ failed = "none"
  /\ streams[id].state = "SEND_BODY"
  /\ streams' = [streams EXCEPT ![id].state = "SEND_BODY_IS_FINAL"]
  /\ UNCHANGED <<conn, failed>>

(* do_emit_writereq / emit_writereq_of_openref flush a final response:     *)
(* the stream reaches END_STREAM and waits in streams_to_proceed           *)
EmitFinal(id) ==
  /\ failed = "none"
  /\ conn.state \in {"OPEN", "HALF_CLOSED"}
  /\ streams[id].state = "SEND_BODY_IS_FINAL"
  /\ Step(LinkInsert([W EXCEPT !.s[id].state = "END_STREAM"], "proceed", id))

(* on_write_complete while the connection is open: the streams in          *)
(* streams_to_proceed proceed, then the close check of the do_emit_writereq *)
(* it ends with                                                            *)
OnWriteComplete(w) ==
  LET w1 == ProceedAll(w) IN
  IF w1.c.state = "HALF_CLOSED" /\ PullOpen(w1) = 0
  THEN [w1 EXCEPT !.c.state = "IS_CLOSING"] ELSE w1

(* A write is in flight whenever a stream waits in streams_to_proceed (its *)
(* last frame was written) or a GOAWAY was enqueued; the write buffer      *)
(* itself is not modelled.                                                 *)
WriteInFlight ==
  /\ failed = "none"
  /\ conn.state \in {"OPEN", "HALF_CLOSED"}
  /\ conn.streams_to_proceed # <<>> \/ conn.state = "HALF_CLOSED"

WriteComplete == WriteInFlight /\ Step(OnWriteComplete(W))

(* the pending write of a closing connection completes: on_write_complete *)
(* ends in do_emit_writereq, whose close_connection finds nothing more to  *)
(* write and calls close_connection_now                                    *)
CloseAfterWrite ==
  /\ failed = "none"
  /\ conn.state = "IS_CLOSING"
  /\ Step(CloseConnectionNowW(W))

(* close_connection_now from an open connection: a write fails             *)
(* (on_write_complete with err), or the idle timer fires while a write is  *)
(* in flight (on_idle_timeout)                                             *)
AbortConnection ==
  /\ failed = "none"
  /\ conn.state \in {"OPEN", "HALF_CLOSED"}
  /\ Step(CloseConnectionNowW(W))

Next ==
  \/ \E id \in StreamIds, isEnd, isConnect \in BOOLEAN, endHeaders \in EndHeadersFlags,
        cl \in ContentLengths, hdr \in HeaderResults :
        RecvHeaders(id, isEnd, endHeaders, isConnect, cl, hdr)
  \/ \E id \in StreamIds, hasEnd, hpackOk \in BOOLEAN, endHeaders \in EndHeadersFlags,
        writeFails \in WriteFailures :
        RecvTrailers(id, hasEnd, endHeaders, hpackOk, writeFails)
  \/ \E id \in StreamIds, endHeaders \in EndHeadersFlags, fits \in HeaderBlockFits,
        isConnect \in BOOLEAN, cl \in ContentLengths, hdr \in HeaderResults,
        writeFails \in WriteFailures :
        RecvContinuation(id, endHeaders, fits, isConnect, cl, hdr, writeFails)
  \/ RecvFrameOutOfPlace
  \/ \E match \in BOOLEAN : RecvPreface(match)
  \/ \E id \in StreamIds, len \in DataLengths, pad \in Paddings, isEnd, canStream \in BOOLEAN,
        writeFails \in WriteFailures :
        RecvData(id, len, pad, isEnd, canStream, writeFails)
  \/ \E id \in StreamIds : RecvRstStream(id)
  \/ SendGoaway
  \/ ReadError
  \/ \E id \in StreamIds : AppSetWriteReq(id)
  \/ \E id \in StreamIds, err \in BOOLEAN, writeFails \in WriteFailures :
        AppProceedReq(id, err, writeFails)
  \/ \E id \in StreamIds : AppSendHeaders(id) \/ AppSendFinal(id) \/ EmitFinal(id)
  \/ WriteComplete
  \/ CloseAfterWrite
  \/ AbortConnection

Spec == Init /\ [][Next]_vars

(* The fairness the code's event loop and the application contract give,  *)
(* for each stream: a processed request is eventually answered and its     *)
(* response finished; a handler that accepted a streamed body              *)
(* (h2o_req_can_stream_request) installs write_req, and a chunk handed to  *)
(* write_req is eventually acknowledged through proceed_req.  For the      *)
(* connection: a write in flight completes or its write timeout fires      *)
(* (on_idle_timeout with buf_in_flight: close_connection_now), since the   *)
(* event loop fires a linked timer whose deadline nothing moves.  The      *)
(* flush of a final response (EmitFinal) gets no fairness: it waits for    *)
(* the stream's output window (emit_writereq_of_openref), which only the   *)
(* peer opens.  The peer, the idle timer and socket errors get none either. *)
(* Fairness is per stream because the peer can keep one stream busy (DATA *)
(* on a reset stream relinks it for on_write_complete).                    *)
AppAcknowledges(id) ==
  /\ streams[id].write_req /\ streams[id].entity # NULL
  /\ \E err \in BOOLEAN, writeFails \in WriteFailures : AppProceedReq(id, err, writeFails)
AppStep(id) ==
  AppSetWriteReq(id) \/ AppSendHeaders(id) \/ AppSendFinal(id) \/ AppAcknowledges(id)
(* the write timeout ending a write in flight *)
WriteTimesOut == WriteInFlight /\ AbortConnection
WriterStep == WriteComplete \/ CloseAfterWrite \/ WriteTimesOut

(* The guards of those steps.  Each one implies that its step is enabled   *)
(* (every step under it changes a variable), so the weak fairness below,   *)
(* stated with the guard in place of ENABLED, assumes no more than WF_vars *)
(* and spares TLC computing ENABLED through the handlers.                  *)
AppReady(id) ==
  /\ failed = "none"
  /\ \/ /\ streams[id].streamed /\ streams[id].proceed_req
        /\ ~streams[id].write_req \/ streams[id].entity # NULL
     \/ streams[id].state \in {"SEND_HEADERS", "SEND_BODY"}
     \/ streams[id].state = "RECV_BODY" /\ streams[id].process_called
WriterReady ==
  \/ WriteInFlight
  \/ failed = "none" /\ conn.state = "IS_CLOSING"

Fairness ==
  /\ \A id \in StreamIds : []<>~AppReady(id) \/ []<><<AppStep(id)>>_vars
  /\ []<>~WriterReady \/ []<><<WriterStep>>_vars

FairSpec == Spec /\ Fairness

(* A peer that keeps every output window open: each final response is      *)
(* eventually flushed.  An assumption about the peer, not the code, used   *)
(* only to show that a liveness failure does not come from the peer.       *)
CooperativePeerSpec == FairSpec /\ \A id \in StreamIds : WF_vars(EmitFinal(id))

-----------------------------------------------------------------------------
(* Every field has its type; the size_t counters never go below zero. *)
TypeOK ==
  /\ streams \in [StreamIds -> [state : StreamStates, req_body_state : BodyStates,
        buf_size : Nat, entity : Nat \cup {NULL}, req_body_bytes_received : Nat,
        content_length : ContentLengths, streamed : BOOLEAN, is_tunnel_req : BOOLEAN,
        proceed_req : BOOLEAN, write_req : BOOLEAN, process_called : BOOLEAN,
        in_avail : Int, unnotified : Nat, req_body_buf : BOOLEAN]]
  /\ conn.state \in {"OPEN", "HALF_CLOSED", "IS_CLOSING", "CLOSED"}
  /\ conn.max_open \in {0} \cup StreamIds
  /\ conn.pending_reqs \in Seq(StreamIds)
  /\ conn.streams_to_proceed \in Seq(StreamIds)
  /\ conn.req_streaming_in_progress \in Nat /\ conn.tunnel \in Nat
  /\ conn.input_window \in Int
  /\ conn.read_expect \in {"preface", "default", "continuation"}
  /\ failed \in STRING

(* No assert() of connection.c, nor of the stream functions it calls, ever *)
(* fails: neither the counter checks of close_connection_now, nor the      *)
(* req_body state checks of set_req_body_state, write_streaming_body and   *)
(* proceed_request, nor the list checks of the _link field, nor the        *)
(* "connection not closing" check of stream_send_error.                    *)
NoAssertionFails == failed = "none"

(* Once enqueue_goaway has announced max_open as the last stream id, no    *)
(* request on a later stream reaches the application (reset_stream_if_     *)
(* disregarded): every stream process_request was called for is at or      *)
(* below max_open.                                                         *)
AdmittedWithinLastStreamId ==
  \A id \in StreamIds : streams[id].process_called => id <= conn.max_open

(* A header block is finished for the stream that began it: once the      *)
(* parser is back in expect_default, no stream is left in RECV_HEADERS     *)
(* while the connection reads, so every request whose HEADERS arrived is   *)
(* handled, refused or reset (design document: CONTINUATION must follow   *)
(* HEADERS for the same stream; RECV_HEADERS leaves on END_HEADERS).       *)
HeaderBlockCompleted ==
  ExpectDefault => \A id \in StreamIds : streams[id].state # "RECV_HEADERS"

(* The same, except stream_send_error's check (see NoAssertionFails).      *)
OtherAssertionsHold == failed \in {"none", "stream_send_error"}

(* _req_streaming_in_progress and tunnel, which process_request increments *)
(* and set_req_body_state decrements on every path that ends a body (end   *)
(* of stream, write_req error, proceed_req error, stream reset, connection *)
(* close), count exactly the streamed bodies not yet delivered.            *)
Undelivered(tunnelOnly) ==
  {id \in StreamIds : streams[id].streamed /\ streams[id].req_body_state # "CLOSE_DELIVERED"
                      /\ (tunnelOnly => streams[id].is_tunnel_req)}
StreamingCountersExact ==
  /\ conn.req_streaming_in_progress = Cardinality(Undelivered(FALSE))
  /\ conn.tunnel = Cardinality(Undelivered(TRUE))

(* run_pending_requests never lets more non-tunnel streamed bodies be in   *)
(* progress than max_concurrent_streaming_requests_per_connection.         *)
StreamingLimitRespected ==
  conn.req_streaming_in_progress - conn.tunnel <= MaxStreamingRequests

(* No request is lost: while the connection lives, a stream that waits for *)
(* the application (REQ_PENDING, or a body the application may stream)     *)
(* and was not handed to it is in _pending_reqs, and only such streams are *)
(* there.                                                                  *)
AwaitsProcessing(id) ==
  /\ ~streams[id].process_called
  /\ \/ streams[id].state = "REQ_PENDING"
     \/ streams[id].state = "RECV_BODY" /\ streams[id].proceed_req
NoRequestLost ==
  conn.state \in {"OPEN", "HALF_CLOSED"} =>
    \A id \in StreamIds : Contains(conn.pending_reqs, id) <=> AwaitsProcessing(id)

(* While the peer respects the windows, the buffer a request body fills   *)
(* never holds more than active_stream_window_size bytes: every byte the   *)
(* application consumes returns to the peer through bytes_unnotified and  *)
(* one WINDOW_UPDATE (update_stream_input_window), never twice, and the    *)
(* padding is returned at once (handle_data_frame).                         *)
BodyBufferBounded ==
  \A id \in StreamIds : Registered(W, id) => streams[id].buf_size <= ActiveStreamWindowSize

(* A streamed request body whose bytes the application has all consumed    *)
(* leaves the peer room to send more: process_request opens the runway and *)
(* proceed_request returns what was consumed, so the upload never waits on *)
(* a window the server forgot to reopen.                                    *)
(* a stream neither closed nor reset, whose peer may still send DATA *)
Receiving(id) == Registered(W, id) /\ streams[id].state # "END_STREAM"
StreamingBodyNeverStarved ==
  \A id \in StreamIds :
    /\ Receiving(id) /\ streams[id].streamed
    /\ streams[id].req_body_state = "OPEN" /\ streams[id].buf_size = 0
    => streams[id].in_avail > 0

(* A request body buffered for a non-streaming handler (design document     *)
(* 4.7: "headers through final DATA are accumulated") can always grow up   *)
(* to max_request_entity_size: while it is open, below that size and below *)
(* any content-length, the peer has window to send the rest.               *)
Buffering(id) ==
  /\ Receiving(id) /\ ~streams[id].streamed /\ ~streams[id].proceed_req
  /\ streams[id].req_body_state = "OPEN"
BufferedBodyNotStarved ==
  \A id \in StreamIds :
    /\ Buffering(id)
    /\ streams[id].req_body_bytes_received < MaxRequestEntitySize
    /\ streams[id].content_length = NULL
    => streams[id].in_avail > 0

(* Every stream whose response was flushed, or which was reset, whose     *)
(* request body is done (never present, or delivered) and which waits in   *)
(* streams_to_proceed is eventually torn down: the write completes (or     *)
(* times out and closes the connection), on_write_complete calls          *)
(* h2o_http2_stream_proceed and the stream is closed, unless an assert     *)
(* stopped the process.  Nothing of the peer or the application is needed. *)
(* A stream in END_STREAM that has left streams_to_proceed with its body   *)
(* still open is not covered: when the rest of that body arrives before    *)
(* write_req.cb is installed, handle_request_body_chunk delivers the close *)
(* without closing the stream, and nothing closes it later.                *)
Flushed(id) ==
  /\ streams[id].state = "END_STREAM"
  /\ streams[id].req_body_state \in {"NONE", "CLOSE_DELIVERED"}
  /\ Contains(conn.streams_to_proceed, id)
Finished(id) ==
  streams[id].state = "FREED" \/ conn.state = "CLOSED" \/ failed # "none"
WaitsForSlot(id) == Contains(conn.pending_reqs, id) /\ ~streams[id].proceed_req
PendingRequestEventuallyRuns ==
  \A id \in StreamIds :
     WaitsForSlot(id) ~> (~WaitsForSlot(id) \/ conn.state \notin {"OPEN", "HALF_CLOSED"} \/ failed # "none")


-----------------------------------------------------------------------------
(* The refinement mapping to StreamLifecycle: a stream not yet opened is   *)
(* idle and a freed one closed; END_STREAM is closing; a stream the        *)
(* application has (process_request ran) or the server answers (a response *)
(* state) is responding; any other open stream is open.                     *)
LifecyclePhase(st) ==
  CASE st.state = "IDLE" -> "idle"
    [] st.state = "FREED" -> "closed"
    [] st.state = "END_STREAM" -> "closing"
    [] st.process_called \/ ~StateBefore(st.state, "SEND_HEADERS") -> "responding"
    [] OTHER -> "open"

Lifecycle == INSTANCE StreamLifecycle
               WITH phase <- [id \in StreamIds |-> LifecyclePhase(streams[id])],
                    max_open <- conn.max_open,
                    accepting <- conn.state = "OPEN"

(* Every step of the connection keeps the stream lifecycle of spec 3 and   *)
(* 11: streams only move forward (a reset may close any of them), open in  *)
(* increasing id order with max_open following them only while no GOAWAY  *)
(* was sent, and an id comes back only above max_open once the connection  *)
(* no longer accepts streams.  A step may move many streams at once        *)
(* (run_pending_requests after a close, close_connection_now).            *)
LifecycleRefined == Lifecycle!Spec

=============================================================================
