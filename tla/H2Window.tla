------------------------------ MODULE H2Window ------------------------------
(***************************************************************************)
(* Output flow control of the h2o HTTP/2 server connection                 *)
(* (lib/http2/connection.c): the connection window _write.window, each     *)
(* stream's output_window, the peer's SETTINGS_INITIAL_WINDOW_SIZE, the    *)
(* WINDOW_UPDATE and SETTINGS handlers that move them, and the scheduler   *)
(* that sends DATA within them.                                            *)
(*                                                                         *)
(* Windows are h2o_http2_window_t: a signed credit whose update fails when *)
(* the result would exceed 2^31-1 (spec 4.1).  MaxWindow stands for        *)
(* 2^31-1 and DefaultWindow for the 65,535 of the HTTP/2 defaults; both    *)
(* are scaled down together.  A response is a number of body bytes the    *)
(* application has handed to the stream.                                   *)
(***************************************************************************)
EXTENDS Integers

CONSTANTS
  StreamIds,          (* odd stream ids the client may open                 *)
  MaxWindow,          (* 2^31-1, the largest window                         *)
  DefaultWindow,      (* the default SETTINGS_INITIAL_WINDOW_SIZE            *)
  InitialWindowSizes, (* values a SETTINGS frame may carry                   *)
  Increments,         (* WINDOW_UPDATE increments the peer may send          *)
  ResponseSizes,      (* body bytes of a response                            *)
  MaxFrameSize,       (* the peer's SETTINGS_MAX_FRAME_SIZE                  *)
  MaxCredit           (* bound on the increments the peer sends on a stream *)

ASSUME \A id \in StreamIds : id \in Nat /\ id % 2 = 1
ASSUME MaxWindow \in Nat \ {0} /\ DefaultWindow \in 0..MaxWindow
ASSUME InitialWindowSizes \subseteq 0..MaxWindow
ASSUME Increments \subseteq 1..MaxWindow
ASSUME ResponseSizes \subseteq Nat \ {0} /\ MaxFrameSize \in Nat \ {0}
ASSUME MaxCredit \in Nat

VARIABLES
  conn,    (* [state, window, initial, max_open]                           *)
  streams  (* id -> [state, window, pending, active, credit, sent]         *)
(* A stream's credit and sent are history variables: the increments the   *)
(* peer gave its window and the DATA bytes sent against it.                *)

vars == <<conn, streams>>

MinOf(a, b) == IF a < b THEN a ELSE b

(* h2o_http2_window_update: fails, leaving the window as it is, when the  *)
(* result would exceed 2^31-1                                              *)
WindowUpdateFails(avail, delta) == avail + delta > MaxWindow

-----------------------------------------------------------------------------
(* update_stream_output_window testing cur < 0 instead of cur <= 0 *)
UpdateStreamOutputWindow_StrictNegative(st, delta) ==
  IF WindowUpdateFails(st.window, delta) THEN st
  ELSE [st EXCEPT !.window = @ + delta,
                  !.active = @ \/ (st.window < 0 /\ st.window + delta > 0 /\ st.pending > 0)]

(* update_stream_output_window: a stream whose window becomes positive     *)
(* again, with data to send, is activated in the scheduler; it returns    *)
(* -1, leaving the stream as it is, when WindowUpdateFails                  *)
UpdateStreamOutputWindow(st, delta) ==
  IF WindowUpdateFails(st.window, delta) THEN st
  ELSE [st EXCEPT !.window = @ + delta,
                  !.active = @ \/ (st.window <= 0 /\ st.window + delta > 0 /\ st.pending > 0)]

Open(id) == streams[id].state = "OPEN"

Init ==
  /\ conn = [state |-> "OPEN", window |-> DefaultWindow, initial |-> DefaultWindow,
             max_open |-> 0]
  /\ streams = [id \in StreamIds |->
                  [state |-> "IDLE", window |-> 0, pending |-> 0, active |-> FALSE,
                   credit |-> 0, sent |-> 0]]

Live == conn.state = "OPEN"

(* A request opens a stream whose window is the peer's initial window     *)
(* size, and the application hands it a response: the stream is activated *)
(* if its window is positive (h2o_http2_conn_register_for_proceed_callback) *)
Respond(id, size) ==
  /\ Live /\ streams[id].state = "IDLE" /\ id > conn.max_open
  /\ conn' = [conn EXCEPT !.max_open = id]
  /\ streams' = [streams EXCEPT ![id] =
                   [state |-> "OPEN", window |-> conn.initial, pending |-> size,
                    active |-> conn.initial > 0, credit |-> 0, sent |-> 0]]

(* handle_settings_frame with a new SETTINGS_INITIAL_WINDOW_SIZE: the      *)
(* difference is applied to every stream, and a failed update is ignored  *)
RecvSettings(new) ==
  /\ Live /\ new # conn.initial
  /\ LET delta == new - conn.initial IN
     /\ conn' = [conn EXCEPT !.initial = new]
     /\ streams' = [id \in StreamIds |->
                      IF Open(id) THEN UpdateStreamOutputWindow(streams[id], delta)
                      ELSE streams[id]]

(* handle_window_update_frame on stream 0 ignoring the result of         *)
(* h2o_http2_window_update, as the SETTINGS path does                      *)
RecvConnWindowUpdate_NoOverflowCheck(inc) ==
  /\ Live
  /\ conn' = [conn EXCEPT !.window = @ + inc]
  /\ UNCHANGED streams

(* handle_window_update_frame on stream 0: an overflow is a connection     *)
(* error (FLOW_CONTROL_ERROR, GOAWAY and close)                            *)
RecvConnWindowUpdate(inc) ==
  /\ Live
  /\ conn' = IF WindowUpdateFails(conn.window, inc) THEN [conn EXCEPT !.state = "CLOSED"]
             ELSE [conn EXCEPT !.window = @ + inc]
  /\ UNCHANGED streams

(* handle_window_update_frame on a stream: an idle stream id is a          *)
(* connection error, a closed stream is ignored, an overflow resets the    *)
(* stream (RST_STREAM FLOW_CONTROL_ERROR)                                  *)
RecvStreamWindowUpdate(id, inc) ==
  /\ Live /\ streams[id].credit + inc <= MaxCredit
  /\ CASE id > conn.max_open ->
            conn' = [conn EXCEPT !.state = "CLOSED"] /\ UNCHANGED streams
       [] ~Open(id) -> UNCHANGED vars
       [] WindowUpdateFails(streams[id].window, inc) ->
            streams' = [streams EXCEPT ![id].state = "RESET"] /\ UNCHANGED conn
       [] OTHER ->
            streams' = [streams EXCEPT ![id] = [UpdateStreamOutputWindow(@, inc) EXCEPT !.credit = @ + inc]]
            /\ UNCHANGED conn

(* do_emit_writereq runs the scheduler while the buffer window, which is   *)
(* bounded by the connection window, is positive; emit_writereq_of_openref *)
(* sends the stream's pending data within both windows and the frame size, *)
(* keeps it active while it has data and window left, and queues it for    *)
(* its proceed callback once the response is flushed (END_STREAM)          *)
EmitData(id) ==
  /\ Live /\ conn.window > 0 /\ Open(id) /\ streams[id].active
  /\ LET st == streams[id]
         n == IF st.window <= 0 THEN 0
              ELSE MinOf(MinOf(conn.window, st.window), MinOf(st.pending, MaxFrameSize))
         left == st.pending - n
     IN /\ conn' = [conn EXCEPT !.window = @ - n]
        /\ streams' = [streams EXCEPT ![id] =
                         [st EXCEPT !.window = @ - n, !.pending = left, !.sent = @ + n,
                                    !.active = left > 0 /\ st.window - n > 0,
                                    !.state = IF left = 0 THEN "END_STREAM" ELSE "OPEN"]]

(* the connection was closed by a connection error: nothing happens on it *)
Closed == conn.state = "CLOSED" /\ UNCHANGED vars

Next ==
  \/ \E id \in StreamIds, size \in ResponseSizes : Respond(id, size)
  \/ \E new \in InitialWindowSizes : RecvSettings(new)
  \/ \E inc \in Increments : RecvConnWindowUpdate(inc)
  \/ \E id \in StreamIds, inc \in Increments : RecvStreamWindowUpdate(id, inc)
  \/ \E id \in StreamIds : EmitData(id)
  \/ Closed

Spec == Init /\ [][Next]_vars

-----------------------------------------------------------------------------
(* The connection window never exceeds 2^31-1 and, as the spec requires,   *)
(* never goes negative: handle_window_update_frame turns an overflowing    *)
(* increment into a connection error, and the scheduler sends within it.   *)
(* A stream window stays within the signed 32-bit range.                   *)
TypeOK ==
  /\ conn.state \in {"OPEN", "CLOSED"}
  /\ conn.window \in 0..MaxWindow
  /\ conn.initial \in {DefaultWindow} \cup InitialWindowSizes
  /\ \A id \in StreamIds :
       /\ streams[id].state \in {"IDLE", "OPEN", "END_STREAM", "RESET"}
       /\ streams[id].window \in -(MaxWindow + 1)..MaxWindow
       /\ streams[id].active \in BOOLEAN

(* A stream with data to send and a positive window is active in the      *)
(* scheduler: update_stream_output_window re-activates a stream whose     *)
(* window turns positive again, after a SETTINGS change or a WINDOW_UPDATE *)
(* made it blocked, so no response stalls while the peer allows it.        *)
NoStall ==
  \A id \in StreamIds :
    Live /\ Open(id) /\ streams[id].pending > 0 /\ streams[id].window > 0 => streams[id].active

(* While the connection lives, every open stream's window is the peer's    *)
(* current initial window size plus the increments the peer sent on it     *)
(* minus the DATA sent: a SETTINGS change moves every stream window by     *)
(* exactly the difference, and one that would overflow a window fails the *)
(* connection with FLOW_CONTROL_ERROR (spec 4.6 and 7).                    *)
StreamWindowExact ==
  \A id \in StreamIds :
    Live /\ Open(id) => streams[id].window = conn.initial + streams[id].credit - streams[id].sent

====
