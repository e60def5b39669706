----------------------------- MODULE H2Priority -----------------------------
(***************************************************************************)
(* The priority tree of the h2o HTTP/2 server connection                   *)
(* (lib/http2/connection.c): set_priority, the HEADERS and PRIORITY        *)
(* handlers that call it, the ring of recently closed streams that keeps   *)
(* their scheduler nodes (h2o_http2_conn_preserve_stream_scheduler) and    *)
(* the teardown of that ring in close_connection_now.                      *)
(*                                                                         *)
(* A scheduler node is named by its stream id; Root is the connection's    *)
(* node.  A node is in the tree while its stream is registered (a request  *)
(* or a priority-only stream) or while the ring holds it.  The scheduler   *)
(* itself (lib/http2/scheduler.c) is not part of this repository: open,    *)
(* rebind and close are taken from spec 4.3.  Weighted round-robin, which  *)
(* orders DATA but moves no node, is left out.  Pushed streams (push_path) *)
(* take even ids above push_stream_ids.max_open and hang under the root    *)
(* with weight 257 when critical, under the pushing stream otherwise; the  *)
(* peer's GOAWAY (handle_goaway_frame) stops them.                          *)
(***************************************************************************)
EXTENDS Integers, SequencesExt

CONSTANTS
  StreamIds,             (* odd stream ids the client may use               *)
  RingSize,              (* HTTP2_CLOSED_STREAM_PRIORITIES                   *)
  Weights,               (* weights a priority record may carry              *)
  MaxStreamsForPriority, (* http2.max_streams_for_priority                  *)
  MaxPushes,             (* bound: pushed streams opened in a behaviour       *)
  PeerMaxConcurrentStreams (* peer_settings.max_concurrent_streams          *)

ASSUME StreamIds \subseteq Nat \ {0} /\ \A id \in StreamIds : id % 2 = 1
ASSUME RingSize \in Nat \ {0} /\ Weights \subseteq 1..256 /\ 16 \in Weights
ASSUME MaxStreamsForPriority \in Nat /\ MaxPushes \in Nat /\ PeerMaxConcurrentStreams \in Nat

(* the even ids push_path can hand out within the bound, and all node ids *)
PushIds == {2 * k : k \in 1..MaxPushes}
Nodes == StreamIds \cup PushIds
IsPush(id) == id % 2 = 0
(* the push max_open handle_goaway_frame sets, and push_path's limit *)
GoawayPushMaxOpen == \h7ffffffe
PushIdLimit == \h7ffffff0
NoGoaway == -1

Root == 0
Empty == -1

(* h2o_http2_default_priority *)
DefaultPriority == [dependency |-> Root, weight |-> 16, exclusive |-> FALSE]
NoFrame == [id |-> Root, dependency |-> Root]
Priorities == [dependency : {Root} \cup Nodes, weight : Weights, exclusive : BOOLEAN]

VARIABLES
  kind,          (* id -> IDLE, PRIORITY (priority-only), REQUEST, CLOSED    *)
  parent,        (* id -> the node its scheduler node hangs under            *)
  weight,        (* id -> the weight of its scheduler node                   *)
  ring,          (* _recently_closed_streams.streams: slot -> id or Empty    *)
  next_slot,     (* _recently_closed_streams.next_slot                       *)
  max_open,      (* pull_stream_ids.max_open                                 *)
  push_max_open, (* push_stream_ids.max_open                                 *)
  chromium,      (* is_chromium_dependency_tree                              *)
  conn_state,    (* OPEN, or CLOSED once close_connection_now ran            *)
  closes,        (* history: ids in the order their streams were unregistered *)
  spec_chromium, (* history: the Chromium flag as spec 4.3 words it          *)
  handled,       (* history: the stream and dependency set_priority last ran *)
                 (* for, in the step that ran it; NoFrame in other steps    *)
  peer_last,     (* history: last-stream-id of the peer's latest GOAWAY,    *)
                 (* NoGoaway before one; the code does not keep it          *)
  late_pushes    (* history: <<id, peer_last>> of every push opened after   *)
                 (* the peer's GOAWAY                                       *)

vars == <<kind, parent, weight, ring, next_slot, max_open, push_max_open, chromium,
          conn_state, closes, spec_chromium, handled, peer_last, late_pushes>>

W == [kind |-> kind, parent |-> parent, weight |-> weight, ring |-> ring,
      next_slot |-> next_slot, max_open |-> max_open, push_max_open |-> push_max_open,
      chromium |-> chromium, peer_last |-> peer_last, late_pushes |-> late_pushes,
      conn_state |-> conn_state, closes |-> closes, spec_chromium |-> spec_chromium,
      handled |-> NoFrame]

Step(w) ==
  \E v \in {w} :
    /\ kind' = v.kind /\ parent' = v.parent /\ weight' = v.weight /\ ring' = v.ring
    /\ next_slot' = v.next_slot /\ max_open' = v.max_open /\ chromium' = v.chromium
    /\ conn_state' = v.conn_state /\ closes' = v.closes /\ spec_chromium' = v.spec_chromium
    /\ handled' = v.handled /\ push_max_open' = v.push_max_open
    /\ peer_last' = v.peer_last /\ late_pushes' = v.late_pushes

Registered(w, n) == w.kind[n] \in {"PRIORITY", "REQUEST"}
RingIds(w) == Range(w.ring) \ {Empty}
InTree(w, n) == Registered(w, n) \/ n \in RingIds(w)
Children(w, p) == {c \in Nodes : InTree(w, c) /\ w.parent[c] = p}

(* num_streams.priority.open: the priority-only streams *)
PriorityOpen(w) == Cardinality({n \in StreamIds : w.kind[n] = "PRIORITY"})

-----------------------------------------------------------------------------
(* the nodes met walking up the parent links from n, at most fuel of them *)
RECURSIVE Ancestors(_, _, _)
Ancestors(w, n, fuel) ==
  IF n = Root \/ fuel = 0 THEN {}
  ELSE {w.parent[n]} \cup Ancestors(w, w.parent[n], fuel - 1)

(* open/rebind as spec 4.3 words them, without the descendant step *)
SchedulerLink_Literal(w, ref, p, wt, excl) ==
  LET moved == IF excl THEN Children(w, p) \ {ref} ELSE {}
  IN [w EXCEPT !.parent = [n \in Nodes |-> IF n = ref THEN p
                                               ELSE IF n \in moved THEN ref
                                               ELSE w.parent[n]],
               !.weight[ref] = wt]

(* Scheduler operations, from spec 4.3.  open(ref, parent, weight,         *)
(* exclusive) inserts ref under parent and, when exclusive, moves the     *)
(* parent's other children under ref; rebind moves ref, with its subtree, *)
(* and makes the siblings of its new position its children when exclusive: *)
(* both are the same update of the tree.  A new parent inside ref's own    *)
(* subtree first takes ref's place, keeping its weight (RFC 7540 5.3.3,    *)
(* which "move ref" needs to leave a tree; a new node has no subtree).     *)
SchedulerLink(w, ref, p, wt, excl) ==
  LET w0 == IF ref \in Ancestors(w, p, Cardinality(Nodes))
            THEN [w EXCEPT !.parent[p] = w.parent[ref]] ELSE w
      moved == IF excl THEN Children(w0, p) \ {ref} ELSE {}
  IN [w0 EXCEPT !.parent = [n \in Nodes |-> IF n = ref THEN p
                                                ELSE IF n \in moved THEN ref
                                                ELSE w0.parent[n]],
                !.weight[ref] = wt]

(* close(ref): its children move to ref's parent, their weights scaled in  *)
(* proportion to ref's weight (RFC 7540 5.3.4, at least 1)                 *)
SchedulerClose(w, ref) ==
  LET kids == Children(w, ref)
      total == SumFunctionOnSet(w.weight, kids)
      Scaled(c) == Max({1, (w.weight[c] * w.weight[ref]) \div total})
  IN [w EXCEPT !.parent = [c \in Nodes |-> IF c \in kids THEN w.parent[ref] ELSE w.parent[c]],
               !.weight = [c \in Nodes |-> IF c \in kids THEN Scaled(c) ELSE w.weight[c]]]

-----------------------------------------------------------------------------
(* preserve_stream_scheduler overwriting the slot without closing the node *)
(* it held                                                                  *)
PreserveStreamScheduler_NoClose(w, src) ==
  [w EXCEPT !.next_slot = (w.next_slot + 1) % RingSize, !.ring[w.next_slot] = src]

(* preserve_stream_scheduler wrapping next_slot one slot too late *)
PreserveStreamScheduler_LateWrap(w, src) ==
  LET slot == w.next_slot
      dst == w.ring[slot]
      w1 == [w EXCEPT !.next_slot = IF slot + 1 > RingSize THEN 0 ELSE slot + 1]
      w2 == IF dst # Empty THEN SchedulerClose(w1, dst) ELSE w1
  IN [w2 EXCEPT !.ring[slot] = src]

(* preserve_stream_scheduler never advancing next_slot *)
PreserveStreamScheduler_NoAdvance(w, src) ==
  LET dst == w.ring[w.next_slot]
      w1 == IF dst # Empty THEN SchedulerClose(w, dst) ELSE w
  IN [w1 EXCEPT !.ring[w.next_slot] = src]

(* h2o_http2_conn_preserve_stream_scheduler: the node of the closing      *)
(* stream takes the next slot of the ring, whose previous node, the oldest *)
(* one, is closed first; relocate keeps the node's place in the tree       *)
PreserveStreamScheduler(w, src) ==
  LET slot == w.next_slot
      dst == w.ring[slot]
      w1 == [w EXCEPT !.next_slot = (slot + 1) % RingSize]
      w2 == IF dst # Empty THEN SchedulerClose(w1, dst) ELSE w1
  IN [w2 EXCEPT !.ring[slot] = src]

(* h2o_http2_conn_unregister_stream: preserve the node, then drop the      *)
(* stream from the map                                                      *)
UnregisterStream(w, id) ==
  [PreserveStreamScheduler(w, id) EXCEPT !.kind[id] = "CLOSED", !.closes = Append(@, id)]

(* the ring search of set_priority skipping the last slot *)
InRing_SkipLast(w, d) == \E i \in 0..RingSize - 2 : w.ring[i] = d

(* set_priority's search of the recently closed ring *)
InRing(w, d) == \E i \in 0..RingSize - 1 : w.ring[i] = d

(* set_priority, choosing the parent: the ring first, then the stream map; *)
(* a dependency on a stream in neither gets the default priority at root   *)
ResolveParent(w, prio) ==
  LET d == prio.dependency IN
  CASE d = Root -> [node |-> Root, prio |-> prio]
    [] InRing(w, d) \/ Registered(w, d) -> [node |-> d, prio |-> prio]
    [] OTHER -> [node |-> Root, prio |-> DefaultPriority]

(* set_priority: resolve the parent, update the Chromium heuristic, then   *)
(* open or rebind the node.  With the parent found in the ring the flag is *)
(* cleared when the child outweighs it or is not exclusive; re-seating the *)
(* child by find_parent_by_weight needs that parent in the stream map as   *)
(* well, which never happens here (only unregistering fills the ring).    *)
(* The check that follows reads the weight of the parent's parent (256    *)
(* when either is the root).                                               *)
SetPriority(w, id, prio) ==
  LET r == ResolveParent(w, prio)
      p == r.node
      pr == r.prio
      inRing == prio.dependency # Root /\ InRing(w, prio.dependency)
      kept == w.chromium /\ ~(inRing /\ (w.weight[p] < pr.weight \/ ~pr.exclusive))
      grand == IF p = Root THEN Root ELSE w.parent[p]
      parentWeight == IF p = Root \/ grand = Root THEN 256 ELSE w.weight[grand]
  IN SchedulerLink([w EXCEPT !.chromium = pr.exclusive /\ kept /\ ~(parentWeight < pr.weight)],
                   id, p, pr.weight, pr.exclusive)

(* The heuristic flag as spec 4.3 states it: cleared by any child that is  *)
(* not exclusive or outweighs its parent (the root weighing 256).         *)
SpecChromium(w, prio) ==
  LET r == ResolveParent(w, prio)
      parentWeight == IF r.node = Root THEN 256 ELSE w.weight[r.node]
  IN w.spec_chromium /\ r.prio.exclusive /\ ~(parentWeight < r.prio.weight)

Prioritize(w, id, prio) ==
  [SetPriority(w, id, prio) EXCEPT !.spec_chromium = SpecChromium(w, prio),
                                   !.handled = [id |-> id, dependency |-> prio.dependency]]

(* close_connection_now freeing the ring only up to next_slot *)
RECURSIVE CloseRecentlyClosed_UpToNextSlot(_, _)
CloseRecentlyClosed_UpToNextSlot(w, i) ==
  IF i = RingSize \/ i = w.next_slot \/ w.ring[i] = Empty THEN w
  ELSE CloseRecentlyClosed_UpToNextSlot([SchedulerClose(w, w.ring[i]) EXCEPT !.ring[i] = Empty], i + 1)

(* close_connection_now's loop over the ring: it closes and frees each     *)
(* slot's node and stops at the first empty slot                           *)
RECURSIVE CloseRecentlyClosed(_, _)
CloseRecentlyClosed(w, i) ==
  IF i = RingSize \/ w.ring[i] = Empty THEN w
  ELSE CloseRecentlyClosed([SchedulerClose(w, w.ring[i]) EXCEPT !.ring[i] = Empty], i + 1)

(* close_connection_now: every stream in the map is closed, which          *)
(* unregisters it, in the map's order; then the ring is freed              *)
CloseConnectionNow(w) ==
  LET w1 == FoldLeft(UnregisterStream, w,
                     SetToSeq({n \in Nodes : Registered(w, n)}))
  IN CloseRecentlyClosed([w1 EXCEPT !.conn_state = "CLOSED"], 0)

(* the max_streams_for_priority check written with > *)
PriorityLimitReached_Strict(w) == PriorityOpen(w) > MaxStreamsForPriority

(* handle_priority_frame's limit on priority-only streams *)
PriorityLimitReached(w) == PriorityOpen(w) >= MaxStreamsForPriority

-----------------------------------------------------------------------------
Init ==
  /\ kind = [n \in Nodes |-> "IDLE"]
  /\ parent = [n \in Nodes |-> Root]
  /\ weight = [n \in Nodes |-> 16]
  /\ ring = [i \in 0..RingSize - 1 |-> Empty]
  /\ next_slot = 0
  /\ max_open = 0
  /\ push_max_open = 0
  /\ peer_last = NoGoaway
  /\ late_pushes = {}
  /\ chromium = TRUE
  /\ conn_state = "OPEN"
  /\ closes = <<>>
  /\ spec_chromium = TRUE
  /\ handled = NoFrame

Live == conn_state = "OPEN"

(* a frame handler's error return, which is a connection error: GOAWAY,    *)
(* then the connection is closed                                           *)
ConnectionError(w) == CloseConnectionNow(w)

(* handle_headers_frame for a stream id above max_open: a dependency on    *)
(* itself is a protocol error; a priority-only stream is reused and        *)
(* rebound only when the frame carries a priority; otherwise the stream is *)
(* opened and set_priority runs with the frame's priority, the default     *)
(* when it carries none.  The stream then becomes a request and max_open  *)
(* advances (h2o_http2_stream_prepare_for_request).                        *)
RecvHeaders(id, prio, hasPriority) ==
  /\ Live /\ id > max_open
  /\ Step(IF prio.dependency = id THEN ConnectionError(W)
          ELSE LET w1 == [W EXCEPT !.kind[id] = "REQUEST", !.max_open = id] IN
               IF Registered(W, id) /\ ~hasPriority THEN w1
               ELSE Prioritize(w1, id, prio))

(* handle_priority_frame: a dependency on itself is a protocol error; a    *)
(* registered stream is rebound unless its weight is 257 (a critical      *)
(* push); a pushed stream not in the map and a closed pull stream are     *)
(* ignored; beyond max_streams_for_priority priority-only streams it is   *)
(* ENHANCE_YOUR_CALM; otherwise a priority-only stream is opened           *)
RecvPriority(id, prio) ==
  /\ Live
  /\ Step(CASE prio.dependency = id -> ConnectionError(W)
            [] Registered(W, id) -> IF weight[id] # 257 THEN Prioritize(W, id, prio) ELSE W
            [] IsPush(id) \/ id <= max_open -> W
            [] PriorityLimitReached(W) -> ConnectionError(W)
            [] OTHER -> Prioritize([W EXCEPT !.kind[id] = "PRIORITY"], id, prio))

(* push_path's refusal once push ids run out (or after the peer's GOAWAY) *)
PushIdsExhausted(w) == w.push_max_open >= PushIdLimit

(* push_num_streams.push.open: pushed streams in the map *)
PushOpen(w) == Cardinality({n \in PushIds : Registered(w, n)})

(* push_path, for a push the configuration, headers, cache digests and     *)
(* push memo let through: refused for a pushed source stream, at the       *)
(* peer's concurrency limit, once closing and when push ids are exhausted; *)
(* otherwise stream max_open + 2 is opened with weight 257 under the root *)
(* when critical and weight 16 under the source stream otherwise, and     *)
(* prepare_for_request makes its id the push max_open.  Admission to run   *)
(* the request is H2Request's (the pending queue must be empty).           *)
PushPath(src, critical) ==
  /\ Live /\ kind[src] = "REQUEST" /\ ~IsPush(src)
  /\ PushOpen(W) < PeerMaxConcurrentStreams
  /\ ~PushIdsExhausted(W)
  /\ Cardinality({n \in PushIds : kind[n] # "IDLE"}) < MaxPushes
  /\ LET id == push_max_open + 2
         w1 == [W EXCEPT !.kind[id] = "REQUEST", !.push_max_open = id,
                         !.late_pushes = IF peer_last = NoGoaway THEN @ ELSE @ \cup {<<id, peer_last>>}]
     IN Step(IF critical THEN SchedulerLink(w1, id, Root, 257, FALSE)
             ELSE SchedulerLink(w1, id, src, 16, FALSE))

(* handle_goaway_frame leaving push max_open alone *)
RecvGoaway_NoStop(last) ==
  /\ Live
  /\ Step([W EXCEPT !.peer_last = last])

(* handle_goaway_frame: the peer's GOAWAY, naming the last pushed stream   *)
(* it processed, stops new pushes by raising push max_open; the last id    *)
(* itself is not kept                                                       *)
RecvGoaway(last) ==
  /\ Live
  /\ Step([W EXCEPT !.push_max_open = GoawayPushMaxOpen, !.peer_last = last])

(* a request stream closes (response done, or reset): it is unregistered *)
CloseStream(id) ==
  /\ Live /\ kind[id] = "REQUEST"
  /\ Step(UnregisterStream(W, id))

(* the connection is closed (read error, GOAWAY drained, idle timeout) *)
CloseConnection == Live /\ Step(CloseConnectionNow(W))

Done == ~Live /\ UNCHANGED vars

Next ==
  \/ \E id \in StreamIds, prio \in Priorities : RecvHeaders(id, prio, TRUE)
  \/ \E id \in StreamIds : RecvHeaders(id, DefaultPriority, FALSE)
  \/ \E id \in Nodes, prio \in Priorities : RecvPriority(id, prio)
  \/ \E id \in Nodes : CloseStream(id)
  \/ \E src \in StreamIds, critical \in BOOLEAN : PushPath(src, critical)
  \/ \E last \in {0} \cup {n \in PushIds : kind[n] # "IDLE"} : RecvGoaway(last)
  \/ CloseConnection
  \/ Done

Spec == Init /\ [][Next]_vars

-----------------------------------------------------------------------------
TypeOK ==
  /\ kind \in [Nodes -> {"IDLE", "PRIORITY", "REQUEST", "CLOSED"}]
  /\ parent \in [Nodes -> {Root} \cup Nodes]
  /\ weight \in [Nodes -> 1..257]
  /\ ring \in [0..RingSize - 1 -> Nodes \cup {Empty}]
  /\ push_max_open \in {0} \cup PushIds \cup {GoawayPushMaxOpen}
  /\ next_slot \in 0..RingSize - 1
  /\ chromium \in BOOLEAN /\ spec_chromium \in BOOLEAN

(* The ring holds exactly the nodes of the last RingSize streams to be     *)
(* unregistered, and next_slot names the oldest of them once it is full:  *)
(* preserve_stream_scheduler rotates next_slot and evicts the oldest (spec *)
(* 8), so a dependency on any of the streams closed most recently still   *)
(* finds its node.                                                          *)
RingHoldsRecentlyClosed ==
  Live =>
    LET n == Len(closes)
        recent == {closes[i] : i \in Max({1, n - RingSize + 1})..n}
    IN /\ RingIds(W) = recent
       /\ n >= RingSize => ring[next_slot] = closes[n - RingSize + 1]

(* The scheduler nodes form a tree rooted at the connection: every node in *)
(* it hangs under the root or a node still in the tree, and walking up     *)
(* reaches the root.  Evicting the oldest ring node closes it and moves    *)
(* its children up, and a PRIORITY frame making a stream depend on its own *)
(* descendant (a stream it pushed, say) first lifts that descendant, so no *)
(* stream is left under a freed node or in a cycle.                        *)
PriorityTree ==
  \A n \in Nodes : InTree(W, n) =>
    /\ parent[n] = Root \/ InTree(W, parent[n])
    /\ Root \in Ancestors(W, n, Cardinality(Nodes))

(* A HEADERS or PRIORITY frame whose dependency names a node in the tree,  *)
(* a live stream or a recently closed one in the ring, puts the stream     *)
(* under that node; any other dependency puts it under the root.           *)
DependencyHonoured ==
  [][handled' # NoFrame =>
       LET d == handled'.dependency IN
       parent'[handled'.id] = IF d # Root /\ InTree(W, d) THEN d ELSE Root]_vars

(* handle_priority_frame refuses a priority-only stream beyond             *)
(* max_streams_for_priority, so idle streams that only carry a priority   *)
(* never exceed it.                                                         *)
PriorityStreamsBounded == PriorityOpen(W) <= MaxStreamsForPriority

(* Once close_connection_now has run no scheduler node is left: its loop  *)
(* stops at the first empty slot, which frees every node only because the *)
(* ring fills its slots in order and never empties one.                    *)
TreeReleasedOnClose == ~Live => \A n \in Nodes : ~InTree(W, n)

(* is_chromium_dependency_tree stays set only while every child was        *)
(* exclusive and no heavier than its parent (spec 4.3).                    *)
ChromiumHeuristic == chromium => spec_chromium

(* No stream is pushed beyond the last-stream-id of a GOAWAY the peer has  *)
(* sent (spec 11 asks this of handle_goaway_frame, which ignores the id):  *)
(* the raised push max_open makes push_path's id limit refuse every later  *)
(* push, so no push opened after the GOAWAY exists at all.                 *)
PushWithinPeerGoaway == \A p \in late_pushes : p[1] <= p[2]

====
