--------------------------- MODULE StreamLifecycle ---------------------------
(***************************************************************************)
(* What the server connection promises about the life of each client      *)
(* stream, as spec 3 and 11 state it, without the frames, bodies, lists    *)
(* and counters that achieve it.                                           *)
(*                                                                         *)
(* A stream is idle until a HEADERS frame opens it, open while its request *)
(* is received and waits, responding once the application has it or the   *)
(* server answers it, closing once the last frame is written, and closed   *)
(* once it is freed; a reset may close it from any phase.  Streams open in *)
(* increasing id order: max_open, the largest id opened, only grows, and   *)
(* only while the connection accepts new streams.  Once it stops (a        *)
(* GOAWAY was sent or the connection is closing) a HEADERS frame above     *)
(* max_open still opens a stream, which is refused; its id may come again. *)
(***************************************************************************)
EXTENDS Integers

CONSTANT StreamIds

VARIABLES
  phase,      (* stream id -> idle, open, responding, closing or closed     *)
  max_open,   (* the largest stream id opened while accepting             *)
  accepting   (* the connection still takes new streams                   *)

vars == <<phase, max_open, accepting>>

Phases == {"idle", "open", "responding", "closing", "closed"}

(* the phases a stream may reach in one step from each phase *)
Later == [idle |-> {"open", "responding", "closed"},
          open |-> {"responding", "closed"},
          responding |-> {"closing", "closed"},
          closing |-> {"closed"},
          closed |-> {"open", "responding"}]

(* stream id leaves the idle phase, or comes back after a refusal *)
Opens(id) == phase[id] \in {"idle", "closed"} /\ phase'[id] # phase[id]

(* an id may be opened only above max_open, and opened again only once the *)
(* connection no longer accepts streams                                    *)
MayOpen(id) == id > max_open /\ (phase[id] = "closed" => ~accepting)

(* max_open follows the streams opened while accepting *)
MaxOpenFollows ==
  IF accepting /\ \E id \in StreamIds : Opens(id)
  THEN max_open' = CHOOSE m \in {id \in StreamIds : Opens(id)} :
                     \A id \in StreamIds : Opens(id) => id <= m
  ELSE max_open' = max_open

AllIdle == [id \in StreamIds |-> "idle"]

(* A connection starts with every stream idle, or, after an h2c upgrade,  *)
(* with stream 1 already carrying the HTTP/1 request.                     *)
Init ==
  /\ \/ phase = AllIdle /\ max_open = 0
     \/ /\ 1 \in StreamIds
        /\ phase \in {[AllIdle EXCEPT ![1] = p] : p \in {"open", "responding"}}
        /\ max_open = 1
  /\ accepting = TRUE

(* One step of the connection: any streams move forward, a stream opens   *)
(* only as MayOpen allows, and the connection may stop accepting.          *)
Next ==
  /\ phase' \in [StreamIds -> Phases]
  /\ \A id \in StreamIds : phase'[id] = phase[id] \/ phase'[id] \in Later[phase[id]]
  /\ \A id \in StreamIds : Opens(id) => MayOpen(id)
  /\ MaxOpenFollows
  /\ accepting' \in IF accepting THEN BOOLEAN ELSE {FALSE}

Spec == Init /\ [][Next]_vars

TypeOK ==
  /\ phase \in [StreamIds -> Phases]
  /\ max_open \in {0} \cup StreamIds
  /\ accepting \in BOOLEAN

====
