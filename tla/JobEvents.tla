----------------------------- MODULE JobEvents -----------------------------
(***************************************************************************)
(* The event protocol of one simulation job: the lines the generated       *)
(* script prints, the events the backend publishes, and the log of a       *)
(* job's event hub (job_manager.py, JobEventHub without its subscribers,   *)
(* which JobEventHub.tla adds).                                            *)
(***************************************************************************)
EXTENDS Naturals, Sequences

(* Events of the protocol.  An event is its type and, for a batch, the     *)
(* number of batches that had been completed when it was printed.          *)
TerminalTypes == {"complete", "error", "cancelled"}
ScriptTypes == {"start", "batch", "complete", "error"}

(* Lines that are no event: "noise" lacks the reserved prefix, "bad" has   *)
(* the prefix but no JSON object of the protocol behind it, "huge" is      *)
(* longer than the limit of the asyncio stream reader.                     *)
NonEvents == {"noise", "bad", "huge"}

Ev(type, n) == [type |-> type, n |-> n]

Line == [type : ScriptTypes \cup NonEvents, n : Nat]
Event == [type : ScriptTypes \cup {"cancelled"}, n : Nat]

\* What a script of this many batches prints after its first events: start, an
\* event per batch, then complete; or an error instead.
ScriptEvents(printed, batches) ==
  IF printed = 0 THEN {Ev("start", 0), Ev("error", 0)}
  ELSE IF printed <= batches THEN {Ev("batch", printed), Ev("error", 0)}
  ELSE {Ev("complete", 0), Ev("error", 0)}

(* The log of a hub: the history it replays to late subscribers and the    *)
(* flag that a terminal event sets.                                        *)
HubLog == [history : Seq(Event), closed : BOOLEAN]
EmptyLog == [history |-> << >>, closed |-> FALSE]

\* Publishing on a closed hub is ignored; a terminal event closes it.
Publish(log, event) ==
  IF log.closed
  THEN log
  ELSE [history |-> Append(log.history, event),
        closed  |-> event.type \in TerminalTypes]
=============================================================================
