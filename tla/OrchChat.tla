------------------------------ MODULE OrchChat ------------------------------
(***************************************************************************)
(* A conversation with the orchestrator: the GUI's command line            *)
(* (rasa/gui/cli.py, app.py), the daemon at the other end of its pipes     *)
(* (orch_daemon.py), and the runtime that keeps the messages and calls the *)
(* model (rasa/orchestrator/runtime.py).  Threads: the GUI's, which waits  *)
(* for one request at a time; the reader of the daemon's output; the       *)
(* daemon's main thread; and its event loop, where send_message runs.      *)
(*                                                                         *)
(* Requests are numbered as they are typed.  Of the events the daemon      *)
(* writes only those that end a wait are kept: done, error and reset_ok,   *)
(* by the number of their request.  The system message at the front of the *)
(* conversation is rewritten in place by every request and left out.       *)
(***************************************************************************)
EXTENDS Integers, Sequences, FiniteSets, SequencesExt

CONSTANTS
  MaxAsks,     \* bound on requests
  MaxHistory,  \* messages a request leaves before its first call: 20
  MaxRounds,   \* bound on the tool rounds of a request: none in the code
  MaxCalls,    \* bound on the tool calls of a round
  MaxFaults    \* bound on errors, timeouts and stops

Asks == 1..MaxAsks

ChatConstants ==
  /\ MaxAsks \in Nat /\ MaxHistory \in Nat \ {0}
  /\ MaxRounds \in Nat /\ MaxCalls \in Nat \ {0} /\ MaxFaults \in Nat

VARIABLES
  asked,     \* requests typed so far
  waits,     \* the GUI waits for the answer to the last of them
  ready,     \* _response_ready
  last,      \* _last_response: the request it answers, or 0
  got,       \* got[k]: history, the request whose answer k was given, or 0
  known,     \* _running: the GUI takes the daemon to be up
  up,        \* the daemon is
  inbox,     \* its stdin: requests
  resets,    \* the requests that ask for a reset
  outbox,    \* its stdout: events that end a wait
  serving,   \* the request its main thread waits for, or 0
  run,       \* run[k]: the coroutine of request k
  rounds,    \* rounds[k]: its tool rounds
  pending,   \* pending[k]: tool calls of its round still to run
  messages,  \* _messages
  overran,   \* history: requests main gave up on after an hour
  slips      \* faults so far

gui == <<asked, waits, ready, last, got, known, resets>>
work == <<run, rounds, pending, messages>>
vars == <<gui, up, inbox, outbox, serving, work, overran, slips>>

Messages == [role : {"user", "reply", "calls", "tool"}, ask : Asks,
             round : 0..MaxRounds]

TypeOK ==
  /\ asked \in 0..MaxAsks
  /\ waits \in BOOLEAN /\ ready \in BOOLEAN
  /\ last \in 0..MaxAsks /\ got \in [Asks -> 0..MaxAsks]
  /\ known \in BOOLEAN /\ up \in BOOLEAN
  /\ inbox \in Seq(Asks) /\ resets \subseteq Asks /\ outbox \in Seq(Asks)
  /\ serving \in 0..asked
  /\ run \in [Asks -> {"none", "call", "tools", "done", "failed"}]
  /\ rounds \in [Asks -> 0..MaxRounds]
  /\ pending \in [Asks -> 0..MaxCalls]
  /\ \A k \in Asks : run[k] = "tools" <=> pending[k] > 0
  /\ messages \in Seq(Messages)
  /\ overran \subseteq Asks
  /\ slips \in 0..MaxFaults

Slip == slips < MaxFaults /\ slips' = slips + 1

Init ==
  /\ asked = 0 /\ waits = FALSE /\ ready = FALSE /\ last = 0
  /\ got = [k \in Asks |-> 0]
  /\ known = TRUE /\ up = TRUE
  /\ inbox = <<>> /\ resets = {} /\ outbox = <<>>
  /\ serving = 0
  /\ run = [k \in Asks |-> "none"] /\ rounds = [k \in Asks |-> 0]
  /\ pending = [k \in Asks |-> 0] /\ messages = <<>>
  /\ overran = {} /\ slips = 0

(***************************************************************************)
(* The GUI.                                                                *)
(***************************************************************************)

(* _send_to_daemon, _reset_conversation: up to the wait.  The entry is     *)
(* disabled until the answer is shown.                                     *)
Ask(reset) ==
  /\ asked < MaxAsks /\ ~waits /\ known /\ up
  /\ asked' = asked + 1
  /\ waits' = TRUE /\ ready' = FALSE
  /\ last' = IF reset THEN last ELSE 0
  /\ resets' = IF reset THEN resets \cup {asked + 1} ELSE resets
  /\ inbox' = Append(inbox, asked + 1)
  /\ UNCHANGED <<got, known, up, outbox, serving, work, overran, slips>>

(* The wait ends: whatever answer is there now is the one shown. *)
Return ==
  /\ waits /\ ready
  /\ waits' = FALSE
  /\ got' = [got EXCEPT ![asked] = last]
  /\ UNCHANGED <<asked, ready, last, known, resets, up, inbox, outbox, serving,
                 work, overran, slips>>

(* Five minutes without an event, ten seconds for a reset. *)
StopWaiting ==
  /\ waits /\ ~ready /\ Slip
  /\ waits' = FALSE
  /\ UNCHANGED <<asked, ready, last, got, known, resets, up, inbox, outbox,
                 serving, work, overran>>

(* _read_responses: one line.  It is the answer to whatever was asked last.*)
Read ==
  /\ known /\ outbox # <<>>
  /\ outbox' = Tail(outbox)
  /\ last' = Head(outbox) /\ ready' = TRUE
  /\ UNCHANGED <<asked, waits, got, known, resets, up, inbox, serving, work,
                 overran, slips>>

(* The daemon ends, or is stopped by the button: its conversation and what *)
(* was in the pipes are gone.                                              *)
Stop ==
  /\ up /\ Slip
  /\ up' = FALSE
  /\ inbox' = <<>> /\ outbox' = <<>> /\ serving' = 0
  /\ run' = [k \in Asks |-> "none"] /\ pending' = [k \in Asks |-> 0]
  /\ messages' = <<>>
  /\ UNCHANGED <<gui, rounds, overran>>

(* _read_responses: the end of the output. *)
ReadEnd ==
  /\ known /\ ~up
  /\ known' = FALSE
  /\ UNCHANGED <<asked, waits, ready, last, got, resets, up, inbox, outbox,
                 serving, work, overran, slips>>

(* start, once the reader of the daemon before has seen its end: fresh     *)
(* pipes, and a conversation that is empty.                                *)
Start ==
  /\ ~known
  /\ known' = TRUE /\ up' = TRUE
  /\ UNCHANGED <<asked, waits, ready, last, got, resets, inbox, outbox, serving,
                 work, overran, slips>>

(***************************************************************************)
(* The daemon.                                                             *)
(***************************************************************************)

(* Faulty variants, for the mutants: a loop that removes from the list it  *)
(* walks, and a main thread that takes the newest request first.           *)
TrimmedSkipping(h) ==
  LET extra == Len(h) - MaxHistory
      kept == {i \in 1..Len(h) : i % 2 = 0 \/ i >= 2 * extra}
  IN IF extra <= 0 THEN h
     ELSE LET at == SetToSortSeq(kept, <) IN [i \in 1..Len(at) |-> h[at[i]]]

(* The oldest go, whatever they are. *)
Trimmed(h) ==
  IF Len(h) > MaxHistory THEN SubSeq(h, Len(h) - MaxHistory + 1, Len(h)) ELSE h

Said(role, k, round) == [role |-> role, ask |-> k, round |-> round]

ServeNewest ==
  LET k == Last(inbox) IN
  /\ serving = 0 /\ inbox # <<>>
  /\ inbox' = Front(inbox)
  /\ IF k \in resets
     THEN /\ messages' = <<>>
          /\ outbox' = Append(outbox, k)
          /\ UNCHANGED <<serving, run>>
     ELSE /\ messages' = Trimmed(Append(messages, Said("user", k, 0)))
          /\ run' = [run EXCEPT ![k] = "call"]
          /\ serving' = k
          /\ UNCHANGED outbox
  /\ UNCHANGED <<gui, up, rounds, pending, overran, slips>>

(* main_sync: the next line.  A reset is done when it is answered; of a    *)
(* message, send_message runs up to its first call.                        *)
Serve ==
  LET k == Head(inbox) IN
  /\ serving = 0 /\ inbox # <<>>
  /\ inbox' = Tail(inbox)
  /\ IF k \in resets
     THEN /\ messages' = <<>>
          /\ outbox' = Append(outbox, k)
          /\ UNCHANGED <<serving, run>>
     ELSE /\ messages' = Trimmed(Append(messages, Said("user", k, 0)))
          /\ run' = [run EXCEPT ![k] = "call"]
          /\ serving' = k
          /\ UNCHANGED outbox
  /\ UNCHANGED <<gui, up, rounds, pending, overran, slips>>

(* _render_system asks the database for projects and reviews, and fails.   *)
FailServe ==
  LET k == Head(inbox) IN
  /\ serving = 0 /\ inbox # <<>> /\ k \notin resets /\ Slip
  /\ inbox' = Tail(inbox)
  /\ run' = [run EXCEPT ![k] = "failed"]
  /\ serving' = k
  /\ UNCHANGED <<gui, up, outbox, rounds, pending, messages, overran>>

(* The model answers: send_message writes done, and returns. *)
Reply(k) ==
  /\ run[k] = "call"
  /\ messages' = Append(messages, Said("reply", k, rounds[k]))
  /\ run' = [run EXCEPT ![k] = "done"]
  /\ outbox' = Append(outbox, k)
  /\ UNCHANGED <<gui, up, inbox, serving, rounds, pending, overran, slips>>

(* The model asks for tools. *)
CallTools(k, n) ==
  /\ run[k] = "call" /\ rounds[k] < MaxRounds
  /\ messages' = Append(messages, Said("calls", k, rounds[k] + 1))
  /\ run' = [run EXCEPT ![k] = "tools"]
  /\ rounds' = [rounds EXCEPT ![k] = @ + 1]
  /\ pending' = [pending EXCEPT ![k] = n]
  /\ UNCHANGED <<gui, up, inbox, outbox, serving, overran, slips>>

(* _execute_tool, which raises nothing, and its result.  What the tools do *)
(* to tasks is module PyPool's: Create, AskAssign, WriteAssign, SpawnAgent.*)
Tool(k) ==
  /\ run[k] = "tools"
  /\ messages' = Append(messages, Said("tool", k, rounds[k]))
  /\ pending' = [pending EXCEPT ![k] = @ - 1]
  /\ run' = [run EXCEPT ![k] = IF pending[k] = 1 THEN "call" ELSE "tools"]
  /\ UNCHANGED <<gui, up, inbox, outbox, serving, rounds, overran, slips>>

(* _llm_call gives up after three attempts; the messages stay as they are. *)
Raise(k) ==
  /\ run[k] = "call" /\ Slip
  /\ run' = [run EXCEPT ![k] = "failed"]
  /\ UNCHANGED <<gui, up, inbox, outbox, serving, rounds, pending, messages,
                 overran>>

(* main_sync: the end of the wait.  Nothing sets _sent_done, so that done  *)
(* is written once more; or the error is.                                  *)
Settle ==
  /\ serving # 0 /\ run[serving] \in {"done", "failed"}
  /\ outbox' = Append(outbox, serving)
  /\ serving' = 0
  /\ UNCHANGED <<gui, up, inbox, work, overran, slips>>

(* An hour has passed: the error is written, and send_message runs on.     *)
Overrun ==
  /\ serving # 0 /\ run[serving] \in {"call", "tools"} /\ Slip
  /\ outbox' = Append(outbox, serving)
  /\ overran' = overran \cup {serving}
  /\ serving' = 0
  /\ UNCHANGED <<gui, up, inbox, work>>

GuiStep ==
  \/ Ask(TRUE) \/ Ask(FALSE) \/ Return \/ StopWaiting
  \/ Read \/ ReadEnd \/ Start

DaemonStep ==
  \/ Serve \/ FailServe \/ Settle \/ Overrun \/ Stop
  \/ \E k \in Asks : \/ Reply(k) \/ Tool(k) \/ Raise(k)
                     \/ \E n \in 1..MaxCalls : CallTools(k, n)

Next == GuiStep \/ DaemonStep

Spec == Init /\ [][Next]_vars

(* Trimming by count cuts a round in two, and leaves tool results without  *)
(* their calls, which the model's API refuses; but only ever at the front: *)
(* further on every result follows the calls it belongs to, although       *)
(* requests fail between them and resets replace the list.  Requests that  *)
(* overran may mix.                                                        *)
RoundsAreWhole ==
  overran = {} =>
    \A i \in DOMAIN messages : messages[i].role = "tool" =>
      \/ \A j \in 1..i : messages[j].role = "tool"
      \/ /\ messages[i - 1].role \in {"calls", "tool"}
         /\ messages[i - 1].ask = messages[i].ask
         /\ messages[i - 1].round = messages[i].round

(* The GUI may show the answer to an earlier request, since done is        *)
(* written twice and answers carry no number; but answers come in the      *)
(* order of their requests, none is shown more than twice, and only one to *)
(* a request that overran comes late.                                      *)
AnswersComeForward ==
  /\ \A j, k \in Asks :
       j < k /\ got[k] # 0 /\ got[k] < got[j] => got[k] \in overran
  /\ \A j \in Asks : Cardinality({k \in Asks : got[k] = j}) <= 2
=============================================================================
