----------------------------- MODULE LLMGateway -----------------------------
(***************************************************************************)
(* The LLM gateway (rasa/llm_gateway): clients that route a completion to  *)
(* a model, fall back to another, and share a cache of answers in Redis;   *)
(* and its two callers, agents that execute tasks in rounds of tool calls  *)
(* and a person's interactive session (rasa/agent/runtime.py).             *)
(*                                                                         *)
(* Every call of an agent has the empty prompt, so that the cache key is   *)
(* the model with the soul's settings, the same for all tasks of a soul.   *)
(* An answer is whom it was made for, after how many turns, and by what.   *)
(* The evaluation's call names arguments that complete does not have, and  *)
(* fails each time (rasa/eval/runner.py:84).                               *)
(***************************************************************************)
EXTENDS Naturals, Sequences

CONSTANTS
  Tasks,      \* tasks that agents execute, each by an agent of its own
  WithTools,  \* tasks of a soul that has tools to offer
  Premium,    \* tasks of a soul of the premium tier
  Session,    \* the interactive session, another caller; of the standard tier
  Fallback,   \* FALLBACK_API_KEY is set
  MaxRounds,  \* rounds of tool calls: 10 in the code
  MaxTurns,   \* bound on the turns of the session
  MaxFaults   \* bound on providers' failures

GatewayConstants ==
  /\ WithTools \subseteq Tasks /\ Premium \subseteq Tasks
  /\ Session \notin Tasks /\ Fallback \in BOOLEAN
  /\ "empty prompt" \notin Tasks \cup {Session}
  /\ MaxRounds \in Nat \ {0} /\ MaxTurns \in Nat /\ MaxFaults \in Nat

VARIABLES
  cached,  \* cached[m]: the answer in Redis under the key of model m
  call,    \* call[c]: where complete is for caller c
  result,  \* result[c]: the answer complete has for c
  turns,   \* turns[c]: messages its conversation has beyond the first ones
  ended,   \* ended[t]: how the task ended: open, answered, failed
  spoken,  \* who spoke in the session since it began or was cleared
  faults   \* faults so far

vars == <<cached, call, result, turns, ended, spoken, faults>>

Callers == Tasks \cup {Session}
Models == {"standard", "premium"}
Calls == {"none"} \cup Models \cup {"fallback", "store", "done"}
NoAnswer == [to |-> "nobody", turn |-> 0, by |-> "none", tools |-> FALSE]
Answers ==
  [to : Callers \cup {"empty prompt"}, turn : 0..MaxRounds + 2 * MaxTurns,
   by : Models \cup {"fallback"}, tools : BOOLEAN] \cup {NoAnswer}
Talks == UNION {[1..n -> {"user", "assistant"}] : n \in 0..2 * MaxTurns}

TypeOK ==
  /\ cached \in [Models -> Answers]
  /\ call \in [Callers -> Calls] /\ result \in [Callers -> Answers]
  /\ \A c \in Callers : call[c] = "none" => result[c] = NoAnswer
  /\ turns \in [Tasks -> 0..MaxRounds]
  /\ ended \in [Tasks -> {"open", "answered", "failed"}]
  /\ spoken \in Talks
  /\ faults \in 0..MaxFaults

Init ==
  /\ cached = [m \in Models |-> NoAnswer]
  /\ call = [c \in Callers |-> "none"]
  /\ result = [c \in Callers |-> NoAnswer]
  /\ turns = [t \in Tasks |-> 0]
  /\ ended = [t \in Tasks |-> "open"]
  /\ spoken = <<>> /\ faults = 0

(* TierRouter.resolve. *)
Model(c) == IF c \in Premium THEN "premium" ELSE "standard"

(* A faulty variant, for the mutant: a seed keeps no call from the cache.  *)
CacheableSeeded(c) == c \notin WithTools

(* complete: with tools, or with a seed as the session's calls, the cache  *)
(* is left alone.                                                          *)
Cacheable(c) == c \notin WithTools \cup {Session}

(* complete, _cache_get; a cache that cannot be reached holds nothing.     *)
Ask(c) ==
  /\ call[c] = "none"
  /\ \/ /\ Cacheable(c) /\ cached[Model(c)] # NoAnswer
        /\ call' = [call EXCEPT ![c] = "done"]
        /\ result' = [result EXCEPT ![c] = cached[Model(c)]]
     \/ /\ call' = [call EXCEPT ![c] = Model(c)]
        /\ UNCHANGED result

(* _execute_task: the next round of a task. *)
TaskAsks(t) ==
  /\ ended[t] = "open"
  /\ Ask(t)
  /\ UNCHANGED <<cached, turns, ended, spoken, faults>>

(* start_interactive: a line of the person's, then the whole conversation. *)
SessionAsks ==
  /\ Len(spoken) < 2 * MaxTurns
  /\ Ask(Session)
  /\ spoken' = Append(spoken, "user")
  /\ UNCHANGED <<cached, turns, ended, faults>>

Turn(c) == IF c = Session THEN Len(spoken) ELSE turns[c]

(* _call_provider: the model answers, perhaps by calling tools. *)
Answer(c, tools) ==
  /\ call[c] \in Models /\ (tools => c \in WithTools)
  /\ result' = [result EXCEPT ![c] = [to |-> c, turn |-> Turn(c), by |-> call[c],
                                tools |-> tools]]
  /\ call' = [call EXCEPT ![c] = "store"]
  /\ UNCHANGED <<cached, turns, ended, spoken, faults>>

(* _route_with_fallback: the attempts of one provider are used up. *)
NextRoute(c) ==
  /\ call[c] \in Models
  /\ \/ call[c] = "premium" /\ call' = [call EXCEPT ![c] = "standard"]
     \/ /\ call[c] = "standard" /\ Fallback
        /\ call' = [call EXCEPT ![c] = "fallback"]
  /\ faults < MaxFaults /\ faults' = faults + 1
  /\ UNCHANGED <<cached, result, turns, ended, spoken>>

(* _call_openai_fallback sends the prompt and extra_body, where a session  *)
(* has its conversation and a task has nothing.                            *)
FallbackAnswer(c) ==
  /\ call[c] = "fallback"
  /\ result' = [result EXCEPT ![c] =
               [to |-> IF c = Session THEN c ELSE "empty prompt",
                turn |-> Turn(c), by |-> "fallback", tools |-> FALSE]]
  /\ call' = [call EXCEPT ![c] = "store"]
  /\ UNCHANGED <<cached, turns, ended, spoken, faults>>

(* GatewayError: the task fails; the session drops the person's line. *)
Exhausted(c) ==
  /\ call[c] \in {"standard", "fallback"} /\ (call[c] = "standard" => ~Fallback)
  /\ faults < MaxFaults /\ faults' = faults + 1
  /\ call' = [call EXCEPT ![c] = "none"]
  /\ IF c = Session
     THEN spoken' = SubSeq(spoken, 1, Len(spoken) - 1) /\ UNCHANGED ended
     ELSE ended' = [ended EXCEPT ![c] = "failed"] /\ UNCHANGED spoken
  /\ UNCHANGED <<cached, result, turns>>

(* _cache_set: under the key of the model asked for, whoever answered; or  *)
(* not at all, when Redis cannot be reached.                               *)
Store(c) ==
  /\ call[c] = "store"
  /\ call' = [call EXCEPT ![c] = "done"]
  /\ \/ /\ Cacheable(c) /\ ~result[c].tools
        /\ cached' = [cached EXCEPT ![Model(c)] = result[c]]
     \/ UNCHANGED cached
  /\ UNCHANGED <<result, turns, ended, spoken, faults>>

(* _execute_task: tools are called and the conversation grows, or the      *)
(* answer is the task's result.  The rounds may run out.                   *)
TaskGoesOn(t) ==
  /\ call[t] = "done"
  /\ IF result[t].tools
     THEN /\ turns' = [turns EXCEPT ![t] = @ + 1]
          /\ ended' = [ended EXCEPT ![t] =
                         IF turns'[t] = MaxRounds THEN "failed" ELSE @]
          /\ call' = [call EXCEPT ![t] = "none"]
          /\ result' = [result EXCEPT ![t] = NoAnswer]
     ELSE /\ ended' = [ended EXCEPT ![t] = "answered"]
          /\ call' = [call EXCEPT ![t] = "none"]
          /\ result' = [result EXCEPT ![t] = NoAnswer]
          /\ UNCHANGED turns
  /\ UNCHANGED <<cached, spoken, faults>>

SessionGoesOn ==
  /\ call[Session] = "done"
  /\ spoken' = Append(spoken, "assistant")
  /\ call' = [call EXCEPT ![Session] = "none"]
  /\ result' = [result EXCEPT ![Session] = NoAnswer]
  /\ UNCHANGED <<cached, turns, ended, faults>>

(* /clear, between two turns. *)
Clear ==
  /\ call[Session] = "none" /\ spoken # <<>>
  /\ spoken' = <<>>
  /\ UNCHANGED <<cached, call, result, turns, ended, faults>>

(* The time to live runs out, or flush_cache. *)
Expire(m) ==
  /\ cached[m] # NoAnswer
  /\ cached' = [cached EXCEPT ![m] = NoAnswer]
  /\ UNCHANGED <<call, result, turns, ended, spoken, faults>>

Next ==
  \/ \E t \in Tasks : TaskAsks(t) \/ TaskGoesOn(t)
  \/ SessionAsks \/ SessionGoesOn \/ Clear
  \/ \E c \in Callers :
       \/ \E tools \in BOOLEAN : Answer(c, tools)
       \/ NextRoute(c) \/ FallbackAnswer(c) \/ Exhausted(c) \/ Store(c)
  \/ \E m \in Models : Expire(m)

Spec == Init /\ [][Next]_vars

(* The cache stays out of conversations: whoever has tools or a seed is    *)
(* answered for its own conversation as it stands, or by the fallback; an  *)
(* answer from the cache calls no tools, was not made for a conversation   *)
(* of that kind, and was made for a task with the same key.  That it is    *)
(* the answer to another task of the soul nothing prevents.                *)
AnswersFitTheirCalls ==
  \A c \in Callers : LET a == result[c] IN
    call[c] \in {"store", "done"} =>
      /\ c \in WithTools \cup {Session} =>
           /\ a.to = c \/ a.by = "fallback"
           /\ a.turn = Turn(c)
      /\ c \notin WithTools \cup {Session} =>
           /\ ~a.tools /\ a.to \notin WithTools \cup {Session}
           /\ a.to \in Tasks => Model(a.to) = Model(c)
=============================================================================
