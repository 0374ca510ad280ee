----------------------------- MODULE ReactLoop ------------------------------
(***************************************************************************)
(* The agent's loop (agent.py run_react_loop, run_react_loop_streaming):   *)
(* the model is asked, its text parsed, a tool run or a correction sent    *)
(* back, until it gives a final answer or the steps are used up.           *)
(*                                                                         *)
(* External and left open: what the model answers and the tools return.  A *)
(* message of the dialog is the role that wrote it.                        *)
(***************************************************************************)
EXTENDS Integers, Sequences

CONSTANTS Turns,       \* the chat turns that may run at one time
          MaxSteps,    \* MAX_STEPS
          MaxAttempts  \* max_retries of call_openrouter

ASSUME StepsAssumption    == MaxSteps \in Nat \ {0}
ASSUME AttemptsAssumption == MaxAttempts \in Nat \ {0}

VARIABLES
  at,       \* where a turn's loop is: after a call, what the text was
  step,     \* the step it is in, from 1
  attempt,  \* the attempt of its call of the model, from 1; 0 outside of one
  dialog,   \* the roles of its messages, beyond the conversation it got
  answer    \* the answer it ended with

loopVars == <<at, step, attempt, dialog, answer>>

(* What parse_llm_output makes of a text that is no final answer: a call of*)
(* a tool, or a text that is corrected, as parameters are missing or the   *)
(* format is not kept.                                                     *)
Parsed  == {"action", "malformed"}
Answers == {"none", "text", "empty"}
Roles   == {"model", "user"}

LoopInit ==
  /\ at = [t \in Turns |-> "off"]
  /\ step = [t \in Turns |-> 0]
  /\ attempt = [t \in Turns |-> 0]
  /\ dialog = [t \in Turns |-> <<>>]
  /\ answer = [t \in Turns |-> "none"]

-----------------------------------------------------------------------------
Say(t, role) == dialog' = [dialog EXCEPT ![t] = Append(@, role)]

StartLoop(t) ==
  /\ at' = [at EXCEPT ![t] = "call"]
  /\ step' = [step EXCEPT ![t] = 1]
  /\ attempt' = [attempt EXCEPT ![t] = 1]
  /\ UNCHANGED <<dialog, answer>>

(* The loop is left: its messages are its own.                             *)
LeaveLoop(t, where, a) ==
  /\ at' = [at EXCEPT ![t] = where]
  /\ answer' = [answer EXCEPT ![t] = a]
  /\ step' = [step EXCEPT ![t] = 0]
  /\ attempt' = [attempt EXCEPT ![t] = 0]
  /\ dialog' = [dialog EXCEPT ![t] = <<>>]

(* The turn is over, whatever its end; the loop has its answer.            *)
StopLoop(t)  == LeaveLoop(t, "off", "none")
Finish(t, a) == LeaveLoop(t, "done", a)

(* Mutant: the last attempt is retried as well.                            *)
RetryAlways(t) ==
  /\ at[t] = "call"
  /\ attempt' = [attempt EXCEPT ![t] = 1 + (@ % MaxAttempts)]
  /\ UNCHANGED <<at, step, dialog, answer>>

(* call_openrouter: a rate limit or a server error is tried again after a  *)
(* pause, but for the last attempt.                                        *)
Retry(t) ==
  /\ at[t] = "call" /\ attempt[t] < MaxAttempts
  /\ attempt' = [attempt EXCEPT ![t] = @ + 1]
  /\ UNCHANGED <<at, step, dialog, answer>>

(* Any other end of the call is a text: one that is no final answer        *)
(* becomes a message of the dialog.                                        *)
ModelSays(t, kind) ==
  /\ at[t] = "call"
  /\ at' = [at EXCEPT ![t] = kind]
  /\ Say(t, "model")
  /\ attempt' = [attempt EXCEPT ![t] = 0]
  /\ UNCHANGED <<step, answer>>

(* A final answer, with nothing in it or not, or the text that stands for  *)
(* an error: the loop is left.                                             *)
Final(t) ==
  /\ at[t] = "call"
  /\ \E a \in {"text", "empty"} : Finish(t, a)

NextStep(t) ==
  /\ at' = [at EXCEPT ![t] = "call"]
  /\ step' = [step EXCEPT ![t] = @ + 1]
  /\ attempt' = [attempt EXCEPT ![t] = 1]
  /\ UNCHANGED answer

(* The reply to the model begins the next step; after the last one the     *)
(* answer is that the limit is reached.                                    *)
Reply(t) ==
  IF step[t] = MaxSteps THEN Finish(t, "text")
  ELSE Say(t, "user") /\ NextStep(t)

(* run_tool: the observation, that of an unknown tool or of one that       *)
(* raised included.                                                        *)
Observe(t) == at[t] = "action" /\ Reply(t)

(* Mutant: a malformed text is not followed by a message to the model.     *)
CorrectSilently(t) ==
  /\ at[t] = "malformed"
  /\ IF step[t] = MaxSteps THEN Finish(t, "text") ELSE NextStep(t) /\ UNCHANGED dialog

(* The names of the missing parameters, or a reminder of the format.       *)
Correct(t) == at[t] = "malformed" /\ Reply(t)

LoopStep(t) == Retry(t) \/ (\E k \in Parsed : ModelSays(t, k)) \/ Final(t) \/ Observe(t) \/ Correct(t)

-----------------------------------------------------------------------------
(* The dialog alternates, starting with the model, and every text of the   *)
(* model has its reply before the model is asked again: a tool's call is   *)
(* never without its observation, and the steps count the texts.           *)
DialogAlternates ==
  \A t \in Turns :
    /\ \A i \in DOMAIN dialog[t] : dialog[t][i] = IF i % 2 = 1 THEN "model" ELSE "user"
    /\ at[t] = "call" => Len(dialog[t]) = 2 * (step[t] - 1)
    /\ at[t] \in Parsed => Len(dialog[t]) = 2 * step[t] - 1

(* Type correctness of the loop.                                           *)
LoopTypeOK ==
  /\ at \in [Turns -> {"off", "call", "done"} \cup Parsed]
  /\ step \in [Turns -> 0 .. MaxSteps]
  /\ attempt \in [Turns -> 0 .. MaxAttempts]
  /\ dialog \in [Turns -> Seq(Roles)]
  /\ answer \in [Turns -> Answers]
  /\ DialogAlternates
=============================================================================
