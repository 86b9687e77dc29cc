-------------------------------- MODULE Saga --------------------------------
(***************************************************************************)
(* SagaCoordinator: the steps of a saga are executed one after the other;  *)
(* when one fails, the completed ones are compensated in reverse order.    *)
(*                                                                         *)
(* Instances share nothing but the table they are kept in, so one is       *)
(* modelled, from start to the end of its promise.  Code between two       *)
(* awaited handlers is one action.  Handlers are external: a forward       *)
(* handler succeeds, reports failure or throws, a compensation may do the  *)
(* same, but the coordinator only tells a throw from a normal return.      *)
(***************************************************************************)
EXTENDS Naturals, Sequences, SequencesExt

CONSTANTS
    Definitions    \* what registerDefinition was given: step ids are distinct, so a
                   \* step is found by its position

\* Whether the forward handler is registered, and what there is to compensate:
\* no compensation, one whose handler is not registered, or one that is.
SagaStep == [forward : BOOLEAN, compensate : {"none", "missing", "known"}]

ASSUME SagaAssumption == Definitions \subseteq Seq(SagaStep)

VARIABLES
    def,        \* the registered definition that is started
    status,     \* SagaInstance.status, "none" before start
    steps,      \* the status of each step
    stack,      \* CompensationStack: completed steps, oldest first
    order,      \* the steps compensate has yet to deal with, the one under way first
    sagaPc,     \* "idle", "forward", "compensate", "done"
    effect      \* the steps that reported success and have not been undone

sagaVars == <<def, status, steps, stack, order, sagaPc, effect>>

SagaInit ==
    /\ def \in Definitions
    /\ steps = << >> /\ stack = << >> /\ order = << >>
    /\ status = "none"
    /\ sagaPc = "idle"
    /\ effect = {}

\* The compensations that will be called: a step without one, or whose handler
\* is not registered, is passed over.
Compensable(i) == def[i].compensate = "known"

\* Faulty variant: the oldest step is compensated first.
OldestFirst(s) == s

ToCompensateOrder(s) == Reverse(s)

\* The loop of compensate with `left` to go and the steps being `now`: it goes on
\* to the first one whose compensation can be called, or ends.
CompensateNext(left, now) ==
    \/ /\ \A k \in DOMAIN left : ~ Compensable(left[k])
       /\ order' = << >>
       /\ sagaPc' = "done" /\ status' = "compensated" /\ steps' = now
    \/ \E k \in DOMAIN left :
         /\ Compensable(left[k]) /\ \A j \in 1..(k - 1) : ~ Compensable(left[j])
         /\ order' = SubSeq(left, k, Len(left))
         /\ sagaPc' = "compensate" /\ status' = "failed"
         /\ steps' = [now EXCEPT ![left[k]] = "compensating"]

\* A step has failed: compensate is entered.
Abort(done, now) ==
    /\ stack' = done
    /\ CompensateNext(ToCompensateOrder(done), now)

\* The head of the loop in executeForward at step k.
Forward(k, done, now) ==
    IF k > Len(def)
    THEN /\ sagaPc' = "done" /\ status' = "completed" /\ steps' = now
         /\ stack' = done /\ UNCHANGED order
    ELSE IF def[k].forward
         THEN /\ sagaPc' = "forward" /\ status' = "active"
              /\ steps' = [now EXCEPT ![k] = "running"]
              /\ stack' = done /\ UNCHANGED order
         ELSE Abort(done, [now EXCEPT ![k] = "failed"])

StartSaga ==
    /\ sagaPc = "idle"
    /\ Forward(1, << >>, [i \in 1..Len(def) |-> "pending"])
    /\ UNCHANGED <<def, effect>>

\* The step whose forward handler is under way.
CurrentStep == CHOOSE i \in DOMAIN steps : steps[i] = "running"

\* Faulty variant: a step is not pushed on the stack.
StepSucceedsForgotten ==
    /\ sagaPc = "forward"
    /\ effect' = effect \cup {CurrentStep}
    /\ Forward(CurrentStep + 1, stack, [steps EXCEPT ![CurrentStep] = "completed"])
    /\ UNCHANGED def

StepSucceeds ==
    /\ sagaPc = "forward"
    /\ effect' = effect \cup {CurrentStep}
    /\ Forward(CurrentStep + 1, Append(stack, CurrentStep), [steps EXCEPT ![CurrentStep] = "completed"])
    /\ UNCHANGED def

\* The handler reports failure or throws.
StepFails ==
    /\ sagaPc = "forward"
    /\ Abort(stack, [steps EXCEPT ![CurrentStep] = "failed"])
    /\ UNCHANGED <<def, effect>>

\* A compensation returns normally.  It may have reported failure: the result
\* is not looked at.
CompensationReturns ==
    /\ sagaPc = "compensate"
    /\ effect' \in {effect, effect \ {Head(order)}}
    /\ CompensateNext(Tail(order), [steps EXCEPT ![Head(order)] = "compensated"])
    /\ UNCHANGED <<def, stack>>

\* Faulty variant: an exception ends the compensation.
CompensationThrowsOut ==
    /\ sagaPc = "compensate"
    /\ sagaPc' = "done"
    /\ UNCHANGED <<def, status, steps, stack, order, effect>>

\* A compensation throws: that is logged and the next one is called.
CompensationThrows ==
    /\ sagaPc = "compensate"
    /\ CompensateNext(Tail(order), steps)
    /\ UNCHANGED <<def, stack, effect>>

HandlerReturns == StepSucceeds \/ StepFails \/ CompensationReturns \/ CompensationThrows

SagaDone == sagaPc = "done" /\ UNCHANGED sagaVars

SagaNext == StartSaga \/ HandlerReturns \/ SagaDone

SagaSpec == SagaInit /\ [][SagaNext]_sagaVars

-----------------------------------------------------------------------------
(* Properties.                                                             *)

Undoable(i) == def[i].compensate = "known"
Undoing     == {"compensating", "compensated"}

\* Compensation is last in, first out: a step is touched only when every later
\* step that took effect and can be compensated has been dealt with.  Only steps
\* that took effect and have a compensation are compensated, each at most once; in
\* particular never the step that failed.
LastInFirstOut ==
    /\ \A i, j \in DOMAIN steps :
         i < j /\ steps[i] \in Undoing /\ Undoable(j) => steps[j] # "completed"
    /\ \A i \in DOMAIN steps :
         steps[i] \in Undoing => Undoable(i) /\ \E k \in DOMAIN stack : stack[k] = i
    /\ \A i \in DOMAIN steps : steps[i] = "compensated" => \A k \in DOMAIN order : order[k] # i
    /\ effect \subseteq {stack[k] : k \in DOMAIN stack}

\* A saga that reports "compensated" has called every compensation there is,
\* also after one of them threw, for every step that still has its effect; a saga
\* that reports "completed" has executed every step.
EndIsHonest ==
    sagaPc = "done" =>
        \/ /\ status = "completed"
           /\ effect = DOMAIN steps /\ \A i \in DOMAIN steps : steps[i] = "completed"
        \/ /\ status = "compensated"
           /\ \A i \in effect : steps[i] \in Undoing \/ ~ Undoable(i)
           /\ \E i \in DOMAIN steps : steps[i] = "failed"
=============================================================================
