------------------------------ MODULE TaskQueue ------------------------------
(***************************************************************************)
(* What a caller of scheduleMicrotask (src/lib/microtask-scheduler.js) may *)
(* rely on: scheduled functions are called one at a time, in the order     *)
(* they were scheduled, each exactly once unless it is cancelled before    *)
(* its turn.  Promises, timers and the budget are not visible here.        *)
(***************************************************************************)
EXTENDS Naturals, Sequences, SequencesExt

CONSTANTS Fns,      \* the functions callers schedule
          NoFn      \* "no function is running"

VARIABLES todo,     \* scheduled and not yet called, oldest first
          current   \* the function whose body is running

vars == <<todo, current>>

Init == todo = <<>> /\ current = NoFn

Schedule(f) == todo' = Append(todo, f) /\ UNCHANGED current

Cancel(f) == \E i \in 1..Len(todo) :
               /\ todo[i] = f
               /\ \A j \in 1..(i - 1) : todo[j] # f
               /\ todo' = RemoveAt(todo, i)
               /\ UNCHANGED current

Call == /\ current = NoFn
        /\ todo # <<>>
        /\ current' = Head(todo)
        /\ todo' = Tail(todo)

Return == current # NoFn /\ current' = NoFn /\ UNCHANGED todo

\* The function returned and the next one is called in the same turn.
ReturnAndCall == /\ current # NoFn
                 /\ todo # <<>>
                 /\ current' = Head(todo)
                 /\ todo' = Tail(todo)

Run == Call \/ Return \/ ReturnAndCall

Next == Run \/ \E f \in Fns : Schedule(f) \/ Cancel(f)

Fairness == WF_vars(Run)

Spec == Init /\ [][Next]_vars /\ Fairness
==============================================================================
