---------------------------- MODULE MCSereneContext ----------------------------
(* Constants for checking SereneContext.                                   *)
EXTENDS SereneContext

CONSTANTS user, n1, foo, bar, none, random, nosource, unparsable

Plain == [def |-> none, kind |-> "other", needs |-> {}, sound |-> TRUE,
          binds |-> {}, lambdas |-> 0]

Five == [Plain EXCEPT !.kind = "number"]                          \* 5
Big == [Plain EXCEPT !.kind = "big"]                              \* 3000000000
Lambda == [Plain EXCEPT !.kind = "fn"]                            \* (fn () ())
DefFn(s) == [Lambda EXCEPT !.def = s]                         \* (def s (fn ()))
DefNumber(s) == [Five EXCEPT !.def = s]                           \* (def s 5)
CallTo(s) == [Plain EXCEPT !.needs = {s}]                         \* (s)
Broken == [Plain EXCEPT !.sound = FALSE]                          \* (def 1)
\* (fn () (def s 5) (fn ()) (t))
Nested(s, t) == [Lambda EXCEPT !.needs = {t}, !.binds = {s}, !.lambdas = 1]

\* Programs for the REPL: every kind of form, alone and after an error.
Repl == {<<Five>>, <<Lambda>>, <<DefFn(foo)>>, <<DefNumber(bar)>>, <<CallTo(bar)>>,
         <<Broken, Lambda>>, <<Five, Broken>>, <<Big>>, <<Nested(bar, foo)>>, <<Lambda, Lambda>>}
\* Programs for files: code, errors after a function, what does not verify.
Source == {<<>>, <<DefNumber(foo), Five>>, <<Five, Big>>, <<Lambda, CallTo(bar)>>, <<DefFn(foo), Lambda>>}
All == Repl \cup Source
Functions == {<<DefFn(foo)>>}

NoFiles == [n \in NS |-> nosource]
EmptyFiles == [n \in NS |-> <<>>]
=============================================================================
