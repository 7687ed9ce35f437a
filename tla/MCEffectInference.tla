------------------------- MODULE MCEffectInference -------------------------
(* Programs for EffectInference: every combination of small functions. *)
EXTENDS EffectInference

CONSTANTS async, log

Perform(op) == [kind |-> "perform", op |-> op]
Invoke(i)   == [kind |-> "invoke", callback |-> i]
Call(f, as) == [kind |-> "call", fn |-> f, args |-> as]
Block(of)   == [kind |-> "block", of |-> of]
Resume(n)   == [kind |-> "resume", try |-> n]
Try(body, clauses, open) == [kind |-> "try", body |-> body, clauses |-> clauses, open |-> open]
Clause(op, body) == [op |-> op, body |-> body]
Lambda(n) == [kind |-> "lambda", at |-> n]
Own(i)    == [kind |-> "own", at |-> i]
R(ops)    == [ops |-> ops, open |-> FALSE]
Open(ops) == [ops |-> ops, open |-> TRUE]

\* Bodies that perform, call, or handle what a call does.
Leaf     == {<<Perform(log)>>, <<Block(<<>>)>>}
Calls(g) == {<<Call(g, <<>>)>>, <<Perform(log), Call(g, <<>>), Block(<<1, 2>>)>>}
Handle(g, clause, open) == <<Call(g, <<>>), clause, Try(1, <<Clause(async, 2)>>, open)>>
Handles(g) == {Handle(g, Resume(3), FALSE), Handle(g, Resume(3), TRUE),
               Handle(g, Perform(async), FALSE), Handle(g, Perform(log), TRUE)}

Explicit == {0}     \* the return type is declared
Fn(body, notes, returns) ==
    {[generic |-> FALSE, inferred |-> r # Explicit, from |-> r \ Explicit, annotated |-> d # <<>>,
      declared |-> IF d = <<>> THEN R({}) ELSE d[1], callbacks |-> <<>>, body |-> b] :
        b \in body, d \in notes, r \in returns}
Generic(fns) == {[f EXCEPT !.generic = TRUE] : f \in fns}
Taking(rows, fns) == {[f EXCEPT !.callbacks = c] : c \in rows, f \in fns}

\* Three functions that may call each other in any order.
PlainPrograms ==
    {<<f, g, h>> :
        f \in Fn(Leaf \cup {<<Call(2, <<>>)>>} \cup Handles(3), {<<>>, <<R({})>>, <<R({log})>>}, {Explicit}),
        g \in Fn(Calls(1) \cup Calls(3) \cup Handles(3), {<<>>}, {Explicit, {3}}),
        h \in Fn({<<Perform(async)>>, <<Call(1, <<>>)>>} \cup Calls(2), {<<>>, <<R({async})>>}, {{}})}

\* Generic functions between callers and what they call.
GenericPrograms ==
    {<<f, g, h, k>> :
        f \in Fn({<<Call(2, <<>>)>>}, {<<>>, <<R({})>>}, {Explicit, {2}}),
        g \in Fn(Calls(3), {<<>>}, {Explicit, {}}),
        h \in Generic(Fn({<<Perform(async)>>} \cup Calls(1) \cup Calls(4), {<<>>, <<R({async})>>}, {Explicit})),
        k \in Generic(Fn({<<Perform(async)>>, <<Call(3, <<>>)>>}, {<<>>}, {Explicit}))}

\* A function with a callback that calls it, passes it on or wraps it in a lambda, and
\* its caller.
Passes(o, i) == <<Perform(o), Call(i, <<Lambda(1)>>)>>
Catches(o, i) == <<Perform(o), Call(i, <<Lambda(1)>>), Resume(4), Try(2, <<Clause(o, 3)>>, FALSE)>>
Higher == {<<Perform(log), Invoke(1), Block(<<1, 2>>)>>, <<Call(3, <<Own(1)>>)>>,
           <<Perform(log), Invoke(1), Block(<<1, 2>>), Call(3, <<Lambda(3)>>)>>}
Lower == {<<Invoke(1)>>, <<Invoke(1), Call(2, <<Own(1)>>), Block(<<1, 2>>)>>}
CallbackPrograms ==
    {<<f, g, h>> :
        f \in Fn({Passes(async, 2), Passes(log, 2), Catches(async, 2), Passes(async, 3)}, {<<>>, <<R({async})>>}, {Explicit}),
        g \in Taking({<<R({async})>>, <<Open({})>>, <<Open({log})>>}, Fn(Higher, {<<>>, <<Open({})>>}, {Explicit})),
        h \in Taking({<<R({async})>>, <<Open({})>>}, Fn(Lower, {<<>>}, {{}}))}

AllPrograms == PlainPrograms \cup GenericPrograms \cup CallbackPrograms
=============================================================================
