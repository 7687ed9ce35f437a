--------------------------- MODULE EffectInference ---------------------------
(***************************************************************************)
(* Effect inference of the compiler, for the functions of one module:      *)
(* runInferencePass types every function again until a pass reports no     *)
(* change, runStrictTypeCheck types them once more, and the effect rows    *)
(* that are then recorded decide what code generation compiles as pure.    *)
(*                                                                         *)
(* A program is a sequence of functions in source order.  A function has   *)
(*   generic      type parameters: its body is typed where it is called    *)
(*   inferred     its return type is not declared; from are the functions  *)
(*                whose return types it takes                              *)
(*   annotated    a row stands in its signature: declared                  *)
(*   callbacks    the declared rows of its callback parameters             *)
(*   body         its expressions in the order typing finishes them, so    *)
(*                operands come first and the whole body last              *)
(* and a declared row is [ops, open].  An expression is a record with a    *)
(* kind: see Contribution.  A lambda is represented by its body: it has no *)
(* effect itself, and its type has its body's row.                         *)
(*                                                                         *)
(* Rows with rigid tails never arise.  Each generic function is used at    *)
(* one type, and returns a declared one.  A function with several          *)
(* callbacks does not pass them to itself.                                 *)
(***************************************************************************)
EXTENDS Naturals, Sequences, FiniteSets, SequencesExt

CONSTANTS
    Op,             \* effect operations
    Programs        \* the programs that are compiled

\* The expressions whose rows an expression's own row is computed from.
Operands(body, n) ==
    LET e == body[n]
        ofTry(try) == {try.body} \cup {try.clauses[i].body : i \in DOMAIN try.clauses}
    IN  CASE e.kind = "call"   -> {e.args[i].at : i \in {j \in DOMAIN e.args : e.args[j].kind = "lambda"}}
          [] e.kind = "block"  -> {e.of[i] : i \in DOMAIN e.of}
          [] e.kind = "resume" -> {body[e.try].body}
          [] e.kind = "try"    -> ofTry(e)
          [] OTHER             -> {}

\* A module declares finitely many effects.
ASSUME OperationsAreFinite == IsFiniteSet(Op)

\* Source order: functions call functions of the program, operands come first.
ASSUME ProgramsAreOrdered ==
    \A p \in Programs :
        /\ Len(p) \in Nat /\ DOMAIN p = 1 .. Len(p)
        /\ \A f \in DOMAIN p :
            /\ Len(p[f].body) \in Nat \ {0} /\ DOMAIN p[f].body = 1 .. Len(p[f].body)
            /\ \A n \in DOMAIN p[f].body :
                /\ Operands(p[f].body, n) \subseteq 1 .. n - 1
                /\ p[f].body[n].kind = "call" => p[f].body[n].fn \in DOMAIN p

\* Binding has resolved every name, and a call has an argument for each parameter.
IsList(s) == Len(s) \in Nat /\ DOMAIN s = 1 .. Len(s)
ASSUME ProgramsAreResolved ==
    \A p \in Programs : \A f \in DOMAIN p :
        /\ p[f].declared.ops \subseteq Op
        /\ IsList(p[f].callbacks)
        /\ \A i \in DOMAIN p[f].callbacks : p[f].callbacks[i].ops \subseteq Op
        /\ \A n \in DOMAIN p[f].body :
             LET e == p[f].body[n]
             IN  /\ e.kind \in {"perform", "invoke", "call", "block", "resume", "try"}
                 /\ e.kind = "perform" => e.op \in Op
                 /\ e.kind = "invoke" => e.callback \in DOMAIN p[f].callbacks
                 /\ e.kind = "call" =>
                      /\ IsList(e.args) /\ DOMAIN e.args = DOMAIN p[e.fn].callbacks
                      /\ \A i \in DOMAIN e.args :
                           e.args[i].kind = "lambda" \/ e.args[i].at \in DOMAIN p[f].callbacks
                 /\ e.kind = "block" => IsList(e.of)
                 /\ e.kind = "resume" => e.try \in DOMAIN p[f].body /\ p[f].body[e.try].kind = "try"
                 /\ e.kind = "try" => IsList(e.clauses)

VARIABLES
    program,        \* the program
    mode,           \* "relaxed" or "strict" pass, then "done" or "rejected"
    next,           \* the function that typeAllFunctions types next
    changed,        \* this pass has changed a signature
    row,            \* signature.effectRow of every function
    untyped,        \* functions whose return type is not inferred yet
    effects,        \* exprEffects: the row of every expression
    recorded,       \* functionEffects: the rows of the functions recorded so far
    instances,      \* generic functions whose body was typed in this pass
    frames          \* bodies that are being typed, the innermost last

vars == <<program, mode, next, changed, row, untyped, effects, recorded, instances, frames>>

-----------------------------------------------------------------------------
(* Rows: a set of operations, closed or ending in a tail variable.  A      *)
(* variable is named for the declaration or the call that creates it.      *)

NoTail == <<>>
Row == [ops : SUBSET Op, tail : Seq(Nat)]

Empty == [ops |-> {}, tail |-> NoTail]
IsOpen(r) == r.tail # NoTail
Declared(decl, tail) == [ops |-> decl.ops, tail |-> IF decl.open THEN tail ELSE NoTail]

\* Mutant: the tail of the right operand is lost.
ComposeLeft(a, b) == [ops |-> a.ops \cup b.ops, tail |-> a.tail]

\* compose: of two tails mergeTailVars keeps the left one.
Compose(a, b) == [ops |-> a.ops \cup b.ops, tail |-> IF IsOpen(a) THEN a.tail ELSE b.tail]
ComposeAll(rows) ==
    LET upTo[i \in 0 .. Len(rows)] ==
            IF i = 0 THEN Empty ELSE Compose(upTo[i - 1], rows[i])
    IN  upTo[Len(rows)]

\* constrain, as ensureEffectCompatibility uses it: the tails it binds are forgotten.
Admits(annotated, inferred) == inferred.ops \subseteq annotated.ops \/ IsOpen(annotated)

\* constrainFunctionEffectRows, for an argument and the callback it is passed as.
Lacking(actual, expected) == expected.ops \ actual.ops
Fits(actual, expected) ==
    /\ Lacking(actual, expected) # {} => IsOpen(actual)
    /\ Lacking(expected, actual) # {} => IsOpen(expected)

\* Its substitution: what the tails of both rows stand for.
Bindings(actual, expected, fresh) ==
    LET missing == Lacking(actual, expected)
        extra   == Lacking(expected, actual)
        shared  == IsOpen(actual) /\ IsOpen(expected) /\ (missing # {} \/ extra # {})
        ofActual   == [ops |-> missing, tail |-> IF shared THEN fresh ELSE NoTail]
        ofExpected == [ops |-> extra, tail |-> IF shared THEN fresh ELSE actual.tail]
        bound == (IF IsOpen(expected) THEN {expected.tail} ELSE {})
                 \cup IF IsOpen(actual) /\ (shared \/ ~IsOpen(expected)) THEN {actual.tail} ELSE {}
    IN  [t \in bound |-> IF t = expected.tail THEN ofExpected ELSE ofActual]

\* mergeEffectTailSubstitutions.
Merge(s, t) ==
    [v \in DOMAIN s \cup DOMAIN t |->
        IF v \notin DOMAIN t THEN s[v] ELSE IF v \notin DOMAIN s THEN t[v] ELSE Compose(s[v], t[v])]

MergeAll(substitutions) ==
    LET upTo[i \in 0 .. Len(substitutions)] ==
            IF i = 0 THEN <<>> ELSE Merge(upTo[i - 1], substitutions[i])
    IN  upTo[Len(substitutions)]

\* applyEffectRowSubstitution: a callee's tail stands for a tail of the caller, and that
\* one for a fresh tail at most.
Replace(r, s) ==
    IF r.tail \in DOMAIN s THEN [ops |-> r.ops \cup s[r.tail].ops, tail |-> s[r.tail].tail] ELSE r
Apply(r, s) == Replace(Replace(r, s), s)

-----------------------------------------------------------------------------
(* A program.                                                              *)

Body(f) == program[f].body
CallbackRow(f, i) == Declared(program[f].callbacks[i], <<f, i>>)

\* registerFunctionSignatures: an annotation, or nothing.
InitialRow(f) == IF program[f].annotated THEN Declared(program[f].declared, <<f, 0>>) ELSE Empty

Init ==
    /\ program \in Programs
    /\ mode = "relaxed" /\ next = 1 /\ changed = FALSE
    /\ row = [f \in DOMAIN program |-> InitialRow(f)]
    /\ untyped = {f \in DOMAIN program : program[f].inferred}
    /\ effects = [f \in DOMAIN program |-> [n \in DOMAIN Body(f) |-> Empty]]
    /\ recorded = <<>>
    /\ instances = {} /\ frames = <<>>

-----------------------------------------------------------------------------
(* Expressions.                                                            *)

\* The row of an argument: a lambda of this body, or a callback of the caller.
ArgumentRow(f, a) == IF a.kind = "lambda" THEN effects[f][a.at] ELSE CallbackRow(f, a.at)

\* specializeCallEffectRow.
CallRow(f, n) ==
    LET g    == Body(f)[n].fn
        args == Body(f)[n].args
        of(i) == Bindings(ArgumentRow(f, args[i]), CallbackRow(g, i), <<f, n, i>>)
    IN  IF ~IsOpen(row[g]) THEN row[g]
        ELSE Apply(row[g], MergeAll([i \in DOMAIN args |->
                 IF Fits(ArgumentRow(f, args[i]), CallbackRow(g, i)) THEN of(i) ELSE <<>>]))

\* typeEffectHandlerExpr: what the continuation of a clause may still do, and
\* what is left of the body's row, where an operation that its own clause
\* performs again is kept.
Drop(r, ops) == [r EXCEPT !.ops = @ \ ops]
Handled(try) == {try.clauses[i].op : i \in DOMAIN try.clauses}
Resumed(f, try) == Drop(effects[f][try.body], Handled(try))
Reraised(f, try) ==
    {op \in Op : \E i \in DOMAIN try.clauses :
        try.clauses[i].op = op /\ op \in effects[f][try.clauses[i].body].ops}
Remaining(f, try) ==
    Drop(effects[f][try.body],
         {op \in Op : \E i \in DOMAIN try.clauses :
             try.clauses[i].op = op /\ op \notin effects[f][try.clauses[i].body].ops})
\* Mutant: what the clauses do is forgotten.
TryRowOfBody(f, try) == Remaining(f, try)
TryRow(f, try) ==
    Compose(Remaining(f, try),
            ComposeAll([i \in DOMAIN try.clauses |-> effects[f][try.clauses[i].body]]))

\* What an expression does, from the rows of its operands and of the function it calls.
Contribution(f, n) ==
    LET e == Body(f)[n]
    IN  CASE e.kind = "perform" -> [ops |-> {e.op}, tail |-> NoTail]
          [] e.kind = "invoke"  -> CallbackRow(f, e.callback)
          [] e.kind = "call"    -> CallRow(f, n)
          [] e.kind = "block"   -> ComposeAll([i \in DOMAIN e.of |-> effects[f][e.of[i]]])
          [] e.kind = "resume"  -> Resumed(f, Body(f)[e.try])
          [] e.kind = "try"     -> TryRow(f, e)

\* The diagnostics of validateCallArgs and of a handler that does not handle everything.
Refused(f, n) ==
    LET e == Body(f)[n]
    IN  \/ /\ e.kind = "call"
           /\ \E i \in DOMAIN e.args : ~Fits(ArgumentRow(f, e.args[i]), CallbackRow(e.fn, i))
        \/ /\ e.kind = "try" /\ ~e.open
           /\ ~IsOpen(Remaining(f, e))
           /\ Remaining(f, e).ops \ Reraised(f, e) # {}

-----------------------------------------------------------------------------
(* Typing the body of one function.                                        *)

Top == Last(frames)
Working == mode \in {"relaxed", "strict"}
Frame(f) == [fn |-> f, at |-> 1]
InferredRow(f) == effects[f][Len(Body(f))]
Accepted(f) == program[f].annotated => Admits(row[f], InferredRow(f))

\* emitDiagnostic throws, and what was reported fails the compilation.
Reject == /\ mode' = "rejected" /\ frames' = <<>>
          /\ UNCHANGED <<program, next, changed, row, untyped, effects, recorded, instances>>

\* typeGenericFunctionBody is called, unless the instance is cached or active.
Enters(f, n) ==
    LET e == Body(f)[n]
    IN  /\ e.kind = "call" /\ program[e.fn].generic
        /\ e.fn \notin instances /\ \A i \in DOMAIN frames : frames[i].fn # e.fn
Advanced == [frames EXCEPT ![Len(frames)].at = @ + 1]

\* typeExpression and setExprEffect, which composes with what earlier passes
\* found.  A call takes its callee's row before the body of a generic callee
\* is typed.
TypeExpression ==
    /\ Working /\ frames # <<>> /\ Top.at <= Len(Body(Top.fn))
    /\ IF Refused(Top.fn, Top.at) THEN Reject
       ELSE /\ \E found \in {Contribution(Top.fn, Top.at)} :
                 effects' = [effects EXCEPT ![Top.fn][Top.at] = Compose(@, found)]
            /\ frames' = IF Enters(Top.fn, Top.at) THEN Append(Advanced, Frame(Body(Top.fn)[Top.at].fn))
                         ELSE Advanced
            /\ UNCHANGED <<program, mode, next, changed, row, untyped, recorded, instances>>

\* The end of a body: the annotation is checked, or the row inferred.
BodyTyped(f) == frames # <<>> /\ Working /\ Top = [fn |-> f, at |-> Len(Body(f)) + 1]
NewRow(f) == IF program[f].annotated THEN row[f] ELSE InferredRow(f)
Record(f) ==
    recorded' = IF mode = "strict" /\ f \notin DOMAIN recorded
                THEN [g \in DOMAIN recorded \cup {f} |-> IF g = f THEN NewRow(f) ELSE recorded[g]]
                ELSE recorded

\* Mutant: a return type is found again in every pass.
ReturnFoundAgain(f) == program[f].inferred /\ program[f].from \cap untyped = {}

\* The return type of f is found: what it takes it from is known.
ReturnFound(f) == f \in untyped /\ program[f].from \cap untyped = {}

\* typeFunction.
EndFunction(f) ==
    /\ BodyTyped(f) /\ ~program[f].generic
    /\ IF ~Accepted(f) THEN Reject
       ELSE /\ row' = [row EXCEPT ![f] = NewRow(f)]
            /\ changed' = (changed \/ NewRow(f) # row[f] \/ ReturnFound(f))
            /\ untyped' = untyped \ {g \in {f} : ReturnFound(g)}
            /\ Record(f)
            /\ frames' = Front(frames) /\ next' = next + 1
            /\ UNCHANGED <<program, mode, effects, instances>>

\* typeGenericFunctionBody: the new row is not reported as a change of the pass.
EndGeneric(f) ==
    /\ BodyTyped(f) /\ program[f].generic
    /\ IF ~Accepted(f) THEN Reject
       ELSE /\ row' = [row EXCEPT ![f] = NewRow(f)]
            /\ instances' = instances \cup {f}
            /\ Record(f)
            /\ frames' = Front(frames)
            /\ UNCHANGED <<program, mode, next, changed, untyped, effects>>

-----------------------------------------------------------------------------
(* Passes.                                                                 *)

\* typeAllFunctions leaves generic functions to their callers.
BeginFunction ==
    /\ Working /\ frames = <<>> /\ next <= Len(program)
    /\ IF program[next].generic THEN next' = next + 1 /\ frames' = frames
       ELSE next' = next /\ frames' = <<Frame(next)>>
    /\ UNCHANGED <<program, mode, changed, row, untyped, effects, recorded, instances>>

PassEnds(m) == mode = m /\ frames = <<>> /\ next = Len(program) + 1

NewPass == next' = 1 /\ changed' = FALSE /\ instances' = {}

\* Mutant: one relaxed pass.
EndOnlyRelaxedPass ==
    /\ PassEnds("relaxed")
    /\ NewPass /\ mode' = "strict"
    /\ UNCHANGED <<program, row, untyped, effects, recorded, frames>>

\* runInferencePass repeats while something changed; runStrictTypeCheck follows.
EndRelaxedPass ==
    /\ PassEnds("relaxed")
    /\ NewPass /\ mode' = IF changed THEN "relaxed" ELSE "strict"
    /\ UNCHANGED <<program, row, untyped, effects, recorded, frames>>

\* requireInferredReturnTypes.
EndStrictPass ==
    /\ PassEnds("strict")
    /\ mode' = IF untyped = {} THEN "done" ELSE "rejected"
    /\ UNCHANGED <<program, next, changed, row, untyped, effects, recorded, instances, frames>>

EndBody == \E f \in DOMAIN program : EndFunction(f) \/ EndGeneric(f)
Next == BeginFunction \/ TypeExpression \/ EndBody \/ EndRelaxedPass \/ EndStrictPass
Spec == Init /\ [][Next]_vars
FairSpec == Spec /\ WF_vars(Next)

-----------------------------------------------------------------------------
(* What a program performs, independently of passes and tails: the least   *)
(* relation between a function, with what its callbacks perform, and the   *)
(* operations that leave it.                                               *)

Situation == UNION {{<<f, does>> : does \in [DOMAIN program[f].callbacks -> SUBSET Op]} : f \in DOMAIN program}
OpsOf(relation, f, does) == {o \in Op : <<<<f, does>>, o>> \in relation}

\* The operations of expression n of f.
Performs(relation, f, does, n) ==
    LET ops[m \in DOMAIN Body(f)] ==
            LET e == Body(f)[m]
                argument(a) == IF a.kind = "lambda" THEN ops[a.at] ELSE does[a.at]
            IN  CASE e.kind = "perform" -> {e.op}
                  [] e.kind = "invoke"  -> does[e.callback]
                  [] e.kind = "call"    -> OpsOf(relation, e.fn, [i \in DOMAIN e.args |-> argument(e.args[i])])
                  [] e.kind = "block"   -> UNION {ops[e.of[i]] : i \in DOMAIN e.of}
                  [] e.kind = "resume"  -> ops[Body(f)[e.try].body] \ Handled(Body(f)[e.try])
                  [] e.kind = "try"     -> (ops[e.body] \ Handled(e))
                                           \cup UNION {ops[e.clauses[i].body] : i \in DOMAIN e.clauses}
    IN  ops[n]
BodyPerforms(relation, f, does) == Performs(relation, f, does, Len(Body(f)))

Performed ==
    LET round[k \in 0 .. Cardinality(Situation)] ==
            IF k = 0 THEN {}
            ELSE LET before == round[k - 1]
                 IN  {x \in Situation \X Op :
                        x[2] \in IF program[x[1][1]].annotated THEN program[x[1][1]].declared.ops
                                 ELSE BodyPerforms(before, x[1][1], x[1][2])}
    IN  round[Cardinality(Situation)]

-----------------------------------------------------------------------------
(* Properties.                                                             *)

Expression == UNION {{<<f, n>> : n \in DOMAIN Body(f)} : f \in DOMAIN program}

TypeOK ==
    /\ mode \in {"relaxed", "strict", "done", "rejected"}
    /\ next \in 1 .. Len(program) + 1 /\ changed \in BOOLEAN
    /\ row \in [DOMAIN program -> Row]
    /\ untyped \subseteq DOMAIN program
    /\ \A e \in Expression : effects[e[1]][e[2]] \in Row
    /\ DOMAIN recorded \subseteq DOMAIN program
    /\ \A f \in DOMAIN recorded : recorded[f] \in Row
    /\ instances \subseteq {f \in DOMAIN program : program[f].generic}
    /\ \A i \in DOMAIN frames : /\ frames[i].fn \in DOMAIN program
                                /\ frames[i].at \in 1 .. Len(Body(frames[i].fn)) + 1

GenericFree == \A f \in DOMAIN program : ~program[f].generic

\* Typing f again would find nothing new: every expression has what it contributes.
Settled(f, n) == /\ Compose(effects[f][n], Contribution(f, n)) = effects[f][n]
                 /\ ~Refused(f, n)
Solved(f) == /\ \A n \in DOMAIN Body(f) : Settled(f, n)
             /\ row[f] = NewRow(f) /\ Accepted(f)

\* The rows that code generation reads solve all effect equations of the module at
\* once, although every function was typed while those after it could still change,
\* and although the table keeps what earlier passes put into it.  (Not so with
\* generic functions: see AnnotationsHold.)
RowsSolve ==
    mode = "done" /\ GenericFree =>
        \A f \in DOMAIN program : Solved(f) /\ f \in DOMAIN recorded /\ recorded[f] = row[f]

FirstOrder == \A f \in DOMAIN program : program[f].callbacks = <<>> /\ ~program[f].declared.open
NoCallbacks == <<>>
Right(relation, f) ==
    /\ program[f].annotated => BodyPerforms(relation, f, NoCallbacks) \subseteq program[f].declared.ops
    /\ \A n \in DOMAIN Body(f) :
         Body(f)[n].kind = "try" /\ ~Body(f)[n].open =>
             Performs(relation, f, NoCallbacks, Body(f)[n].body) \subseteq Handled(Body(f)[n])

\* Without callbacks no row claims what is not performed.  Without generic functions
\* either, the verdict does not depend on the order of the functions or the number of
\* passes: what is accepted is right and has exactly the rows it performs, and what is
\* rejected is wrong or has a return type that nothing determines.
VerdictRight ==
    ~Working /\ FirstOrder =>
        LET performed == Performed
            Does(f) == OpsOf(performed, f, NoCallbacks)
        IN  /\ mode = "done" =>
                 /\ \A f \in DOMAIN program : row[f].ops \subseteq Does(f) /\ ~IsOpen(row[f])
                 /\ GenericFree =>
                      \A f \in DOMAIN program : Right(performed, f) /\ Does(f) \subseteq row[f].ops
            /\ mode = "rejected" /\ untyped = {} => \E f \in DOMAIN program : ~Right(performed, f)

\* Functions that only call their callback or pass it on, an open one unchanged.
Simple ==
    /\ GenericFree
    /\ \A f \in DOMAIN program :
         /\ ~program[f].declared.open
         /\ program[f].callbacks # <<>> =>
              /\ Len(program[f].callbacks) = 1 /\ ~program[f].annotated
              /\ \A n \in DOMAIN Body(f) :
                   /\ Body(f)[n].kind # "try"
                   /\ Body(f)[n].kind = "call" =>
                        \A i \in DOMAIN Body(f)[n].args :
                            /\ Body(f)[n].args[i].kind = "own"
                            /\ program[f].callbacks[1].open =>
                                 program[Body(f)[n].fn].callbacks[i] = program[f].callbacks[1]

\* The row of a function covers what it performs whatever its callback performs.
CallbacksCovered ==
    mode = "done" /\ Simple =>
        LET performed == Performed
            Allowed(f, does) == \A i \in DOMAIN does :
                program[f].callbacks[i].open \/ does[i] \subseteq program[f].callbacks[i].ops
            OfTail(f, does) == UNION {does[i] : i \in {j \in DOMAIN does : row[f].tail = <<f, j>>}}
        IN  \A p \in Situation :
                Allowed(p[1], p[2]) => OpsOf(performed, p[1], p[2]) \subseteq row[p[1]].ops \cup OfTail(p[1], p[2])

\* A function that is annotated with a closed row performs nothing else.
AnnotationsHold ==
    mode = "done" =>
        LET performed == Performed
        IN  \A f \in DOMAIN program :
                program[f].annotated /\ ~program[f].declared.open /\ program[f].callbacks = <<>>
                => BodyPerforms(performed, f, NoCallbacks) \subseteq program[f].declared.ops

\* The passes come to an end.
InferenceEnds == <>(mode \in {"done", "rejected"})
=============================================================================
