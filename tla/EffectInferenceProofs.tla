------------------------ MODULE EffectInferenceProofs ------------------------
(* For every program, whatever its length and its bodies: the rows that     *)
(* inference keeps are rows; those that are recorded for a program without  *)
(* generic functions solve its effect equations; what is accepted keeps its *)
(* annotations and what is rejected breaks one; and the row of a function   *)
(* covers what it does with its callback.                                   *)
EXTENDS EffectInference, SequenceFacts, FiniteSetTheorems

-----------------------------------------------------------------------------
(* Rows and expressions.                                                   *)

\* Composing twice with a row is composing once with it.
LEMMA ComposeAbsorbs ==
    ASSUME NEW a, NEW b
    PROVE  Compose(Compose(a, b), b) = Compose(a, b)
<1>1. (a.ops \cup b.ops) \cup b.ops = a.ops \cup b.ops
  OBVIOUS
<1> QED BY <1>1 DEF Compose, IsOpen

\* What the assumption says of one program.
LEMMA Ordered ==
    ASSUME program \in Programs, NEW f \in DOMAIN program
    PROVE  /\ Len(program) \in Nat /\ DOMAIN program = 1 .. Len(program)
           /\ Len(Body(f)) \in Nat \ {0} /\ DOMAIN Body(f) = 1 .. Len(Body(f))
           /\ \A n \in DOMAIN Body(f) :
                /\ Operands(Body(f), n) \subseteq 1 .. n - 1
                /\ Body(f)[n].kind = "call" => Body(f)[n].fn \in DOMAIN program
BY ProgramsAreOrdered DEF Body

\* The rows of the operands, and what an expression computes from them, stay as they
\* are while the signatures and the rows of the operands do.
LEMMA ArgumentsKept ==
    ASSUME NEW f, NEW n,
           UNCHANGED <<program, row>>,
           Body(f)[n].kind = "call",
           \A m \in Operands(Body(f), n) : effects'[f][m] = effects[f][m],
           NEW i \in DOMAIN Body(f)[n].args
    PROVE  ArgumentRow(f, Body(f)[n].args[i])' = ArgumentRow(f, Body(f)[n].args[i])
<1> DEFINE a == Body(f)[n].args[i]
<1>1. CASE a.kind = "lambda"
  <2>1. a.at \in Operands(Body(f), n)
    BY <1>1 DEF Operands
  <2> QED BY <1>1, <2>1 DEF ArgumentRow, Body
<1>2. CASE a.kind # "lambda"
  BY <1>2 DEF ArgumentRow, CallbackRow, Body
<1> QED BY <1>1, <1>2

LEMMA CallKept ==
    ASSUME NEW f, NEW n,
           UNCHANGED <<program, row>>,
           Body(f)[n].kind = "call",
           \A m \in Operands(Body(f), n) : effects'[f][m] = effects[f][m]
    PROVE  CallRow(f, n)' = CallRow(f, n)
<1> DEFINE g == Body(f)[n].fn
           args == Body(f)[n].args
           Bound(i) == Bindings(ArgumentRow(f, args[i]), CallbackRow(g, i), <<f, n, i>>)
           list == [i \in DOMAIN args |->
                       IF Fits(ArgumentRow(f, args[i]), CallbackRow(g, i)) THEN Bound(i) ELSE <<>>]
<1>1. Body(f)' = Body(f) /\ g' = g /\ args' = args /\ row' = row
  BY DEF Body
<1>2. \A i \in DOMAIN args : ArgumentRow(f, args[i])' = ArgumentRow(f, args[i])
  BY ArgumentsKept
<1>3. \A i : CallbackRow(g, i)' = CallbackRow(g, i)
  BY <1>1 DEF CallbackRow
<1>4. list' = list
  BY <1>1, <1>2, <1>3
<1> HIDE DEF list
<1>5. CallRow(f, n) = IF ~IsOpen(row[g]) THEN row[g] ELSE Apply(row[g], MergeAll(list))
  BY DEF CallRow, list
<1> QED BY <1>1, <1>4, <1>5 DEF CallRow, list

LEMMA TryKept ==
    ASSUME NEW f, NEW n,
           UNCHANGED <<program, row>>,
           Body(f)[n].kind = "try",
           \A m \in Operands(Body(f), n) : effects'[f][m] = effects[f][m]
    PROVE  /\ TryRow(f, Body(f)[n])' = TryRow(f, Body(f)[n])
           /\ Remaining(f, Body(f)[n])' = Remaining(f, Body(f)[n])
           /\ Reraised(f, Body(f)[n])' = Reraised(f, Body(f)[n])
<1> DEFINE try == Body(f)[n]
           list == [i \in DOMAIN try.clauses |-> effects[f][try.clauses[i].body]]
<1>1. Operands(Body(f), n) = {try.body} \cup {try.clauses[i].body : i \in DOMAIN try.clauses}
  BY DEF Operands
<1>2. Body(f)' = Body(f) /\ try' = try
  BY DEF Body
<1>3. effects'[f][try.body] = effects[f][try.body]
  BY <1>1
<1>4. \A i \in DOMAIN try.clauses : effects'[f][try.clauses[i].body] = effects[f][try.clauses[i].body]
  BY <1>1
<1>5. list' = list
  BY <1>2, <1>4
<1>6. Reraised(f, try)' = Reraised(f, try)
  BY <1>2, <1>4 DEF Reraised
<1>7. {op \in Op : \E i \in DOMAIN try.clauses :
          try.clauses[i].op = op /\ op \notin effects[f][try.clauses[i].body].ops}'
      = {op \in Op : \E i \in DOMAIN try.clauses :
          try.clauses[i].op = op /\ op \notin effects[f][try.clauses[i].body].ops}
  BY <1>2, <1>4
<1>8. Remaining(f, try)' = Remaining(f, try)
  BY <1>2, <1>3, <1>7 DEF Remaining
<1> HIDE DEF list
<1>9. TryRow(f, try) = Compose(Remaining(f, try), ComposeAll(list))
  BY DEF TryRow, list
<1>10. TryRow(f, try)' = Compose(Remaining(f, try)', ComposeAll(list)')
  BY DEF TryRow, list
<1> QED BY <1>5, <1>6, <1>8, <1>9, <1>10

LEMMA ContributionKept ==
    ASSUME NEW f, NEW n,
           UNCHANGED <<program, row>>,
           \A m \in Operands(Body(f), n) : effects'[f][m] = effects[f][m]
    PROVE  Contribution(f, n)' = Contribution(f, n) /\ Refused(f, n)' = Refused(f, n)
<1> DEFINE e == Body(f)[n]
<1>1. Body(f)' = Body(f) /\ e' = e
  BY DEF Body
<1>2. CASE e.kind = "call"
  <2>1. Contribution(f, n)' = Contribution(f, n)
    BY <1>1, <1>2, CallKept DEF Contribution
  <2>2. \A i \in DOMAIN e.args : ArgumentRow(f, e.args[i])' = ArgumentRow(f, e.args[i])
    BY <1>2, ArgumentsKept
  <2>3. \A i : CallbackRow(e.fn, i)' = CallbackRow(e.fn, i)
    BY <1>1 DEF CallbackRow
  <2> QED BY <1>1, <1>2, <2>1, <2>2, <2>3 DEF Refused
<1>3. CASE e.kind = "try"
  BY <1>1, <1>3, TryKept DEF Contribution, Refused
<1>4. CASE e.kind = "block"
  <2> DEFINE list == [i \in DOMAIN e.of |-> effects[f][e.of[i]]]
  <2>1. \A i \in DOMAIN e.of : effects'[f][e.of[i]] = effects[f][e.of[i]]
    BY <1>4 DEF Operands
  <2>2. list' = list
    BY <1>1, <2>1
  <2> HIDE DEF list
  <2>3. Contribution(f, n) = ComposeAll(list) /\ Contribution(f, n)' = ComposeAll(list)'
    BY <1>1, <1>4 DEF Contribution, list
  <2> QED BY <1>1, <1>4, <2>2, <2>3 DEF Refused
<1>5. CASE e.kind = "resume"
  <2>1. effects'[f][Body(f)[e.try].body] = effects[f][Body(f)[e.try].body]
    BY <1>5 DEF Operands
  <2> QED BY <1>1, <1>5, <2>1 DEF Contribution, Refused, Resumed
<1>6. CASE e.kind = "perform" \/ e.kind = "invoke"
  BY <1>1, <1>6 DEF Contribution, Refused, CallbackRow
<1>7. CASE e.kind \notin {"call", "try", "block", "resume", "perform", "invoke"}
  BY <1>1, <1>7 DEF Contribution, Refused
<1> QED BY <1>2, <1>3, <1>4, <1>5, <1>6, <1>7

\* An expression stays settled while its row, and those of its operands, do.
LEMMA SettledKept ==
    ASSUME NEW f, NEW n,
           UNCHANGED <<program, row>>,
           effects'[f][n] = effects[f][n],
           \A m \in Operands(Body(f), n) : effects'[f][m] = effects[f][m],
           Settled(f, n)
    PROVE  Settled(f, n)'
BY ContributionKept DEF Settled

-----------------------------------------------------------------------------
(* The invariant of the equations.                                         *)

\* The state has the shape of the program.
Shape ==
    /\ program \in Programs
    /\ mode \in {"relaxed", "strict", "done", "rejected"}
    /\ next \in Nat \ {0}
    /\ row = [f \in DOMAIN program |-> row[f]]
    /\ effects = [f \in DOMAIN program |-> [n \in DOMAIN Body(f) |-> effects[f][n]]]

\* The frame of the function next, with a as the expression that is typed next.
At(a) == next \in DOMAIN program /\ a \in 1 .. Len(Body(next)) + 1
         /\ frames = <<[fn |-> next, at |-> a]>>
OneFrame ==
    /\ next \in 1 .. Len(program) + 1
    /\ frames = <<>> \/ \E a \in Nat : At(a)

\* Expression n of f was typed in this pass.
TypedNow(f, n) == f < next \/ (frames # <<>> /\ f = next /\ n < frames[1].at)

\* A pass that has changed nothing leaves what it has typed settled; the strict pass
\* finds everything settled, and records it.
RelaxedSettles ==
    mode = "relaxed" =>
        /\ DOMAIN recorded = {}
        /\ ~changed =>
             /\ \A f \in DOMAIN program : \A n \in DOMAIN Body(f) : TypedNow(f, n) => Settled(f, n)
             /\ \A f \in DOMAIN program : f < next => row[f] = NewRow(f) /\ Accepted(f)
StrictRecords ==
    mode = "strict" =>
        /\ \A f \in DOMAIN program : Solved(f)
        /\ DOMAIN recorded = 1 .. next - 1
        /\ \A f \in DOMAIN recorded : recorded[f] = row[f]

Solves ==
    /\ Shape
    /\ GenericFree => OneFrame /\ RelaxedSettles /\ StrictRecords /\ RowsSolve

LEMMA SolvesInit == Init => Solves
<1> SUFFICES ASSUME Init PROVE Solves
  OBVIOUS
<1>1. Len(program) \in Nat /\ DOMAIN program = 1 .. Len(program)
  BY ProgramsAreOrdered DEF Init
<1>2. row = [f \in DOMAIN program |-> row[f]]
  BY DEF Init
<1>3. effects = [f \in DOMAIN program |-> [n \in DOMAIN Body(f) |-> effects[f][n]]]
  BY DEF Init
<1>4. Shape
  BY <1>1, <1>2, <1>3 DEF Init, Shape
<1>5. OneFrame /\ StrictRecords /\ RowsSolve
  BY DEF Init, OneFrame, StrictRecords, RowsSolve
<1>6. DOMAIN recorded = {}
  BY DEF Init
<1>7. \A f \in DOMAIN program : ~(f < next)
  BY <1>1 DEF Init
<1>8. \A f \in DOMAIN program : \A n \in DOMAIN Body(f) : ~TypedNow(f, n)
  BY <1>7 DEF Init, TypedNow
<1> QED BY <1>4, <1>5, <1>6, <1>7, <1>8 DEF Solves, RelaxedSettles

-----------------------------------------------------------------------------
(* Steps that leave rows and expressions as they are.                      *)

LEMMA SolvedKept ==
    ASSUME UNCHANGED <<program, row, effects>>, NEW f \in DOMAIN program
    PROVE  /\ \A n \in DOMAIN Body(f) : Settled(f, n)' <=> Settled(f, n)
           /\ NewRow(f)' = NewRow(f) /\ Accepted(f)' = Accepted(f)
           /\ Solved(f)' <=> Solved(f)
<1>1. Body(f)' = Body(f) /\ InferredRow(f)' = InferredRow(f)
  BY DEF Body, InferredRow
<1>2. NewRow(f)' = NewRow(f) /\ Accepted(f)' = Accepted(f)
  BY <1>1 DEF NewRow, Accepted
<1>3. ASSUME NEW n \in DOMAIN Body(f) PROVE Settled(f, n)' <=> Settled(f, n)
  BY ContributionKept DEF Settled
<1> QED BY <1>1, <1>2, <1>3 DEF Solved

LEMMA StepBegins == Solves /\ BeginFunction => Solves'
<1> SUFFICES ASSUME Solves, BeginFunction PROVE Solves'
  OBVIOUS
<1> USE DEF BeginFunction
<1>1. program' = program /\ row' = row /\ effects' = effects /\ mode' = mode
      /\ changed' = changed /\ recorded' = recorded
  OBVIOUS
<1>2. Len(program) \in Nat /\ DOMAIN program = 1 .. Len(program)
  BY ProgramsAreOrdered DEF Solves, Shape
<1>3. next \in DOMAIN program /\ next \in Nat
  BY <1>2 DEF Solves, Shape
<1>4. next' \in 1 .. Len(program) + 1
  BY <1>2, <1>3
<1>5. Shape'
  BY <1>1, <1>4 DEF Solves, Shape, Body
<1> SUFFICES ASSUME GenericFree' PROVE OneFrame' /\ RelaxedSettles' /\ StrictRecords' /\ RowsSolve'
  BY <1>5 DEF Solves
<1>6. GenericFree
  BY <1>1 DEF GenericFree
<1>7. next' = next /\ frames = <<>> /\ frames' = <<[fn |-> next, at |-> 1]>>
  BY <1>3, <1>6 DEF GenericFree, Frame
<1>8. OneFrame'
  <2>1. Len(Body(next)) \in Nat
    BY <1>3, Ordered DEF Solves, Shape
  <2>2. At(1)'
    BY <1>1, <1>3, <1>7, <2>1 DEF At, Body
  <2> QED BY <1>1, <1>4, <2>2 DEF OneFrame
<1>9. \A f \in DOMAIN program : \A n \in DOMAIN Body(f) : TypedNow(f, n)' => TypedNow(f, n)
  <2> SUFFICES ASSUME NEW f \in DOMAIN program, NEW n \in DOMAIN Body(f), TypedNow(f, n)'
               PROVE  TypedNow(f, n)
    OBVIOUS
  <2>1. n \in 1 .. Len(Body(f)) /\ Len(Body(f)) \in Nat
    BY Ordered DEF Solves, Shape
  <2>2. ~(n < frames'[1].at)
    BY <1>7, <2>1
  <2> QED BY <1>7, <2>2 DEF TypedNow
<1>10. \A f : Body(f)' = Body(f)
  BY <1>1 DEF Body
<1>11. RelaxedSettles'
  BY <1>1, <1>6, <1>7, <1>9, <1>10, SolvedKept DEF Solves, RelaxedSettles
<1>12. StrictRecords'
  BY <1>1, <1>6, <1>7, SolvedKept DEF Solves, StrictRecords
<1>13. RowsSolve'
  BY <1>1 DEF RowsSolve, Working
<1> QED BY <1>8, <1>11, <1>12, <1>13

LEMMA StepEndsRelaxedPass == Solves /\ EndRelaxedPass => Solves'
<1> SUFFICES ASSUME Solves, EndRelaxedPass PROVE Solves'
  OBVIOUS
<1> USE DEF EndRelaxedPass, PassEnds, NewPass
<1>1. /\ UNCHANGED <<program, row, effects, recorded>>
      /\ mode = "relaxed" /\ frames = <<>> /\ frames' = <<>>
      /\ next = Len(program) + 1 /\ next' = 1 /\ changed' = FALSE
      /\ mode' = IF changed THEN "relaxed" ELSE "strict"
  OBVIOUS
<1>2. Len(program) \in Nat /\ DOMAIN program = 1 .. Len(program)
  BY ProgramsAreOrdered DEF Solves, Shape
<1>3. Shape'
  BY <1>1, <1>2 DEF Solves, Shape, Body
<1> SUFFICES ASSUME GenericFree' PROVE OneFrame' /\ RelaxedSettles' /\ StrictRecords' /\ RowsSolve'
  BY <1>3 DEF Solves
<1>4. RelaxedSettles /\ OneFrame'
  BY <1>1 DEF Solves, GenericFree, OneFrame
<1>5. DOMAIN recorded' = {}
  BY <1>1, <1>4 DEF RelaxedSettles
<1>6. \A f \in DOMAIN program : ~(f < next')
  BY <1>1, <1>2
<1>7. RelaxedSettles'
  BY <1>1, <1>5, <1>6 DEF RelaxedSettles, TypedNow, Body
<1>8. ~changed => \A f \in DOMAIN program : Solved(f)
  <2> SUFFICES ASSUME ~changed, NEW f \in DOMAIN program PROVE Solved(f)
    OBVIOUS
  <2>1. f < next
    BY <1>1, <1>2
  <2>2. \A n \in DOMAIN Body(f) : Settled(f, n)
    BY <1>1, <1>4, <2>1 DEF RelaxedSettles, TypedNow
  <2>3. row[f] = NewRow(f) /\ Accepted(f)
    BY <1>1, <1>4, <2>1 DEF RelaxedSettles
  <2> QED BY <2>2, <2>3 DEF Solved
<1>9. StrictRecords'
  BY <1>1, <1>5, <1>8, SolvedKept DEF StrictRecords
<1>10. RowsSolve'
  BY <1>1 DEF RowsSolve
<1> QED BY <1>4, <1>7, <1>9, <1>10

LEMMA StepEndsStrictPass == Solves /\ EndStrictPass => Solves'
<1> SUFFICES ASSUME Solves, EndStrictPass PROVE Solves'
  OBVIOUS
<1> USE DEF EndStrictPass, PassEnds
<1>1. /\ UNCHANGED <<program, row, effects, recorded, next, frames>>
      /\ mode = "strict" /\ next = Len(program) + 1 /\ mode' \in {"done", "rejected"}
  OBVIOUS
<1>2. Len(program) \in Nat /\ DOMAIN program = 1 .. Len(program)
  BY ProgramsAreOrdered DEF Solves, Shape
<1>3. Shape'
  BY <1>1 DEF Solves, Shape, Body
<1> SUFFICES ASSUME GenericFree' PROVE OneFrame' /\ RelaxedSettles' /\ StrictRecords' /\ RowsSolve'
  BY <1>3 DEF Solves
<1>4. StrictRecords /\ OneFrame
  BY <1>1 DEF Solves, GenericFree
<1>5. OneFrame'
  BY <1>1, <1>4 DEF OneFrame, At, Body
<1>6. RelaxedSettles' /\ StrictRecords'
  BY <1>1 DEF RelaxedSettles, StrictRecords
<1>7. \A f \in DOMAIN program : Solved(f) /\ f \in DOMAIN recorded /\ recorded[f] = row[f]
  BY <1>1, <1>2, <1>4 DEF StrictRecords
<1>8. RowsSolve'
  BY <1>1, <1>7, SolvedKept DEF RowsSolve
<1> QED BY <1>5, <1>6, <1>8

\* A rejected program has no rows that matter.
LEMMA StepRejects == Solves /\ Reject => Solves'
<1> SUFFICES ASSUME Solves, Reject PROVE Solves'
  OBVIOUS
<1>1. Shape'
  BY DEF Reject, Solves, Shape, Body
<1>2. RelaxedSettles' /\ StrictRecords' /\ RowsSolve'
  BY DEF Reject, RelaxedSettles, StrictRecords, RowsSolve
<1>3. GenericFree' => OneFrame'
  BY DEF Reject, Solves, GenericFree, OneFrame
<1> QED BY <1>1, <1>2, <1>3 DEF Solves

-----------------------------------------------------------------------------
(* Typing an expression.                                                   *)

LEMMA StepTypes == Solves /\ TypeExpression => Solves'
<1> SUFFICES ASSUME Solves, TypeExpression PROVE Solves'
  OBVIOUS
<1> DEFINE g == Top.fn
           k == Top.at
<1>1. CASE Refused(g, k)
  BY <1>1, StepRejects DEF TypeExpression
<1> SUFFICES ASSUME ~Refused(g, k) PROVE Solves'
  BY <1>1
<1>2. /\ UNCHANGED <<program, mode, next, changed, row, recorded>>
      /\ Working /\ frames # <<>> /\ k <= Len(Body(g))
      /\ effects' = [effects EXCEPT ![g][k] = Compose(@, Contribution(g, k))]
      /\ frames' = IF Enters(g, k) THEN Append(Advanced, Frame(Body(g)[k].fn)) ELSE Advanced
  BY DEF TypeExpression
<1> HIDE DEF g, k
<1>3. \A f : Body(f)' = Body(f)
  BY <1>2 DEF Body
<1>4. \A f \in DOMAIN program : DOMAIN effects[f] = DOMAIN Body(f)
  BY DEF Solves, Shape
<1>5. Shape'
  <2>1. effects' = [f \in DOMAIN program' |-> [n \in DOMAIN Body(f)' |-> effects'[f][n]]]
    BY <1>2, <1>3 DEF Solves, Shape
  <2> QED BY <1>2, <1>3, <2>1 DEF Solves, Shape
<1> SUFFICES ASSUME GenericFree' PROVE OneFrame' /\ RelaxedSettles' /\ StrictRecords' /\ RowsSolve'
  BY <1>5 DEF Solves
<1>6. GenericFree
  BY <1>2 DEF GenericFree
<1>7. /\ g = next /\ k \in 1 .. Len(Body(next)) + 1 /\ next \in DOMAIN program
      /\ frames = <<[fn |-> next, at |-> k]>>
  <2>1. PICK a \in Nat : At(a)
    BY <1>2, <1>6 DEF Solves, OneFrame
  <2>2. Top = [fn |-> next, at |-> a]
    BY <2>1 DEF At, Top, Last
  <2> QED BY <2>1, <2>2 DEF At, g, k
<1>8. Len(Body(g)) \in Nat /\ DOMAIN Body(g) = 1 .. Len(Body(g)) /\ k \in DOMAIN Body(g)
  BY <1>2, <1>7, Ordered DEF Solves, Shape
<1>9. ~Enters(g, k)
  BY <1>6, <1>7, <1>8, Ordered DEF Enters, GenericFree, Solves, Shape
<1>10. frames' = <<[fn |-> next, at |-> k + 1]>>
  BY <1>2, <1>7, <1>8, <1>9 DEF Advanced
<1>11. OneFrame'
  <2>1. PICK m \in Nat : m = k + 1 /\ m \in 1 .. Len(Body(next)) + 1
    BY <1>7, <1>8
  <2>2. At(m)'
    BY <1>2, <1>7, <1>10, <2>1 DEF At, Body
  <2>3. next' \in 1 .. Len(program') + 1
    BY <1>2, <1>6 DEF Solves, OneFrame
  <2> QED BY <2>1, <2>2, <2>3 DEF OneFrame
<1>12. \A f \in DOMAIN program : \A n \in DOMAIN Body(f) :
          (f # g \/ n # k) => effects'[f][n] = effects[f][n]
  BY <1>2, <1>4 DEF Solves, Shape
<1>13. effects'[g][k] = Compose(effects[g][k], Contribution(g, k))
  BY <1>2, <1>4, <1>7, <1>8 DEF Solves, Shape
<1>14. RowsSolve'
  BY <1>2 DEF RowsSolve, Working
<1>15. StrictRecords'
  <2> SUFFICES ASSUME mode = "strict" PROVE StrictRecords'
    BY <1>2 DEF StrictRecords
  <2>1. StrictRecords /\ Solved(g)
    BY <1>6, <1>7 DEF Solves, StrictRecords
  <2>2. effects'[g][k] = effects[g][k]
    BY <1>8, <1>13, <2>1 DEF Solved, Settled
  <2>3. effects' = effects
    <3>1. \A f \in DOMAIN program : \A n \in DOMAIN Body(f) : effects'[f][n] = effects[f][n]
      BY <1>12, <2>2
    <3>2. effects = [f \in DOMAIN program |-> [n \in DOMAIN Body(f) |-> effects[f][n]]]
      BY DEF Solves, Shape
    <3>3. effects' = [f \in DOMAIN program |-> [n \in DOMAIN Body(f) |-> effects'[f][n]]]
      BY <1>2, <1>3, <1>5 DEF Shape
    <3>4. \A f \in DOMAIN program :
             [n \in DOMAIN Body(f) |-> effects'[f][n]] = [n \in DOMAIN Body(f) |-> effects[f][n]]
      BY <3>1
    <3>5. [f \in DOMAIN program |-> [n \in DOMAIN Body(f) |-> effects'[f][n]]]
          = [f \in DOMAIN program |-> [n \in DOMAIN Body(f) |-> effects[f][n]]]
      BY <3>4
    <3> QED BY <3>2, <3>3, <3>5
  <2> QED BY <1>2, <2>1, <2>3, SolvedKept DEF StrictRecords
<1>16. RelaxedSettles'
  <2> SUFFICES ASSUME mode = "relaxed" PROVE RelaxedSettles'
    BY <1>2 DEF RelaxedSettles
  <2>1. DOMAIN recorded' = {} /\ RelaxedSettles
    BY <1>2, <1>6 DEF Solves, RelaxedSettles
  <2> SUFFICES ASSUME ~changed
               PROVE  /\ \A f \in DOMAIN program : \A n \in DOMAIN Body(f) :
                             TypedNow(f, n)' => Settled(f, n)'
                      /\ \A f \in DOMAIN program : f < next =>
                             row[f] = NewRow(f)' /\ Accepted(f)'
    BY <1>2, <1>3, <2>1 DEF RelaxedSettles
  <2>2. ASSUME NEW f \in DOMAIN program, NEW n \in DOMAIN Body(f), TypedNow(f, n)'
        PROVE  Settled(f, n)'
    <3>1. n \in 1 .. Len(Body(f)) /\ Len(Body(f)) \in Nat /\ f \in Nat /\ next \in Nat
          /\ Operands(Body(f), n) \subseteq 1 .. n - 1
      BY Ordered DEF Solves, Shape
    <3>2. Operands(Body(f), n) \subseteq DOMAIN Body(f) /\ n \notin Operands(Body(f), n)
      BY <3>1, Ordered DEF Solves, Shape
    <3>3. f < next \/ (f = g /\ n <= k)
      BY <1>2, <1>7, <1>8, <1>10, <2>2, <3>1 DEF TypedNow
    <3>4. k \notin Operands(Body(f), n) \/ f # g
      BY <1>7, <3>1, <3>3
    <3>5. \A m \in Operands(Body(f), n) : effects'[f][m] = effects[f][m]
      BY <1>12, <3>2, <3>4
    <3>6. CASE f = g /\ n = k
      <4>1. Contribution(f, n)' = Contribution(f, n) /\ Refused(f, n)' = Refused(f, n)
        BY <1>2, <3>5, ContributionKept
      <4>2. Compose(effects'[f][n], Contribution(f, n)) = effects'[f][n]
        BY <1>13, <3>6, ComposeAbsorbs
      <4> QED BY <3>6, <4>1, <4>2 DEF Settled
    <3>7. CASE ~(f = g /\ n = k)
      <4>1. Settled(f, n)
        BY <1>2, <1>7, <1>8, <2>1, <3>1, <3>3, <3>7 DEF RelaxedSettles, TypedNow
      <4>2. effects'[f][n] = effects[f][n]
        BY <1>12, <3>7
      <4> QED BY <1>2, <3>5, <4>1, <4>2, SettledKept
    <3> QED BY <3>6, <3>7
  <2>3. ASSUME NEW f \in DOMAIN program, f < next
        PROVE  row[f] = NewRow(f)' /\ Accepted(f)'
    <3>1. f # g /\ Len(Body(f)) \in DOMAIN Body(f)
      BY <1>7, <2>3, Ordered DEF Solves, Shape
    <3>2. InferredRow(f)' = InferredRow(f)
      BY <1>3, <1>12, <3>1 DEF InferredRow
    <3>3. row[f] = NewRow(f) /\ Accepted(f)
      BY <2>1, <2>3, <1>2 DEF RelaxedSettles
    <3> QED BY <1>2, <3>2, <3>3 DEF NewRow, Accepted
  <2> QED BY <2>2, <2>3
<1> QED BY <1>11, <1>14, <1>15, <1>16

-----------------------------------------------------------------------------
(* The end of a body.                                                      *)

LEMMA StepEnds == Solves /\ EndBody => Solves'
<1> SUFFICES ASSUME Solves, NEW f \in DOMAIN program, EndFunction(f) \/ EndGeneric(f) PROVE Solves'
  BY DEF EndBody
<1>1. CASE ~Accepted(f)
  BY <1>1, StepRejects DEF EndFunction, EndGeneric
<1> SUFFICES ASSUME Accepted(f) PROVE Solves'
  BY <1>1
<1>2. /\ UNCHANGED <<program, mode, effects>>
      /\ BodyTyped(f)
      /\ row' = [row EXCEPT ![f] = NewRow(f)]
      /\ Record(f)
      /\ frames' = Front(frames)
      /\ next' = next \/ (~program[f].generic /\ next' = next + 1)
  BY DEF EndFunction, EndGeneric
<1>3. Len(program) \in Nat /\ DOMAIN program = 1 .. Len(program) /\ next \in Nat
  BY ProgramsAreOrdered DEF Solves, Shape
<1>4. \A h : Body(h)' = Body(h)
  BY <1>2 DEF Body
<1>5. row' = [h \in DOMAIN program' |-> row'[h]]
  BY <1>2 DEF Solves, Shape
<1>6. effects' = [h \in DOMAIN program' |-> [n \in DOMAIN Body(h)' |-> effects'[h][n]]]
  BY <1>2, <1>4 DEF Solves, Shape
<1>7. Shape'
  BY <1>2, <1>3, <1>5, <1>6 DEF Solves, Shape
<1> SUFFICES ASSUME GenericFree' PROVE OneFrame' /\ RelaxedSettles' /\ StrictRecords' /\ RowsSolve'
  BY <1>7 DEF Solves
<1>8. GenericFree
  BY <1>2 DEF GenericFree
<1>9. /\ next' = next + 1
      /\ changed' = (changed \/ NewRow(f) # row[f] \/ ReturnFound(f))
      /\ Working
  BY <1>8 DEF EndFunction, EndGeneric, GenericFree, BodyTyped
<1>10. /\ f = next /\ frames # <<>>
       /\ frames = <<[fn |-> next, at |-> Len(Body(next)) + 1]>>
  <2>1. PICK a \in Nat : At(a)
    BY <1>2, <1>8 DEF Solves, OneFrame, BodyTyped
  <2>2. Top = [fn |-> next, at |-> a] /\ Top = [fn |-> f, at |-> Len(Body(f)) + 1]
    BY <1>2, <2>1 DEF At, Top, Last, BodyTyped
  <2>3. next = f /\ a = Len(Body(f)) + 1
    BY <2>2
  <2> QED BY <2>1, <2>3 DEF At
<1>11. frames' = <<>>
  BY <1>2, <1>10 DEF Front
<1>12. OneFrame'
  BY <1>2, <1>3, <1>9, <1>10, <1>11 DEF OneFrame
<1>13. RowsSolve'
  BY <1>2, <1>9 DEF RowsSolve, Working
<1>14. row'[f] = NewRow(f)
  BY <1>2 DEF Solves, Shape
<1>15. NewRow(f) = row[f] => row' = row
  BY <1>2, <1>5 DEF Solves, Shape
<1>16. StrictRecords'
  <2> SUFFICES ASSUME mode = "strict" PROVE StrictRecords'
    BY <1>2 DEF StrictRecords
  <2>1. StrictRecords
    BY <1>8 DEF Solves
  <2>2. NewRow(f) = row[f]
    BY <2>1 DEF StrictRecords, Solved
  <2>3. row' = row
    BY <1>15, <2>2
  <2>4. DOMAIN recorded = 1 .. next - 1 /\ f \notin DOMAIN recorded
    BY <1>3, <1>10, <2>1 DEF StrictRecords
  <2>5. recorded' = [h \in DOMAIN recorded \cup {f} |-> IF h = f THEN NewRow(f) ELSE recorded[h]]
    BY <1>2, <2>4 DEF Record
  <2>6. DOMAIN recorded' = 1 .. next' - 1
    <3>1. next \in 1 .. next
      BY <1>3, <1>10
    <3> QED BY <1>3, <1>9, <1>10, <2>4, <2>5, <3>1
  <2>7. \A h \in DOMAIN recorded' : recorded'[h] = row'[h]
    BY <2>1, <2>2, <2>3, <2>5 DEF StrictRecords
  <2>8. \A h \in DOMAIN program : Solved(h)'
    BY <1>2, <2>1, <2>3, SolvedKept DEF StrictRecords
  <2> QED BY <1>2, <2>6, <2>7, <2>8 DEF StrictRecords
<1>17. RelaxedSettles'
  <2> SUFFICES ASSUME mode = "relaxed" PROVE RelaxedSettles'
    BY <1>2 DEF RelaxedSettles
  <2>1. RelaxedSettles
    BY <1>8 DEF Solves
  <2>2. DOMAIN recorded' = {}
    BY <1>2, <2>1 DEF Record, RelaxedSettles
  <2> SUFFICES ASSUME ~changed'
               PROVE  /\ \A h \in DOMAIN program : \A n \in DOMAIN Body(h) :
                             TypedNow(h, n)' => Settled(h, n)'
                      /\ \A h \in DOMAIN program : h < next' =>
                             row'[h] = NewRow(h)' /\ Accepted(h)'
    BY <1>2, <1>4, <2>2 DEF RelaxedSettles
  <2>3. ~changed /\ NewRow(f) = row[f]
    BY <1>9
  <2>4. row' = row
    BY <1>15, <2>3
  <2>5. ASSUME NEW h \in DOMAIN program, NEW n \in DOMAIN Body(h), TypedNow(h, n)'
        PROVE  Settled(h, n)'
    <3>1. n \in 1 .. Len(Body(h)) /\ Len(Body(h)) \in Nat
      BY Ordered DEF Solves, Shape
    <3>2. h < next + 1
      BY <1>9, <1>11, <2>5 DEF TypedNow
    <3>3. TypedNow(h, n)
      BY <1>3, <1>10, <3>1, <3>2 DEF TypedNow
    <3> QED BY <1>2, <2>1, <2>3, <2>4, <3>3, SolvedKept DEF RelaxedSettles
  <2>6. ASSUME NEW h \in DOMAIN program, h < next'
        PROVE  row'[h] = NewRow(h)' /\ Accepted(h)'
    <3>1. row[h] = NewRow(h) /\ Accepted(h)
      BY <1>3, <1>9, <1>10, <2>1, <2>3, <2>6 DEF RelaxedSettles
    <3> QED BY <1>2, <2>4, <3>1, SolvedKept
  <2> QED BY <2>5, <2>6
<1> QED BY <1>12, <1>13, <1>16, <1>17

-----------------------------------------------------------------------------
(* Recorded rows solve the equations.                                      *)

LEMMA StepStutters == Solves /\ UNCHANGED vars => Solves'
<1> SUFFICES ASSUME Solves, UNCHANGED vars PROVE Solves'
  OBVIOUS
<1>1. \A f : Body(f)' = Body(f)
  BY DEF vars, Body
<1>2. Shape'
  BY <1>1 DEF Solves, Shape, vars
<1> SUFFICES ASSUME GenericFree' PROVE OneFrame' /\ RelaxedSettles' /\ StrictRecords' /\ RowsSolve'
  BY <1>2 DEF Solves
<1>3. OneFrame /\ RelaxedSettles /\ StrictRecords /\ RowsSolve /\ GenericFree
  BY DEF Solves, GenericFree, vars
<1>4. OneFrame'
  BY <1>1, <1>3 DEF OneFrame, At, vars
<1>5. \A f \in DOMAIN program : \A n \in DOMAIN Body(f) : TypedNow(f, n)' <=> TypedNow(f, n)
  BY DEF TypedNow, vars
<1>6. RelaxedSettles'
  BY <1>1, <1>3, <1>5, SolvedKept DEF RelaxedSettles, vars
<1>7. StrictRecords' /\ RowsSolve'
  BY <1>3, SolvedKept DEF StrictRecords, RowsSolve, vars
<1> QED BY <1>4, <1>6, <1>7

\* The rows that are recorded for a program without generic functions solve the effect
\* equations of all its functions at once: inference.ts ends its passes at a fixed point.
THEOREM RowsAlwaysSolve == Spec => []RowsSolve
<1>1. Init => Solves
  BY SolvesInit
<1>2. Solves /\ [Next]_vars => Solves'
  BY StepBegins, StepTypes, StepEnds, StepEndsRelaxedPass, StepEndsStrictPass, StepStutters DEF Next
<1>3. Solves => RowsSolve
  BY DEF Solves, RowsSolve
<1> QED BY <1>1, <1>2, <1>3, PTL DEF Spec

-----------------------------------------------------------------------------
(* Types.                                                                  *)

LEMMA ComposeRow ==
    ASSUME NEW a \in Row, NEW b \in Row
    PROVE  Compose(a, b) \in Row
BY DEF Compose, Row, IsOpen

LEMMA EmptyRow == Empty \in Row
<1>1. NoTail \in Seq(Nat)
  BY DEF NoTail
<1> QED BY <1>1 DEF Empty, Row

\* ComposeAll goes through the list.
LEMMA ComposeAllIs ==
    ASSUME NEW rows, IsList(rows), \A i \in DOMAIN rows : rows[i] \in Row
    PROVE  \E h \in [0 .. Len(rows) -> Row] :
              /\ h[0] = Empty
              /\ \A i \in 1 .. Len(rows) : h[i] = Compose(h[i - 1], rows[i])
              /\ ComposeAll(rows) = h[Len(rows)]
<1> DEFINE n == Len(rows)
           Loop(h) == h = [i \in 0 .. n |-> IF i = 0 THEN Empty ELSE Compose(h[i - 1], rows[i])]
           f == [i \in 1 .. n |-> [x \in Row |-> Compose(x, rows[i])]]
           c == CHOOSE h : Loop(h)
<1>1. n \in Nat /\ DOMAIN rows = 1 .. n
  BY DEF IsList
<1>2. ComposeAll(rows) = c[n]
  BY DEF ComposeAll
<1>3. f \in [1 .. n -> [Row -> Row]]
  BY <1>1, ComposeRow
<1>4. PICK h : Looping(h, n, Row, Empty, f)
  <2> HIDE DEF f, n
  <2> QED BY <1>1, <1>3, EmptyRow, LoopExists, Zenon
<1>5. \A i \in 1 .. n : i - 1 \in 0 .. n /\ f[i][h[i - 1]] = Compose(h[i - 1], rows[i])
  <2>1. h \in [0 .. n -> Row]
    BY <1>4 DEF Looping
  <2> QED BY <1>1, <2>1
<1>6. Loop(h)
  <2>1. \A i \in 0 .. n : i = 0 \/ i \in 1 .. n
    BY <1>1
  <2>2. h = [i \in 0 .. n |-> IF i = 0 THEN Empty ELSE f[i][h[i - 1]]]
    BY <1>4 DEF Looping
  <2> HIDE DEF f, n
  <2> QED BY <1>5, <2>1, <2>2
<1>7. Loop(c)
  <2> HIDE DEF Loop
  <2> QED BY <1>6
<1> HIDE DEF c, n
<1>8. /\ c[0] = Empty /\ \A i \in 1 .. n : c[i] = Compose(c[i - 1], rows[i])
      /\ c = [i \in 0 .. n |-> c[i]]
  BY <1>1, <1>7
<1>9. \A i \in 0 .. n : c[i] \in Row
  <2> DEFINE S == {i \in Nat : c[i] \in Row}
  <2>1. 0 \in S
    BY <1>8, EmptyRow
  <2>2. ASSUME NEW i \in 1 .. n, i - 1 \in S PROVE i \in S
    <3>1. c[i] = Compose(c[i - 1], rows[i]) /\ c[i - 1] \in Row /\ rows[i] \in Row /\ i \in Nat
      BY <1>1, <1>8, <2>2
    <3> QED BY <3>1, ComposeRow
  <2> HIDE DEF S
  <2>3. 0 .. n \subseteq S
    BY <1>1, <2>1, <2>2, UpTo
  <2> QED BY <2>3 DEF S
<1> QED BY <1>2, <1>8, <1>9 DEF n

\* A function on the places of a list is a list.
LEMMA ListOver ==
    ASSUME NEW of, IsList(of), NEW S, NEW list \in [DOMAIN of -> S]
    PROVE  IsList(list) /\ DOMAIN list = DOMAIN of /\ \A i \in DOMAIN list : list[i] \in S
<1>1. list \in Seq(S)
  BY DEF IsList
<1> QED BY <1>1 DEF IsList

LEMMA ComposeAllRow ==
    ASSUME NEW rows, IsList(rows), \A i \in DOMAIN rows : rows[i] \in Row
    PROVE  ComposeAll(rows) \in Row
BY ComposeAllIs DEF IsList

\* What all of the rows do.
LEMMA ComposeAllOps ==
    ASSUME NEW rows, IsList(rows), \A i \in DOMAIN rows : rows[i] \in Row
    PROVE  /\ ComposeAll(rows).ops = UNION {rows[i].ops : i \in DOMAIN rows}
           /\ (\A i \in DOMAIN rows : ~IsOpen(rows[i])) => ~IsOpen(ComposeAll(rows))
<1> DEFINE n == Len(rows)
<1>1. n \in Nat /\ DOMAIN rows = 1 .. n
  BY DEF IsList
<1>2. PICK h \in [0 .. n -> Row] :
          /\ h[0] = Empty
          /\ \A i \in 1 .. n : h[i] = Compose(h[i - 1], rows[i])
          /\ ComposeAll(rows) = h[n]
  BY ComposeAllIs
<1> HIDE DEF n
<1>3. \A i \in 0 .. n : h[i].ops = UNION {rows[j].ops : j \in 1 .. i}
  <2> DEFINE S == {i \in Nat : h[i].ops = UNION {rows[j].ops : j \in 1 .. i}}
  <2>1. 0 \in S
    BY <1>2 DEF Empty
  <2>2. ASSUME NEW i \in 1 .. n, i - 1 \in S PROVE i \in S
    <3>1. h[i] = Compose(h[i - 1], rows[i]) /\ i \in Nat
      BY <1>1, <1>2
    <3>2. h[i].ops = h[i - 1].ops \cup rows[i].ops
      BY <3>1 DEF Compose
    <3>3. h[i - 1].ops = UNION {rows[j].ops : j \in 1 .. i - 1}
      BY <2>2
    <3>4. 1 .. i = (1 .. i - 1) \cup {i}
      BY <1>1
    <3> DEFINE A == 1 .. i - 1
               B == 1 .. i
    <3>5. UNION {rows[j].ops : j \in B} = (UNION {rows[j].ops : j \in A}) \cup rows[i].ops
      <4>1. B = A \cup {i}
        BY <3>4
      <4> HIDE DEF A, B
      <4> QED BY <4>1, Zenon
    <3> QED BY <3>1, <3>2, <3>3, <3>5
  <2> HIDE DEF S
  <2>3. 0 .. n \subseteq S
    BY <1>1, <2>1, <2>2, UpTo
  <2> QED BY <2>3 DEF S
<1>4. ASSUME \A i \in 1 .. n : ~IsOpen(rows[i]) PROVE \A i \in 0 .. n : ~IsOpen(h[i])
  <2> DEFINE S == {i \in Nat : ~IsOpen(h[i])}
  <2>1. 0 \in S
    BY <1>2 DEF Empty, IsOpen
  <2>2. ASSUME NEW i \in 1 .. n, i - 1 \in S PROVE i \in S
    <3>1. h[i] = Compose(h[i - 1], rows[i]) /\ i \in Nat /\ ~IsOpen(h[i - 1]) /\ ~IsOpen(rows[i])
      BY <1>1, <1>2, <1>4, <2>2
    <3> QED BY <3>1 DEF Compose, IsOpen
  <2> HIDE DEF S
  <2>3. 0 .. n \subseteq S
    BY <1>1, <2>1, <2>2, UpTo
  <2> QED BY <2>3 DEF S
<1>5. n \in 0 .. n
  BY <1>1
<1>6. ComposeAll(rows).ops = UNION {rows[i].ops : i \in DOMAIN rows}
  <2>1. h[n].ops = UNION {rows[j].ops : j \in 1 .. n}
    BY <1>3, <1>5
  <2> QED BY <1>1, <1>2, <2>1, Zenon
<1> QED BY <1>1, <1>2, <1>4, <1>5, <1>6

-----------------------------------------------------------------------------
(* Substitutions.                                                          *)

Substitution == UNION {[d -> Row] : d \in SUBSET Seq(Nat)}

LEMMA SubstitutionIs ==
    ASSUME NEW s \in Substitution
    PROVE  /\ DOMAIN s \subseteq Seq(Nat) /\ s = [v \in DOMAIN s |-> s[v]]
           /\ \A v \in DOMAIN s : s[v] \in Row
BY DEF Substitution

LEMMA MergeSubstitution ==
    ASSUME NEW s \in Substitution, NEW t \in Substitution
    PROVE  Merge(s, t) \in Substitution
<1> DEFINE d == DOMAIN s \cup DOMAIN t
           e(v) == IF v \notin DOMAIN t THEN s[v] ELSE IF v \notin DOMAIN s THEN t[v]
                   ELSE Compose(s[v], t[v])
<1>1. d \in SUBSET Seq(Nat)
  BY SubstitutionIs
<1>2. ASSUME NEW v \in d PROVE e(v) \in Row
  BY SubstitutionIs, ComposeRow
<1>3. Merge(s, t) = [v \in d |-> e(v)]
  BY DEF Merge
<1> HIDE DEF d, e
<1>4. Merge(s, t) \in [d -> Row]
  BY <1>2, <1>3
<1> QED BY <1>1, <1>4 DEF Substitution

LEMMA NoSubstitution == <<>> \in Substitution
<1>1. <<>> \in [{} -> Row]
  OBVIOUS
<1> QED BY <1>1 DEF Substitution

LEMMA BindingsSubstitution ==
    ASSUME NEW a \in Row, NEW e \in Row, NEW fresh \in Seq(Nat)
    PROVE  Bindings(a, e, fresh) \in Substitution
<1> DEFINE missing == Lacking(a, e)
           extra == Lacking(e, a)
           shared == IsOpen(a) /\ IsOpen(e) /\ (missing # {} \/ extra # {})
           ofActual   == [ops |-> missing, tail |-> IF shared THEN fresh ELSE NoTail]
           ofExpected == [ops |-> extra, tail |-> IF shared THEN fresh ELSE a.tail]
           bound == (IF IsOpen(e) THEN {e.tail} ELSE {})
                    \cup IF IsOpen(a) /\ (shared \/ ~IsOpen(e)) THEN {a.tail} ELSE {}
<1>1. missing \subseteq Op /\ extra \subseteq Op /\ a.tail \in Seq(Nat) /\ e.tail \in Seq(Nat)
      /\ NoTail \in Seq(Nat)
  BY EmptyRow DEF Lacking, Row, Empty
<1> HIDE DEF missing, extra, shared
<1>2. ofActual \in Row /\ ofExpected \in Row
  BY <1>1 DEF Row
<1>3. bound \in SUBSET Seq(Nat)
  BY <1>1
<1>4. Bindings(a, e, fresh) = [t \in bound |-> IF t = e.tail THEN ofExpected ELSE ofActual]
  BY DEF Bindings, missing, extra, shared
<1> HIDE DEF bound, ofActual, ofExpected
<1>5. Bindings(a, e, fresh) \in [bound -> Row]
  BY <1>2, <1>4
<1> QED BY <1>3, <1>5 DEF Substitution

LEMMA MergeAllIs ==
    ASSUME NEW list, IsList(list), \A i \in DOMAIN list : list[i] \in Substitution
    PROVE  \E h \in [0 .. Len(list) -> Substitution] :
              /\ h[0] = <<>>
              /\ \A i \in 1 .. Len(list) : h[i] = Merge(h[i - 1], list[i])
              /\ MergeAll(list) = h[Len(list)]
<1> DEFINE n == Len(list)
           Loop(h) == h = [i \in 0 .. n |-> IF i = 0 THEN <<>> ELSE Merge(h[i - 1], list[i])]
           f == [i \in 1 .. n |-> [x \in Substitution |-> Merge(x, list[i])]]
           c == CHOOSE h : Loop(h)
<1>1. n \in Nat /\ DOMAIN list = 1 .. n
  BY DEF IsList
<1>2. MergeAll(list) = c[n]
  BY DEF MergeAll
<1>3. f \in [1 .. n -> [Substitution -> Substitution]]
  BY <1>1, MergeSubstitution
<1>4. PICK h : Looping(h, n, Substitution, <<>>, f)
  <2> HIDE DEF f, n
  <2> QED BY <1>1, <1>3, NoSubstitution, LoopExists, Zenon
<1>5. \A i \in 1 .. n : i - 1 \in 0 .. n /\ f[i][h[i - 1]] = Merge(h[i - 1], list[i])
  <2>1. h \in [0 .. n -> Substitution]
    BY <1>4 DEF Looping
  <2> QED BY <1>1, <2>1
<1>6. Loop(h)
  <2>1. \A i \in 0 .. n : i = 0 \/ i \in 1 .. n
    BY <1>1
  <2>2. h = [i \in 0 .. n |-> IF i = 0 THEN <<>> ELSE f[i][h[i - 1]]]
    BY <1>4 DEF Looping
  <2> HIDE DEF f, n
  <2> QED BY <1>5, <2>1, <2>2
<1>7. Loop(c)
  <2> HIDE DEF Loop
  <2> QED BY <1>6
<1> HIDE DEF c, n
<1>8. /\ c[0] = <<>> /\ \A i \in 1 .. n : c[i] = Merge(c[i - 1], list[i])
      /\ c = [i \in 0 .. n |-> c[i]]
  BY <1>1, <1>7
<1>9. \A i \in 0 .. n : c[i] \in Substitution
  <2> DEFINE S == {i \in Nat : c[i] \in Substitution}
  <2>1. 0 \in S
    BY <1>8, NoSubstitution
  <2>2. ASSUME NEW i \in 1 .. n, i - 1 \in S PROVE i \in S
    <3>1. c[i] = Merge(c[i - 1], list[i])
      BY <1>8
    <3>4. i \in Nat
      BY <1>1
    <3>2. c[i - 1] \in Substitution
      BY <2>2
    <3>3. list[i] \in Substitution
      BY <1>1
    <3> QED BY <3>1, <3>2, <3>3, <3>4, MergeSubstitution
  <2> HIDE DEF S
  <2>3. 0 .. n \subseteq S
    BY <1>1, <2>1, <2>2, UpTo
  <2> QED BY <2>3 DEF S
<1> QED BY <1>2, <1>8, <1>9 DEF n

LEMMA MergeAllSubstitution ==
    ASSUME NEW list, IsList(list), \A i \in DOMAIN list : list[i] \in Substitution
    PROVE  MergeAll(list) \in Substitution
BY MergeAllIs DEF IsList

LEMMA ApplyRow ==
    ASSUME NEW r \in Row, NEW s \in Substitution
    PROVE  Apply(r, s) \in Row
<1>1. ASSUME NEW x \in Row PROVE Replace(x, s) \in Row
  BY SubstitutionIs DEF Replace, Row
<1> QED BY <1>1 DEF Apply

-----------------------------------------------------------------------------
(* The rows of a state.                                                    *)

LEMMA DeclaredRow ==
    ASSUME NEW d, d.ops \subseteq Op, NEW f \in Nat, NEW i \in Nat
    PROVE  Declared(d, <<f, i>>) \in Row
<1>1. NoTail \in Seq(Nat) /\ <<f, i>> \in Seq(Nat)
  BY DEF NoTail
<1> QED BY <1>1 DEF Declared, Row

\* What the assumptions say of one program.
LEMMA Resolved ==
    ASSUME program \in Programs, NEW f \in DOMAIN program
    PROVE  /\ program[f].declared.ops \subseteq Op
           /\ IsList(program[f].callbacks)
           /\ \A i \in DOMAIN program[f].callbacks : program[f].callbacks[i].ops \subseteq Op
BY ProgramsAreResolved

LEMMA ResolvedBody ==
    ASSUME program \in Programs, NEW f \in DOMAIN program, NEW n \in DOMAIN Body(f)
    PROVE  /\ Body(f)[n].kind \in {"perform", "invoke", "call", "block", "resume", "try"}
           /\ Body(f)[n].kind = "perform" => Body(f)[n].op \in Op
           /\ Body(f)[n].kind = "invoke" => Body(f)[n].callback \in DOMAIN program[f].callbacks
           /\ Body(f)[n].kind = "block" => IsList(Body(f)[n].of)
           /\ Body(f)[n].kind = "resume" =>
                Body(f)[n].try \in DOMAIN Body(f) /\ Body(f)[Body(f)[n].try].kind = "try"
           /\ Body(f)[n].kind = "try" => IsList(Body(f)[n].clauses)
           /\ Body(f)[n].kind = "call" =>
                /\ IsList(Body(f)[n].args)
                /\ DOMAIN Body(f)[n].args = DOMAIN program[Body(f)[n].fn].callbacks
                /\ \A i \in DOMAIN Body(f)[n].args :
                     \/ Body(f)[n].args[i].kind = "lambda"
                     \/ Body(f)[n].args[i].at \in DOMAIN program[f].callbacks
BY ProgramsAreResolved DEF Body

LEMMA CallbackRowIsRow ==
    ASSUME program \in Programs, NEW f \in DOMAIN program, NEW i \in DOMAIN program[f].callbacks
    PROVE  CallbackRow(f, i) \in Row
<1>1. f \in Nat /\ i \in Nat
  BY Ordered, Resolved DEF IsList
<1>2. program[f].callbacks[i].ops \subseteq Op
  BY Resolved
<1> QED BY <1>1, <1>2, DeclaredRow DEF CallbackRow

LEMMA InitialRowIsRow ==
    ASSUME program \in Programs, NEW f \in DOMAIN program
    PROVE  InitialRow(f) \in Row
<1>1. f \in Nat /\ 0 \in Nat /\ program[f].declared.ops \subseteq Op
  BY Ordered, Resolved
<1>2. Declared(program[f].declared, <<f, 0>>) \in Row
  BY <1>1, DeclaredRow
<1> QED BY <1>2, EmptyRow DEF InitialRow

\* Rows are kept for the functions and the expressions of the program.
RowsKept ==
    /\ program \in Programs
    /\ row \in [DOMAIN program -> Row]
    /\ \A f \in DOMAIN program : \A n \in DOMAIN Body(f) : effects[f][n] \in Row

LEMMA ArgumentRowIsRow ==
    ASSUME RowsKept, NEW f \in DOMAIN program, NEW n \in DOMAIN Body(f),
           Body(f)[n].kind = "call", NEW i \in DOMAIN Body(f)[n].args
    PROVE  ArgumentRow(f, Body(f)[n].args[i]) \in Row
<1> DEFINE a == Body(f)[n].args[i]
<1>1. CASE a.kind = "lambda"
  <2>1. a.at \in Operands(Body(f), n)
    BY <1>1 DEF Operands
  <2>2. a.at \in DOMAIN Body(f)
    BY <2>1, Ordered DEF RowsKept
  <2> QED BY <1>1, <2>2 DEF ArgumentRow, RowsKept
<1>2. CASE a.kind # "lambda"
  <2>1. a.at \in DOMAIN program[f].callbacks
    BY <1>2, ResolvedBody DEF RowsKept
  <2> QED BY <1>2, <2>1, CallbackRowIsRow DEF ArgumentRow, RowsKept
<1> QED BY <1>1, <1>2

LEMMA CallRowIsRow ==
    ASSUME RowsKept, NEW f \in DOMAIN program, NEW n \in DOMAIN Body(f), Body(f)[n].kind = "call"
    PROVE  CallRow(f, n) \in Row
<1> DEFINE g == Body(f)[n].fn
           args == Body(f)[n].args
           Bound(i) == Bindings(ArgumentRow(f, args[i]), CallbackRow(g, i), <<f, n, i>>)
           list == [i \in DOMAIN args |->
                       IF Fits(ArgumentRow(f, args[i]), CallbackRow(g, i)) THEN Bound(i) ELSE <<>>]
<1>1. program \in Programs /\ g \in DOMAIN program /\ row[g] \in Row /\ f \in Nat /\ n \in Nat
  BY Ordered DEF RowsKept
<1>2. IsList(args) /\ DOMAIN args = DOMAIN program[g].callbacks
  BY ResolvedBody DEF RowsKept
<1>3. ASSUME NEW i \in DOMAIN args PROVE list[i] \in Substitution
  <2>1. ArgumentRow(f, args[i]) \in Row
    BY ArgumentRowIsRow
  <2>2. CallbackRow(g, i) \in Row
    BY <1>1, <1>2, CallbackRowIsRow
  <2>3. i \in Nat
    BY <1>2 DEF IsList
  <2>4. <<f, n, i>> \in Seq(Nat)
    BY <1>1, <2>3
  <2>5. Bound(i) \in Substitution
    BY <2>1, <2>2, <2>4, BindingsSubstitution
  <2> QED BY <2>5, NoSubstitution
<1>4. list \in [DOMAIN args -> Substitution]
  BY <1>3
<1>5. CallRow(f, n) = IF ~IsOpen(row[g]) THEN row[g] ELSE Apply(row[g], MergeAll(list))
  BY DEF CallRow
<1> HIDE DEF list
<1>6. IsList(list) /\ \A i \in DOMAIN list : list[i] \in Substitution
  BY <1>2, <1>4, ListOver
<1>7. MergeAll(list) \in Substitution
  BY <1>6, MergeAllSubstitution
<1> QED BY <1>1, <1>5, <1>7, ApplyRow

LEMMA DropRow ==
    ASSUME NEW r \in Row, NEW ops
    PROVE  Drop(r, ops) \in Row
BY DEF Drop, Row

LEMMA ContributionRow ==
    ASSUME RowsKept, NEW f \in DOMAIN program, NEW n \in DOMAIN Body(f)
    PROVE  Contribution(f, n) \in Row
<1> DEFINE e == Body(f)[n]
<1>1. program \in Programs /\ \A m \in Operands(Body(f), n) : m \in DOMAIN Body(f) /\ effects[f][m] \in Row
  BY Ordered DEF RowsKept
<1>2. e.kind \in {"perform", "invoke", "call", "block", "resume", "try"}
  BY <1>1, ResolvedBody
<1>3. CASE e.kind = "perform"
  <2>1. e.op \in Op /\ NoTail \in Seq(Nat)
    BY <1>1, <1>3, ResolvedBody DEF NoTail
  <2> QED BY <1>3, <2>1 DEF Contribution, Row
<1>4. CASE e.kind = "invoke"
  <2>1. CallbackRow(f, e.callback) \in Row
    BY <1>1, <1>4, ResolvedBody, CallbackRowIsRow
  <2> QED BY <1>4, <2>1 DEF Contribution
<1>5. CASE e.kind = "call"
  BY <1>5, CallRowIsRow DEF Contribution
<1>6. CASE e.kind = "block"
  <2>1. IsList(e.of) /\ \A i \in DOMAIN e.of : e.of[i] \in DOMAIN Body(f)
    BY <1>1, <1>6, ResolvedBody DEF Operands
  <2> DEFINE list == [i \in DOMAIN e.of |-> effects[f][e.of[i]]]
  <2>2. list \in [DOMAIN e.of -> Row]
    BY <2>1 DEF RowsKept
  <2> HIDE DEF list
  <2>3. ComposeAll(list) \in Row
    BY <2>1, <2>2, ListOver, ComposeAllRow
  <2> QED BY <1>6, <2>3 DEF Contribution, list
<1>7. CASE e.kind = "resume"
  <2>1. effects[f][Body(f)[e.try].body] \in Row
    BY <1>1, <1>7 DEF Operands
  <2>2. Resumed(f, Body(f)[e.try]) \in Row
    BY <2>1, DropRow DEF Resumed
  <2> QED BY <1>7, <2>2 DEF Contribution
<1>8. CASE e.kind = "try"
  <2>1. Operands(Body(f), n) = {e.body} \cup {e.clauses[i].body : i \in DOMAIN e.clauses}
    BY <1>8 DEF Operands
  <2>2. IsList(e.clauses) /\ \A i \in DOMAIN e.clauses : e.clauses[i].body \in DOMAIN Body(f)
    BY <1>1, <1>8, <2>1, ResolvedBody
  <2> DEFINE list == [i \in DOMAIN e.clauses |-> effects[f][e.clauses[i].body]]
  <2>3. list \in [DOMAIN e.clauses -> Row]
    BY <2>2 DEF RowsKept
  <2> HIDE DEF list
  <2>6. ComposeAll(list) \in Row
    BY <2>2, <2>3, ListOver, ComposeAllRow
  <2>4. Remaining(f, e) \in Row
    BY <1>1, <2>1, DropRow DEF Remaining
  <2>5. TryRow(f, e) \in Row
    BY <2>4, <2>6, ComposeRow DEF TryRow, list
  <2> QED BY <1>8, <2>5 DEF Contribution
<1> QED BY <1>2, <1>3, <1>4, <1>5, <1>6, <1>7, <1>8

-----------------------------------------------------------------------------
(* The types of the rows.                                                  *)

\* Only the outermost body is of a function of the source order, and it is that of the
\* function next: the end of it is the end of its pass over one function.
Nested ==
    /\ frames \in Seq([fn : DOMAIN program, at : Nat])
    /\ frames # <<>> => next \in DOMAIN program
    /\ \A i \in DOMAIN frames : i # 1 => program[frames[i].fn].generic

RowTypes == Shape /\ TypeOK /\ Nested

LEMMA RowTypesKept == RowTypes => RowsKept
<1> SUFFICES ASSUME RowTypes, NEW f \in DOMAIN program, NEW n \in DOMAIN Body(f)
             PROVE  effects[f][n] \in Row
  BY DEF RowTypes, RowsKept, Shape, TypeOK
<1>1. <<f, n>> \in Expression
  BY DEF Expression
<1>2. <<f, n>>[1] = f /\ <<f, n>>[2] = n
  OBVIOUS
<1> QED BY <1>1, <1>2 DEF RowTypes, TypeOK

\* The expressions are those of the bodies.
LEMMA ExpressionIs ==
    ASSUME NEW e \in Expression
    PROVE  e[1] \in DOMAIN program /\ e[2] \in DOMAIN Body(e[1])
BY DEF Expression

LEMMA TypesInit == Init => RowTypes
<1> SUFFICES ASSUME Init PROVE RowTypes
  OBVIOUS
<1>1. Shape
  BY SolvesInit DEF Solves
<1>2. Len(program) \in Nat /\ DOMAIN program = 1 .. Len(program) /\ program \in Programs
  BY ProgramsAreOrdered DEF Init
<1>3. row \in [DOMAIN program -> Row]
  BY <1>2, InitialRowIsRow DEF Init
<1>4. \A e \in Expression : effects[e[1]][e[2]] \in Row
  BY ExpressionIs, EmptyRow DEF Init
<1>5. DOMAIN recorded = {} /\ frames = <<>> /\ DOMAIN frames = {}
  BY DEF Init
<1>6. /\ mode \in {"relaxed", "strict", "done", "rejected"} /\ next \in 1 .. Len(program) + 1
  BY <1>2 DEF Init
<1>7. changed \in BOOLEAN
  BY DEF Init
<1>8. untyped \subseteq DOMAIN program /\ instances = {}
  BY DEF Init
<1>9. TypeOK
  BY <1>3, <1>4, <1>5, <1>6, <1>7, <1>8 DEF TypeOK
<1>10. Nested
  BY <1>5 DEF Nested
<1> QED BY <1>1, <1>9, <1>10 DEF RowTypes

\* The frame that is on top is that of a function of the program.
LEMMA TopFrame ==
    ASSUME RowTypes, frames # <<>>
    PROVE  /\ Len(frames) \in Nat \ {0} /\ Len(frames) \in DOMAIN frames
           /\ DOMAIN frames = 1 .. Len(frames)
           /\ Top = frames[Len(frames)] /\ Top.fn \in DOMAIN program
           /\ Top.at \in 1 .. Len(Body(Top.fn)) + 1
           /\ Front(frames) \in Seq([fn : DOMAIN program, at : Nat])
           /\ DOMAIN Front(frames) = 1 .. Len(frames) - 1
           /\ \A i \in 1 .. Len(frames) - 1 : Front(frames)[i] = frames[i]
<1> DEFINE F == [fn : DOMAIN program, at : Nat]
<1>1. frames \in Seq(F)
  BY DEF RowTypes, Nested
<1> HIDE DEF F
<1>2. Len(frames) \in Nat \ {0} /\ DOMAIN frames = 1 .. Len(frames) /\ Len(frames) \in DOMAIN frames
  BY <1>1
<1>3. Top = frames[Len(frames)]
  BY DEF Top, Last
<1>4. Top.fn \in DOMAIN program /\ Top.at \in 1 .. Len(Body(Top.fn)) + 1
  BY <1>2, <1>3 DEF RowTypes, TypeOK
<1>5. /\ Front(frames) \in Seq(F) /\ DOMAIN Front(frames) = 1 .. Len(frames) - 1
      /\ \A i \in 1 .. Len(frames) - 1 : Front(frames)[i] = frames[i]
  BY <1>1, <1>2 DEF Front
<1> QED BY <1>2, <1>3, <1>4, <1>5 DEF F

LEMMA TypesBegins == RowTypes /\ BeginFunction => RowTypes'
<1> SUFFICES ASSUME RowTypes, BeginFunction PROVE RowTypes'
  OBVIOUS
<1> USE DEF BeginFunction
<1>1. UNCHANGED <<program, mode, changed, row, untyped, effects, recorded, instances>> /\ frames = <<>>
  OBVIOUS
<1>2. Len(program) \in Nat /\ DOMAIN program = 1 .. Len(program) /\ next \in DOMAIN program
  BY ProgramsAreOrdered DEF RowTypes, Shape, TypeOK
<1>3. next' \in 1 .. Len(program) + 1 /\ \A f : Body(f)' = Body(f)
  BY <1>1, <1>2 DEF Body
<1>4. Shape'
  BY <1>1, <1>3 DEF RowTypes, Shape
<1>5. Expression' = Expression
  BY <1>1, <1>3 DEF Expression
<1>6. CASE program[next].generic
  BY <1>1, <1>2, <1>3, <1>4, <1>5, <1>6 DEF RowTypes, TypeOK, Nested
<1>7. CASE ~program[next].generic
  <2>1. next' = next /\ frames' = <<[fn |-> next, at |-> 1]>>
    BY <1>7 DEF Frame
  <2>2. DOMAIN frames' = {1} /\ frames'[1] = [fn |-> next, at |-> 1]
        /\ frames' \in Seq([fn : DOMAIN program, at : Nat])
    BY <1>2, <2>1
  <2>3. Nested'
    BY <1>1, <1>2, <2>1, <2>2 DEF Nested
  <2>4. 1 \in 1 .. Len(Body(next)) + 1
    BY <1>2, Ordered DEF RowTypes, Shape
  <2>5. TypeOK'
    BY <1>1, <1>2, <1>3, <1>5, <2>1, <2>2, <2>4 DEF RowTypes, TypeOK
  <2> QED BY <1>4, <2>3, <2>5 DEF RowTypes
<1> QED BY <1>6, <1>7

LEMMA TypesRejects == RowTypes /\ Reject => RowTypes'
<1> SUFFICES ASSUME RowTypes, Reject PROVE RowTypes'
  OBVIOUS
<1>1. UNCHANGED <<program, next, changed, row, untyped, effects, recorded, instances>>
      /\ mode' = "rejected" /\ frames' = <<>> /\ DOMAIN frames' = {} /\ \A f : Body(f)' = Body(f)
  BY DEF Reject, Body
<1>2. Expression' = Expression
  BY <1>1 DEF Expression
<1>3. Shape' /\ TypeOK'
  BY <1>1, <1>2 DEF RowTypes, Shape, TypeOK
<1>4. Nested'
  BY <1>1 DEF Nested
<1> QED BY <1>3, <1>4 DEF RowTypes

LEMMA TypesPasses == RowTypes /\ (EndRelaxedPass \/ EndStrictPass) => RowTypes'
<1> SUFFICES ASSUME RowTypes, EndRelaxedPass \/ EndStrictPass PROVE RowTypes'
  OBVIOUS
<1>1. UNCHANGED <<program, row, untyped, effects, recorded, frames>> /\ frames = <<>>
      /\ mode' \in {"relaxed", "strict", "done", "rejected"} /\ next' \in {1, next}
      /\ changed' \in {FALSE, changed} /\ instances' \in {{}, instances}
      /\ \A f : Body(f)' = Body(f)
  BY DEF EndRelaxedPass, EndStrictPass, PassEnds, NewPass, Body
<1>2. Expression' = Expression
  BY <1>1 DEF Expression
<1>3. next' \in 1 .. Len(program) + 1 /\ next' \in Nat \ {0}
  <2>1. Len(program) \in Nat /\ next \in 1 .. Len(program) + 1
    BY ProgramsAreOrdered DEF RowTypes, Shape, TypeOK
  <2> QED BY <1>1, <2>1
<1>4. Shape'
  BY <1>1, <1>3 DEF RowTypes, Shape
<1>5. changed' \in BOOLEAN /\ instances' \subseteq {f \in DOMAIN program : program[f].generic}
  BY <1>1 DEF RowTypes, TypeOK
<1>6. TypeOK'
  BY <1>1, <1>2, <1>3, <1>5 DEF RowTypes, TypeOK
<1>7. Nested'
  BY <1>1 DEF RowTypes, Nested
<1> QED BY <1>4, <1>6, <1>7 DEF RowTypes

LEMMA TypesTypes == RowTypes /\ TypeExpression => RowTypes'
<1> SUFFICES ASSUME RowTypes, TypeExpression PROVE RowTypes'
  OBVIOUS
<1> DEFINE g == Top.fn
           k == Top.at
<1>1. CASE Refused(g, k)
  BY <1>1, TypesRejects DEF TypeExpression
<1> SUFFICES ASSUME ~Refused(g, k) PROVE RowTypes'
  BY <1>1
<1>2. /\ UNCHANGED <<program, mode, next, changed, row, untyped, recorded, instances>>
      /\ frames # <<>> /\ k <= Len(Body(g))
      /\ effects' = [effects EXCEPT ![g][k] = Compose(@, Contribution(g, k))]
      /\ frames' = IF Enters(g, k) THEN Append(Advanced, Frame(Body(g)[k].fn)) ELSE Advanced
  BY DEF TypeExpression
<1>3. g \in DOMAIN program /\ k \in 1 .. Len(Body(g)) + 1 /\ program \in Programs
      /\ Top = frames[Len(frames)] /\ Len(frames) \in DOMAIN frames
      /\ DOMAIN frames = 1 .. Len(frames) /\ Len(frames) \in Nat
  BY <1>2, TopFrame DEF RowTypes, Shape
<1>4. k \in DOMAIN Body(g) /\ k \in Nat /\ Len(Body(g)) \in Nat
  BY <1>2, <1>3, Ordered
<1> DEFINE moved == [fn |-> g, at |-> k + 1]
<1>5. /\ Advanced \in Seq([fn : DOMAIN program, at : Nat])
      /\ DOMAIN Advanced = DOMAIN frames /\ Len(Advanced) = Len(frames)
      /\ Advanced[Len(frames)] = moved
      /\ \A i \in DOMAIN frames : i # Len(frames) => Advanced[i] = frames[i]
  <2> DEFINE F == [fn : DOMAIN program, at : Nat]
             z == Len(frames)
  <2>1. frames \in Seq(F)
    BY DEF RowTypes, Nested
  <2>2. Advanced = [frames EXCEPT ![z] = [frames[z] EXCEPT !.at = @ + 1]]
    BY DEF Advanced
  <2>3. \A i \in 1 .. z : frames[i] \in F
    <3> HIDE DEF F
    <3> QED BY <2>1
  <2>4. frames[z] \in F
    BY <1>3, <2>3
  <2>5. [frames[z] EXCEPT !.at = @ + 1] = moved
    BY <1>3, <2>4
  <2>6. moved \in F
    BY <1>3, <1>4
  <2> HIDE DEF moved, g, k, F
  <2>7. Advanced = [frames EXCEPT ![z] = moved]
    BY <2>2, <2>5
  <2>8. Advanced \in Seq(F) /\ Len(Advanced) = z
    BY <1>3, <2>1, <2>6, <2>7
  <2>9. /\ DOMAIN Advanced = DOMAIN frames /\ Advanced[z] = moved
        /\ \A i \in DOMAIN frames : i # z => Advanced[i] = frames[i]
    BY <1>3, <2>1, <2>7
  <2> QED BY <2>8, <2>9 DEF F
<1>6. \A f : Body(f)' = Body(f)
  BY <1>2 DEF Body
<1> HIDE DEF g, k
<1>7. effects' = [f \in DOMAIN program |-> [n \in DOMAIN Body(f) |->
          IF f = g /\ n = k THEN Compose(effects[g][k], Contribution(g, k)) ELSE effects[f][n]]]
  BY <1>2, <1>3, <1>4 DEF RowTypes, Shape
<1>8. Compose(effects[g][k], Contribution(g, k)) \in Row
  BY <1>3, <1>4, RowTypesKept, ContributionRow, ComposeRow DEF RowsKept
<1>9. \A f \in DOMAIN program : \A n \in DOMAIN Body(f) : effects'[f][n] \in Row
  BY <1>7, <1>8, RowTypesKept DEF RowsKept
<1>10. \A e \in Expression' : effects'[e[1]][e[2]] \in Row
  <2>1. Expression' = Expression
    BY <1>2, <1>6 DEF Expression
  <2> QED BY <1>9, <2>1, ExpressionIs
<1>11. Shape'
  <2>1. effects' = [f \in DOMAIN program' |-> [n \in DOMAIN Body(f)' |-> effects'[f][n]]]
    BY <1>2, <1>6, <1>7
  <2> QED BY <1>2, <1>6, <2>1 DEF RowTypes, Shape
<1>12. \A i \in DOMAIN Advanced : /\ Advanced[i].fn = frames[i].fn
                                  /\ Advanced[i].fn \in DOMAIN program
                                  /\ Advanced[i].at \in 1 .. Len(Body(Advanced[i].fn)) + 1
  <2> SUFFICES ASSUME NEW i \in DOMAIN Advanced
               PROVE  /\ Advanced[i].fn = frames[i].fn
                      /\ Advanced[i].fn \in DOMAIN program
                      /\ Advanced[i].at \in 1 .. Len(Body(Advanced[i].fn)) + 1
    OBVIOUS
  <2>1. CASE i = Len(frames)
    <3>1. Advanced[i].fn = g /\ Advanced[i].at = k + 1 /\ frames[i].fn = g
      BY <1>3, <1>5, <2>1 DEF g
    <3> QED BY <1>2, <1>3, <1>4, <3>1
  <2>2. CASE i # Len(frames)
    BY <1>5, <2>2 DEF RowTypes, TypeOK
  <2> QED BY <2>1, <2>2
<1>13. /\ frames' \in Seq([fn : DOMAIN program, at : Nat])
       /\ \A i \in DOMAIN frames' : /\ i # 1 => program[frames'[i].fn].generic
                                    /\ frames'[i].fn \in DOMAIN program
                                    /\ frames'[i].at \in 1 .. Len(Body(frames'[i].fn)) + 1
  <2>1. CASE ~Enters(g, k)
    BY <1>2, <1>5, <1>12, <2>1 DEF RowTypes, Nested
  <2>2. CASE Enters(g, k)
    <3> DEFINE h == Body(g)[k].fn
               entered == [fn |-> h, at |-> 1]
    <3>1. h \in DOMAIN program /\ program[h].generic
      BY <1>3, <1>4, <2>2, Ordered DEF Enters
    <3>2. 1 \in 1 .. Len(Body(h)) + 1
      BY <1>3, <3>1, Ordered
    <3>3. entered \in [fn : DOMAIN program, at : Nat] /\ entered.fn = h /\ entered.at = 1
      BY <3>1
    <3>4. frames' = Append(Advanced, entered)
      BY <1>2, <2>2 DEF Frame
    <3> HIDE DEF entered, h
    <3>5. /\ frames' \in Seq([fn : DOMAIN program, at : Nat])
          /\ DOMAIN frames' = 1 .. Len(frames) + 1 /\ frames'[Len(frames) + 1] = entered
          /\ \A i \in DOMAIN Advanced : frames'[i] = Advanced[i]
      BY <1>3, <1>5, <3>3, <3>4
    <3> SUFFICES ASSUME NEW i \in DOMAIN frames'
                 PROVE  /\ i # 1 => program[frames'[i].fn].generic
                        /\ frames'[i].fn \in DOMAIN program
                        /\ frames'[i].at \in 1 .. Len(Body(frames'[i].fn)) + 1
      BY <3>5
    <3>6. CASE i = Len(frames) + 1
      BY <3>1, <3>2, <3>3, <3>5, <3>6
    <3>7. CASE i \in DOMAIN Advanced
      BY <1>5, <1>12, <3>5, <3>7 DEF RowTypes, Nested
    <3> QED BY <1>3, <1>5, <3>5, <3>6, <3>7
  <2> QED BY <2>1, <2>2
<1>14. Nested'
  BY <1>2, <1>13 DEF RowTypes, Nested
<1>15. TypeOK'
  BY <1>2, <1>6, <1>10, <1>13 DEF RowTypes, TypeOK
<1> QED BY <1>11, <1>14, <1>15 DEF RowTypes

LEMMA TypesEnds == RowTypes /\ EndBody => RowTypes'
<1> SUFFICES ASSUME RowTypes, NEW f \in DOMAIN program, EndFunction(f) \/ EndGeneric(f)
             PROVE  RowTypes'
  BY DEF EndBody
<1>1. CASE ~Accepted(f)
  BY <1>1, TypesRejects DEF EndFunction, EndGeneric
<1> SUFFICES ASSUME Accepted(f) PROVE RowTypes'
  BY <1>1
<1>2. /\ UNCHANGED <<program, mode, effects>>
      /\ frames # <<>> /\ Top.fn = f
      /\ row' = [row EXCEPT ![f] = NewRow(f)]
      /\ Record(f)
      /\ frames' = Front(frames)
      /\ \/ program[f].generic /\ next' = next /\ UNCHANGED <<changed, untyped>>
            /\ instances' = instances \cup {f}
         \/ ~program[f].generic /\ next' = next + 1 /\ instances' = instances
            /\ changed' = (changed \/ NewRow(f) # row[f] \/ ReturnFound(f))
            /\ untyped' = untyped \ {g \in {f} : ReturnFound(g)}
  BY DEF EndFunction, EndGeneric, BodyTyped
<1>3. Len(program) \in Nat /\ DOMAIN program = 1 .. Len(program) /\ program \in Programs
  BY ProgramsAreOrdered DEF RowTypes, Shape
<1>4. \A h : Body(h)' = Body(h)
  BY <1>2 DEF Body
<1>5. Expression' = Expression
  BY <1>2, <1>4 DEF Expression
<1>6. NewRow(f) \in Row
  <2>1. Len(Body(f)) \in DOMAIN Body(f)
    BY <1>3, Ordered
  <2> QED BY <2>1, RowTypesKept DEF NewRow, InferredRow, RowsKept
<1>7. row' \in [DOMAIN program -> Row]
  BY <1>2, <1>6 DEF RowTypes, TypeOK
<1>8. DOMAIN recorded' \subseteq DOMAIN program /\ \A h \in DOMAIN recorded' : recorded'[h] \in Row
  <2>1. CASE recorded' = recorded
    BY <2>1 DEF RowTypes, TypeOK
  <2>2. CASE recorded' = [g \in DOMAIN recorded \cup {f} |-> IF g = f THEN NewRow(f) ELSE recorded[g]]
    BY <1>6, <2>2 DEF RowTypes, TypeOK
  <2> QED BY <1>2, <2>1, <2>2 DEF Record
<1>9. /\ frames' \in Seq([fn : DOMAIN program, at : Nat])
      /\ DOMAIN frames' \subseteq DOMAIN frames
      /\ \A i \in DOMAIN frames' : frames'[i] = frames[i]
  <2>1. \A i \in 1 .. Len(frames) - 1 : i \in 1 .. Len(frames)
    BY <1>2, TopFrame
  <2> QED BY <1>2, <2>1, TopFrame
<1>10. next' \in 1 .. Len(program) + 1 /\ (frames' # <<>> => next' \in DOMAIN program)
  <2>1. next \in DOMAIN program
    BY <1>2 DEF RowTypes, Nested
  <2>2. CASE program[f].generic
    BY <1>2, <1>3, <2>1, <2>2
  <2>3. CASE ~program[f].generic
    <3>1. Len(frames) = 1
      BY <1>2, <2>3, TopFrame DEF RowTypes, Nested
    <3>2. frames' = <<>>
      BY <1>2, <1>9, <3>1, TopFrame
    <3> QED BY <1>2, <1>3, <2>1, <2>3, <3>2
  <2> QED BY <2>2, <2>3
<1>11. changed' \in BOOLEAN /\ untyped' \subseteq DOMAIN program
       /\ instances' \subseteq {h \in DOMAIN program : program[h].generic}
  BY <1>2 DEF RowTypes, TypeOK
<1>12. Shape'
  <2>1. row' = [h \in DOMAIN program' |-> row'[h]]
    BY <1>2, <1>7
  <2>2. effects' = [h \in DOMAIN program' |-> [n \in DOMAIN Body(h)' |-> effects'[h][n]]]
    BY <1>2, <1>4 DEF RowTypes, Shape
  <2> QED BY <1>2, <1>3, <1>10, <2>1, <2>2 DEF RowTypes, Shape
<1>13. Nested'
  BY <1>2, <1>9, <1>10 DEF RowTypes, Nested
<1>14. TypeOK'
  BY <1>2, <1>4, <1>5, <1>7, <1>8, <1>9, <1>10, <1>11 DEF RowTypes, TypeOK
<1> QED BY <1>12, <1>13, <1>14 DEF RowTypes

LEMMA TypesStutters == RowTypes /\ UNCHANGED vars => RowTypes'
<1> SUFFICES ASSUME RowTypes, UNCHANGED vars PROVE RowTypes'
  OBVIOUS
<1>1. \A f : Body(f)' = Body(f)
  BY DEF vars, Body
<1>2. Expression' = Expression
  BY <1>1 DEF vars, Expression
<1> QED BY <1>1, <1>2 DEF RowTypes, Shape, TypeOK, Nested, vars

\* Every row that inference keeps, for a function or an expression, consists of operations of
\* the module and a tail that a declaration or a call named, and the stack of bodies never
\* outlasts the function it was opened for.
THEOREM RowTypesHold == Spec => []TypeOK
<1>1. Init => RowTypes
  BY TypesInit
<1>2. RowTypes /\ [Next]_vars => RowTypes'
  BY TypesBegins, TypesTypes, TypesEnds, TypesPasses, TypesStutters DEF Next
<1>3. RowTypes => TypeOK
  BY DEF RowTypes
<1> QED BY <1>1, <1>2, <1>3, PTL DEF Spec

-----------------------------------------------------------------------------
(* Recursion on what is below.                                             *)

\* h solves the recursion whose value at i the step f[i] computes from the values below i.
Unfolding(h, n, V, f) == h \in [1 .. n -> V] /\ \A i \in 1 .. n : h[i] = f[i][h]

\* The step of i looks at the values below i only.
LooksBelow(n, V, f) ==
    \A i \in 1 .. n : \A g, h \in [1 .. n -> V] :
        (\A m \in 1 .. i - 1 : g[m] = h[m]) => f[i][g] = f[i][h]

LEMMA RecursionExists ==
    ASSUME NEW n \in Nat, NEW V, NEW b \in V,
           NEW f \in [1 .. n -> [[1 .. n -> V] -> V]], LooksBelow(n, V, f)
    PROVE  \E h : Unfolding(h, n, V, f)
<1> DEFINE W == [1 .. n -> V]
           none == [i \in 1 .. n |-> b]
           put == [i \in 1 .. n |-> [h \in W |-> [h EXCEPT ![i] = f[i][h]]]]
<1>1. none \in W
  OBVIOUS
<1>2. put \in [1 .. n -> [W -> W]]
  OBVIOUS
<1>3. PICK t : Looping(t, n, W, none, put)
  <2> HIDE DEF W, none, put
  <2> QED BY <1>1, <1>2, LoopExists, Zenon
<1>4. t \in [0 .. n -> W]
  BY <1>3 DEF Looping
<1>5. ASSUME NEW k \in 1 .. n
      PROVE  /\ k - 1 \in 0 .. n /\ t[k - 1] \in W
             /\ t[k] = [t[k - 1] EXCEPT ![k] = f[k][t[k - 1]]]
  <2>1. k - 1 \in 0 .. n /\ k \in 0 .. n /\ k # 0
    OBVIOUS
  <2>2. t[k] = put[k][t[k - 1]]
    <3> HIDE DEF put, W, none
    <3> QED BY <1>3, <2>1 DEF Looping
  <2> QED BY <1>4, <2>1, <2>2
\* What a turn has put stays.
<1>6. \A k \in 0 .. n : \A m \in 1 .. k : t[k][m] = t[m][m]
  <2> DEFINE S == {k \in Nat : \A m \in 1 .. k : t[k][m] = t[m][m]}
  <2>1. 0 \in S
    OBVIOUS
  <2>2. ASSUME NEW k \in 1 .. n, k - 1 \in S PROVE k \in S
    <3>1. ASSUME NEW m \in 1 .. k, m # k PROVE t[k][m] = t[m][m]
      <4>1. m \in 1 .. k - 1 /\ m \in 1 .. n
        BY <3>1
      <4>2. t[k - 1][m] = t[m][m]
        BY <2>2, <4>1
      <4> QED BY <1>5, <3>1, <4>1, <4>2
    <3> QED BY <3>1
  <2> HIDE DEF S
  <2>3. 0 .. n \subseteq S
    BY <2>1, <2>2, UpTo
  <2> QED BY <2>3 DEF S
<1> DEFINE h == [i \in 1 .. n |-> t[n][i]]
<1>7. h \in W
  <2>1. t[n] \in W
    BY <1>4
  <2> QED BY <2>1
<1>8. ASSUME NEW i \in 1 .. n PROVE h[i] = f[i][h]
  <2>1. h[i] = t[i][i]
    BY <1>6
  <2>2. t[i][i] = f[i][t[i - 1]]
    BY <1>5
  <2>3. \A m \in 1 .. i - 1 : t[i - 1][m] = h[m]
    <3> SUFFICES ASSUME NEW m \in 1 .. i - 1 PROVE t[i - 1][m] = h[m]
      OBVIOUS
    <3>1. m \in 1 .. n /\ i - 1 \in 0 .. n /\ n \in 0 .. n
      OBVIOUS
    <3>2. t[i - 1][m] = t[m][m] /\ t[n][m] = t[m][m]
      BY <1>6, <3>1
    <3> QED BY <3>1, <3>2
  <2>4. t[i - 1] \in W
    BY <1>5
  <2> HIDE DEF h
  <2>5. f[i][t[i - 1]] = f[i][h]
    BY <1>7, <2>3, <2>4 DEF LooksBelow
  <2> QED BY <2>1, <2>2, <2>5
<1> HIDE DEF h
<1>9. Unfolding(h, n, V, f)
  BY <1>7, <1>8 DEF Unfolding
<1> QED BY <1>9

-----------------------------------------------------------------------------
(* What an expression performs.                                            *)

\* The equation of Performs, with ops for the expressions below.
Operations(relation, f, does, ops, m) ==
    LET e == Body(f)[m]
        argument(a) == IF a.kind = "lambda" THEN ops[a.at] ELSE does[a.at]
    IN  CASE e.kind = "perform" -> {e.op}
          [] e.kind = "invoke"  -> does[e.callback]
          [] e.kind = "call"    -> OpsOf(relation, e.fn, [i \in DOMAIN e.args |-> argument(e.args[i])])
          [] e.kind = "block"   -> UNION {ops[e.of[i]] : i \in DOMAIN e.of}
          [] e.kind = "resume"  -> ops[Body(f)[e.try].body] \ Handled(Body(f)[e.try])
          [] e.kind = "try"     -> (ops[e.body] \ Handled(e))
                                   \cup UNION {ops[e.clauses[i].body] : i \in DOMAIN e.clauses}

\* What callbacks perform, for the callbacks of f.
CallbacksDo(f) == [DOMAIN program[f].callbacks -> SUBSET Op]

LEMMA OperationsIn ==
    ASSUME program \in Programs, NEW f \in DOMAIN program, NEW does \in CallbacksDo(f), NEW relation,
           NEW ops \in [DOMAIN Body(f) -> SUBSET Op], NEW m \in DOMAIN Body(f)
    PROVE  Operations(relation, f, does, ops, m) \subseteq Op
<1> DEFINE e == Body(f)[m]
<1>1. \A k \in Operands(Body(f), m) : k \in DOMAIN Body(f) /\ ops[k] \subseteq Op
  BY Ordered
<1>2. e.kind \in {"perform", "invoke", "call", "block", "resume", "try"}
  BY ResolvedBody
<1>3. CASE e.kind = "perform"
  BY <1>3, ResolvedBody DEF Operations
<1>4. CASE e.kind = "invoke"
  BY <1>4, ResolvedBody DEF Operations, CallbacksDo
<1>5. CASE e.kind = "call"
  BY <1>5 DEF Operations, OpsOf
<1>6. CASE e.kind = "block"
  BY <1>1, <1>6 DEF Operations, Operands
<1>7. CASE e.kind = "resume"
  BY <1>1, <1>7 DEF Operations, Operands
<1>8. CASE e.kind = "try"
  <2>1. Operands(Body(f), m) = {e.body} \cup {e.clauses[i].body : i \in DOMAIN e.clauses}
    BY <1>8 DEF Operands
  <2>2. ops[e.body] \subseteq Op /\ \A i \in DOMAIN e.clauses : ops[e.clauses[i].body] \subseteq Op
    BY <1>1, <2>1
  <2> QED BY <1>8, <2>2 DEF Operations
<1> QED BY <1>2, <1>3, <1>4, <1>5, <1>6, <1>7, <1>8

LEMMA OperationsBelow ==
    ASSUME program \in Programs, NEW f \in DOMAIN program, NEW m \in DOMAIN Body(f), NEW does, NEW relation,
           NEW g, NEW h, \A k \in Operands(Body(f), m) : g[k] = h[k]
    PROVE  Operations(relation, f, does, g, m) = Operations(relation, f, does, h, m)
<1> DEFINE e == Body(f)[m]
<1>1. e.kind \in {"perform", "invoke", "call", "block", "resume", "try"}
  BY ResolvedBody
<1>2. CASE e.kind \in {"perform", "invoke"}
  BY <1>2 DEF Operations
<1>3. CASE e.kind = "call"
  <2> DEFINE ofG == [i \in DOMAIN e.args |-> IF e.args[i].kind = "lambda" THEN g[e.args[i].at] ELSE does[e.args[i].at]]
             ofH == [i \in DOMAIN e.args |-> IF e.args[i].kind = "lambda" THEN h[e.args[i].at] ELSE does[e.args[i].at]]
  <2>1. \A i \in DOMAIN e.args : e.args[i].kind = "lambda" => e.args[i].at \in Operands(Body(f), m)
    BY <1>3 DEF Operands
  <2>2. ofG = ofH
    BY <2>1
  <2>3. Operations(relation, f, does, g, m) = OpsOf(relation, e.fn, ofG)
    BY <1>3 DEF Operations
  <2>4. Operations(relation, f, does, h, m) = OpsOf(relation, e.fn, ofH)
    BY <1>3 DEF Operations
  <2> HIDE DEF ofG, ofH
  <2> QED BY <2>2, <2>3, <2>4
<1>4. CASE e.kind = "block"
  <2>1. \A i \in DOMAIN e.of : g[e.of[i]] = h[e.of[i]]
    BY <1>4 DEF Operands
  <2>2. {g[e.of[i]] : i \in DOMAIN e.of} = {h[e.of[i]] : i \in DOMAIN e.of}
    BY <2>1
  <2> QED BY <1>4, <2>2 DEF Operations
<1>5. CASE e.kind = "resume"
  BY <1>5 DEF Operations, Operands
<1>6. CASE e.kind = "try"
  <2>1. Operands(Body(f), m) = {e.body} \cup {e.clauses[i].body : i \in DOMAIN e.clauses}
    BY <1>6 DEF Operands
  <2>2. g[e.body] = h[e.body] /\ \A i \in DOMAIN e.clauses : g[e.clauses[i].body] = h[e.clauses[i].body]
    BY <2>1
  <2>3. {g[e.clauses[i].body] : i \in DOMAIN e.clauses} = {h[e.clauses[i].body] : i \in DOMAIN e.clauses}
    BY <2>2
  <2> QED BY <1>6, <2>2, <2>3 DEF Operations
<1> QED BY <1>1, <1>2, <1>3, <1>4, <1>5, <1>6

\* Performs solves its equation.
LEMMA PerformsIs ==
    ASSUME program \in Programs, NEW f \in DOMAIN program, NEW does \in CallbacksDo(f), NEW relation
    PROVE  \E ops \in [DOMAIN Body(f) -> SUBSET Op] :
              \A m \in DOMAIN Body(f) : /\ ops[m] = Operations(relation, f, does, ops, m)
                                        /\ ops[m] = Performs(relation, f, does, m)
<1> DEFINE n == Len(Body(f))
           V == SUBSET Op
           step == [i \in 1 .. n |-> [h \in [1 .. n -> V] |-> Operations(relation, f, does, h, i)]]
           IsSolution(h) == h = [m \in DOMAIN Body(f) |-> Operations(relation, f, does, h, m)]
           c == CHOOSE h : IsSolution(h)
<1>1. n \in Nat /\ DOMAIN Body(f) = 1 .. n /\ \A m \in 1 .. n : Operands(Body(f), m) \subseteq 1 .. m - 1
  BY Ordered
<1>2. \A m : Performs(relation, f, does, m) = c[m]
  BY DEF Performs, Operations
<1>3. step \in [1 .. n -> [[1 .. n -> V] -> V]]
  BY <1>1, OperationsIn
<1>4. LooksBelow(n, V, step)
  <2> SUFFICES ASSUME NEW i \in 1 .. n, NEW g \in [1 .. n -> V], NEW h \in [1 .. n -> V],
                      \A m \in 1 .. i - 1 : g[m] = h[m]
               PROVE  step[i][g] = step[i][h]
    BY DEF LooksBelow
  <2>1. \A k \in Operands(Body(f), i) : g[k] = h[k]
    BY <1>1
  <2> QED BY <1>1, <2>1, OperationsBelow
<1>5. {} \in V
  OBVIOUS
<1>6. PICK h : Unfolding(h, n, V, step)
  <2> HIDE DEF n, V, step
  <2> QED BY <1>1, <1>3, <1>4, <1>5, RecursionExists, Zenon
<1>7. h \in [1 .. n -> V] /\ \A i \in 1 .. n : h[i] = Operations(relation, f, does, h, i)
  BY <1>6 DEF Unfolding
<1>8. IsSolution(h)
  BY <1>1, <1>7
<1>9. IsSolution(c)
  <2> HIDE DEF IsSolution
  <2> QED BY <1>8
<1> HIDE DEF c
\* The solution is the only one that matters: what is chosen is one of sets of operations, too.
<1>10. \A m \in 1 .. n : c[m] \in V
  <2> DEFINE S == {k \in Nat : \A m \in 1 .. k : m \in 1 .. n => c[m] \in V}
  <2>1. 0 \in S
    OBVIOUS
  <2>2. ASSUME NEW k \in 1 .. n, k - 1 \in S PROVE k \in S
    <3> DEFINE g == [m \in DOMAIN Body(f) |-> IF m \in 1 .. k - 1 THEN c[m] ELSE {}]
    <3>1. \A m \in 1 .. k - 1 : m \in 1 .. n /\ c[m] \in V
      BY <2>2
    <3>2. g \in [DOMAIN Body(f) -> SUBSET Op]
      BY <3>1
    <3>3. \A m \in Operands(Body(f), k) : g[m] = c[m]
      BY <1>1, <3>1
    <3>4. k \in DOMAIN Body(f)
      BY <1>1
    <3> HIDE DEF g
    <3>5. Operations(relation, f, does, g, k) = Operations(relation, f, does, c, k)
      BY <3>3, <3>4, OperationsBelow
    <3>6. c[k] = Operations(relation, f, does, c, k)
      BY <1>9, <3>4
    <3>7. c[k] \in V
      BY <3>2, <3>4, <3>5, <3>6, OperationsIn
    <3>8. \A m \in 1 .. k : m = k \/ m \in 1 .. k - 1
      OBVIOUS
    <3> QED BY <3>1, <3>7, <3>8
  <2> HIDE DEF S
  <2>3. 0 .. n \subseteq S
    BY <1>1, <2>1, <2>2, UpTo
  <2> QED BY <1>1, <2>3 DEF S
<1>11. c \in [DOMAIN Body(f) -> SUBSET Op]
  BY <1>1, <1>9, <1>10
<1> QED BY <1>2, <1>9, <1>11

-----------------------------------------------------------------------------
(* The rounds of Performed.                                                *)

Round(before) ==
    {x \in Situation \X Op :
        x[2] \in IF program[x[1][1]].annotated THEN program[x[1][1]].declared.ops
                 ELSE BodyPerforms(before, x[1][1], x[1][2])}

LEMMA PerformedIs ==
    ASSUME NEW n \in Nat, n = Cardinality(Situation)
    PROVE  \E round : /\ round[0] = {}
                      /\ \A k \in 1 .. n : round[k] = Round(round[k - 1])
                      /\ Performed = round[n]
<1> DEFINE V == SUBSET (Situation \X Op)
           Loop(h) == h = [k \in 0 .. n |-> IF k = 0 THEN {} ELSE Round(h[k - 1])]
           f == [i \in 1 .. n |-> [x \in V |-> Round(x)]]
           c == CHOOSE h : Loop(h)
<1>1. Performed = c[n]
  BY DEF Performed, Round
<1>2. \A x : Round(x) \in V
  BY DEF Round
<1>3. f \in [1 .. n -> [V -> V]] /\ {} \in V
  BY <1>2
<1>4. PICK h : Looping(h, n, V, {}, f)
  <2> HIDE DEF f, V
  <2> QED BY <1>3, LoopExists, Zenon
<1>5. h \in [0 .. n -> V] /\ h = [i \in 0 .. n |-> IF i = 0 THEN {} ELSE f[i][h[i - 1]]]
  BY <1>4 DEF Looping
<1>6. ASSUME NEW i \in 1 .. n PROVE f[i][h[i - 1]] = Round(h[i - 1])
  <2>1. i - 1 \in 0 .. n
    OBVIOUS
  <2>2. h[i - 1] \in V
    <3> HIDE DEF V
    <3> QED BY <1>5, <2>1
  <2> HIDE DEF V
  <2> QED BY <2>2
<1>7. Loop(h)
  <2>1. \A i \in 0 .. n : i = 0 \/ i \in 1 .. n
    OBVIOUS
  <2> HIDE DEF f
  <2> QED BY <1>5, <1>6, <2>1
<1>8. Loop(c)
  <2> HIDE DEF Loop
  <2> QED BY <1>7
<1> HIDE DEF c
<1>9. c[0] = {} /\ \A k \in 1 .. n : c[k] = Round(c[k - 1])
  <2>1. \A k \in 1 .. n : k \in 0 .. n /\ k # 0
    OBVIOUS
  <2>2. 0 \in 0 .. n
    OBVIOUS
  <2>3. \A k \in 0 .. n : c[k] = IF k = 0 THEN {} ELSE Round(c[k - 1])
    <3> HIDE DEF Round
    <3> QED BY <1>8, Zenon
  <2> QED BY <2>1, <2>2, <2>3
<1> QED BY <1>1, <1>9

\* Without callbacks a situation is a function.
LEMMA NoSituations ==
    ASSUME program \in Programs, FirstOrder
    PROVE  /\ Situation = {<<f, NoCallbacks>> : f \in DOMAIN program}
           /\ \A f \in DOMAIN program : CallbacksDo(f) = {NoCallbacks}
           /\ IsFiniteSet(Situation) /\ Cardinality(Situation) \in Nat
<1>1. \A f \in DOMAIN program : DOMAIN program[f].callbacks = {}
  BY DEF FirstOrder
<1>2. [{} -> SUBSET Op] = {NoCallbacks}
  <2>1. <<>> = [x \in {} |-> <<>>[x]]
    OBVIOUS
  <2>2. \A g : g = [x \in {} |-> g[x]] => g = <<>>
    BY <2>1
  <2>3. <<>> \in [{} -> SUBSET Op]
    BY <2>1
  <2>4. ASSUME NEW g \in [{} -> SUBSET Op] PROVE g = <<>>
    BY <2>2
  <2> QED BY <2>3, <2>4 DEF NoCallbacks
<1>3. \A f \in DOMAIN program : CallbacksDo(f) = {NoCallbacks}
  BY <1>1, <1>2 DEF CallbacksDo
<1>4. Situation = {<<f, NoCallbacks>> : f \in DOMAIN program}
  <2>1. Situation = UNION {{<<f, does>> : does \in CallbacksDo(f)} : f \in DOMAIN program}
    BY DEF Situation, CallbacksDo
  <2> QED BY <1>3, <2>1
<1>5. IsFiniteSet(DOMAIN program)
  <2>1. Len(program) \in Nat /\ DOMAIN program = 1 .. Len(program)
    BY ProgramsAreOrdered
  <2> QED BY <2>1, FS_Interval
<1>6. IsFiniteSet(Situation)
  <2> DEFINE s == [f \in DOMAIN program |-> <<f, NoCallbacks>>]
  <2>1. s \in Surjection(DOMAIN program, Situation)
    BY <1>4 DEF Surjection
  <2> QED BY <1>5, <2>1, FS_Surjection
<1> QED BY <1>3, <1>4, <1>6, FS_CardinalityType

\* What holds of an expression when it holds of its operands holds of all.
LEMMA OperandInduction ==
    ASSUME program \in Programs, NEW f \in DOMAIN program, NEW S,
           \A n \in DOMAIN Body(f) : Operands(Body(f), n) \subseteq S => n \in S
    PROVE  DOMAIN Body(f) \subseteq S
<1> DEFINE n == Len(Body(f))
           T == {k \in Nat : 1 .. k \subseteq S}
<1>1. n \in Nat /\ DOMAIN Body(f) = 1 .. n /\ \A m \in 1 .. n : Operands(Body(f), m) \subseteq 1 .. m - 1
  BY Ordered
<1> HIDE DEF n
<1>2. 0 \in T
  OBVIOUS
<1>3. ASSUME NEW k \in 1 .. n, k - 1 \in T PROVE k \in T
  <2>1. k \in S
    BY <1>1, <1>3
  <2>2. \A m \in 1 .. k : m = k \/ m \in 1 .. k - 1
    OBVIOUS
  <2> QED BY <1>3, <2>1, <2>2
<1> HIDE DEF T
<1>4. 0 .. n \subseteq T
  BY <1>1, <1>2, <1>3, UpTo
<1>5. n \in T
  BY <1>1, <1>4
<1> QED BY <1>1, <1>5 DEF T

\* The equation of Performs for programs without callbacks.
PerformsLike(relation, f, n) ==
    LET e == Body(f)[n]
        P(m) == Performs(relation, f, NoCallbacks, m)
    IN  /\ P(n) \subseteq Op
        /\ e.kind \in {"perform", "call", "block", "resume", "try"}
        /\ e.kind = "perform" => P(n) = {e.op}
        /\ e.kind = "call" => P(n) = OpsOf(relation, e.fn, NoCallbacks)
        /\ e.kind = "block" => P(n) = UNION {P(e.of[i]) : i \in DOMAIN e.of}
        /\ e.kind = "resume" => P(n) = P(Body(f)[e.try].body) \ Handled(Body(f)[e.try])
        /\ e.kind = "try" =>
              P(n) = (P(e.body) \ Handled(e)) \cup UNION {P(e.clauses[i].body) : i \in DOMAIN e.clauses}

LEMMA NoArguments ==
    ASSUME NEW g, DOMAIN g = {}, g = [i \in {} |-> g[i]]
    PROVE  g = NoCallbacks
<1>1. <<>> = [i \in {} |-> <<>>[i]]
  OBVIOUS
<1> QED BY <1>1 DEF NoCallbacks

LEMMA FirstOrderIs ==
    ASSUME program \in Programs, FirstOrder, NEW f \in DOMAIN program, NEW n \in DOMAIN Body(f), NEW relation
    PROVE  PerformsLike(relation, f, n)
<1> DEFINE e == Body(f)[n]
           P(m) == Performs(relation, f, NoCallbacks, m)
<1>1. NoCallbacks \in CallbacksDo(f)
  BY NoSituations
<1>2. PICK ops \in [DOMAIN Body(f) -> SUBSET Op] :
          \A m \in DOMAIN Body(f) : /\ ops[m] = Operations(relation, f, NoCallbacks, ops, m)
                                    /\ ops[m] = P(m)
  BY <1>1, PerformsIs
<1>3. P(n) = Operations(relation, f, NoCallbacks, ops, n) /\ P(n) \subseteq Op
  BY <1>2
<1>4. \A m \in Operands(Body(f), n) : ops[m] = P(m)
  BY <1>2, Ordered
<1>5. e.kind \in {"perform", "call", "block", "resume", "try"}
  BY ResolvedBody DEF FirstOrder
<1> HIDE DEF P
<1>6. CASE e.kind = "perform"
  <2>1. P(n) = {e.op}
    BY <1>3, <1>6 DEF Operations
  <2> QED BY <1>3, <1>6, <2>1 DEF P, PerformsLike
<1>7. CASE e.kind = "call"
  <2> DEFINE g == [i \in DOMAIN e.args |->
                      IF e.args[i].kind = "lambda" THEN ops[e.args[i].at] ELSE NoCallbacks[e.args[i].at]]
  <2>1. P(n) = OpsOf(relation, e.fn, g)
    BY <1>3, <1>7 DEF Operations
  <2>2. DOMAIN e.args = {}
    BY <1>7, ResolvedBody, Ordered DEF FirstOrder
  <2>3. g = NoCallbacks
    BY <2>2, NoArguments
  <2>4. P(n) = OpsOf(relation, e.fn, NoCallbacks)
    BY <2>1, <2>3
  <2> QED BY <1>3, <1>7, <2>4 DEF P, PerformsLike
<1>8. CASE e.kind = "block"
  <2>1. {ops[e.of[i]] : i \in DOMAIN e.of} = {P(e.of[i]) : i \in DOMAIN e.of}
    BY <1>4, <1>8 DEF Operands
  <2>2. P(n) = UNION {P(e.of[i]) : i \in DOMAIN e.of}
    BY <1>3, <1>8, <2>1 DEF Operations
  <2> QED BY <1>3, <1>8, <2>2 DEF P, PerformsLike
<1>9. CASE e.kind = "resume"
  <2>1. ops[Body(f)[e.try].body] = P(Body(f)[e.try].body)
    BY <1>4, <1>9 DEF Operands
  <2>2. P(n) = P(Body(f)[e.try].body) \ Handled(Body(f)[e.try])
    BY <1>3, <1>9, <2>1 DEF Operations
  <2> QED BY <1>3, <1>9, <2>2 DEF P, PerformsLike
<1>10. CASE e.kind = "try"
  <2>1. Operands(Body(f), n) = {e.body} \cup {e.clauses[i].body : i \in DOMAIN e.clauses}
    BY <1>10 DEF Operands
  <2>2. ops[e.body] = P(e.body) /\ \A i \in DOMAIN e.clauses : ops[e.clauses[i].body] = P(e.clauses[i].body)
    BY <1>4, <2>1
  <2>3. {ops[e.clauses[i].body] : i \in DOMAIN e.clauses} = {P(e.clauses[i].body) : i \in DOMAIN e.clauses}
    BY <2>2
  <2>4. P(n) = (P(e.body) \ Handled(e)) \cup UNION {P(e.clauses[i].body) : i \in DOMAIN e.clauses}
    BY <1>3, <1>10, <2>2, <2>3 DEF Operations
  <2> QED BY <1>3, <1>10, <2>4 DEF P, PerformsLike
<1> QED BY <1>5, <1>6, <1>7, <1>8, <1>9, <1>10

\* Whether an operation is performed depends on who else performs that operation, and
\* grows with it.
Fewer(r, s, o) ==
    \A g \in DOMAIN program : o \in OpsOf(r, g, NoCallbacks) => o \in OpsOf(s, g, NoCallbacks)

LEMMA PerformsMonotone ==
    ASSUME program \in Programs, FirstOrder, NEW f \in DOMAIN program, NEW n \in DOMAIN Body(f),
           NEW r, NEW s, NEW o, Fewer(r, s, o), o \in Performs(r, f, NoCallbacks, n)
    PROVE  o \in Performs(s, f, NoCallbacks, n)
<1> DEFINE R(m) == Performs(r, f, NoCallbacks, m)
           Q(m) == Performs(s, f, NoCallbacks, m)
           S == {m \in DOMAIN Body(f) : o \in R(m) => o \in Q(m)}
<1>1. ASSUME NEW m \in DOMAIN Body(f), Operands(Body(f), m) \subseteq S PROVE m \in S
  <2> DEFINE e == Body(f)[m]
  <2> SUFFICES ASSUME o \in R(m) PROVE o \in Q(m)
    OBVIOUS
  <2>1. PerformsLike(r, f, m) /\ PerformsLike(s, f, m)
    BY FirstOrderIs
  <2>2. e.kind \in {"perform", "call", "block", "resume", "try"}
    BY <2>1 DEF PerformsLike
  <2>3. \A k \in Operands(Body(f), m) : o \in R(k) => o \in Q(k)
    BY <1>1
  <2> HIDE DEF R, Q
  <2>4. CASE e.kind = "perform"
    <3>1. R(m) = {e.op} /\ Q(m) = {e.op}
      BY <2>1, <2>4 DEF PerformsLike, R, Q
    <3> QED BY <3>1
  <2>5. CASE e.kind = "call"
    <3>1. R(m) = OpsOf(r, e.fn, NoCallbacks) /\ Q(m) = OpsOf(s, e.fn, NoCallbacks) /\ e.fn \in DOMAIN program
      BY <2>1, <2>5, Ordered DEF PerformsLike, R, Q
    <3> QED BY <3>1 DEF Fewer
  <2>6. CASE e.kind = "block"
    <3>1. R(m) = UNION {R(e.of[i]) : i \in DOMAIN e.of} /\ Q(m) = UNION {Q(e.of[i]) : i \in DOMAIN e.of}
      BY <2>1, <2>6 DEF PerformsLike, R, Q
    <3>2. \A i \in DOMAIN e.of : e.of[i] \in Operands(Body(f), m)
      BY <2>6 DEF Operands
    <3> QED BY <2>3, <3>1, <3>2
  <2>7. CASE e.kind = "resume"
    <3> DEFINE try == Body(f)[e.try]
    <3>1. R(m) = R(try.body) \ Handled(try) /\ Q(m) = Q(try.body) \ Handled(try)
      BY <2>1, <2>7 DEF PerformsLike, R, Q
    <3>2. try.body \in Operands(Body(f), m)
      BY <2>7 DEF Operands
    <3> QED BY <2>3, <3>1, <3>2
  <2>8. CASE e.kind = "try"
    <3>1. /\ R(m) = (R(e.body) \ Handled(e)) \cup UNION {R(e.clauses[i].body) : i \in DOMAIN e.clauses}
          /\ Q(m) = (Q(e.body) \ Handled(e)) \cup UNION {Q(e.clauses[i].body) : i \in DOMAIN e.clauses}
      BY <2>1, <2>8 DEF PerformsLike, R, Q
    <3>2. Operands(Body(f), m) = {e.body} \cup {e.clauses[i].body : i \in DOMAIN e.clauses}
      BY <2>8 DEF Operands
    <3>3. /\ o \in R(e.body) => o \in Q(e.body)
          /\ \A i \in DOMAIN e.clauses : o \in R(e.clauses[i].body) => o \in Q(e.clauses[i].body)
      BY <2>3, <3>2
    <3> QED BY <3>1, <3>3
  <2> QED BY <2>2, <2>4, <2>5, <2>6, <2>7, <2>8
<1> HIDE DEF S
<1>2. DOMAIN Body(f) \subseteq S
  BY <1>1, OperandInduction
<1> QED BY <1>2 DEF S

-----------------------------------------------------------------------------
(* The rounds reach a fixed point.                                         *)

LEMMA RoundIs ==
    ASSUME program \in Programs, FirstOrder, NEW r, NEW f \in DOMAIN program
    PROVE  OpsOf(Round(r), f, NoCallbacks) =
               IF program[f].annotated THEN program[f].declared.ops ELSE BodyPerforms(r, f, NoCallbacks)
<1> DEFINE does == IF program[f].annotated THEN program[f].declared.ops ELSE BodyPerforms(r, f, NoCallbacks)
<1>1. <<f, NoCallbacks>> \in Situation
  BY NoSituations
<1>2. \A o \in Op : <<<<f, NoCallbacks>>, o>> \in Round(r) <=> o \in does
  BY <1>1 DEF Round
<1>3. does \subseteq Op
  <2>1. BodyPerforms(r, f, NoCallbacks) \subseteq Op
    <3>1. Len(Body(f)) \in DOMAIN Body(f)
      BY Ordered
    <3> QED BY <3>1, FirstOrderIs DEF BodyPerforms, PerformsLike
  <2> QED BY <2>1, Resolved
<1> HIDE DEF does
<1>4. OpsOf(Round(r), f, NoCallbacks) = does
  BY <1>2, <1>3 DEF OpsOf
<1> QED BY <1>4 DEF does

LEMMA RoundMonotone ==
    ASSUME program \in Programs, FirstOrder, NEW r, NEW s, NEW o, Fewer(r, s, o)
    PROVE  Fewer(Round(r), Round(s), o)
<1> SUFFICES ASSUME NEW f \in DOMAIN program, o \in OpsOf(Round(r), f, NoCallbacks)
             PROVE  o \in OpsOf(Round(s), f, NoCallbacks)
  BY DEF Fewer
<1>1. Len(Body(f)) \in DOMAIN Body(f)
  BY Ordered
<1>2. o \in BodyPerforms(r, f, NoCallbacks) => o \in BodyPerforms(s, f, NoCallbacks)
  BY <1>1, PerformsMonotone DEF BodyPerforms
<1> QED BY <1>2, RoundIs

\* In every round but the last somebody new performs the operation, or nobody ever will.
LEMMA PerformedClosed ==
    ASSUME program \in Programs, FirstOrder, NEW o \in Op
    PROVE  Fewer(Round(Performed), Performed, o)
<1> DEFINE n == Cardinality(Situation)
           Who(r) == {x \in Situation : <<x, o>> \in r}
<1>1. n \in Nat /\ IsFiniteSet(Situation) /\ Situation = {<<f, NoCallbacks>> : f \in DOMAIN program}
  BY NoSituations
<1>2. PICK round : /\ round[0] = {}
                   /\ \A k \in 1 .. n : round[k] = Round(round[k - 1])
                   /\ Performed = round[n]
  BY <1>1, PerformedIs
<1>3. \A r, s : Fewer(r, s, o) <=> Who(r) \subseteq Who(s)
  BY <1>1 DEF Fewer, OpsOf
<1> HIDE DEF n, Who
<1>4. \A r, s : Who(r) \subseteq Who(s) => Who(Round(r)) \subseteq Who(Round(s))
  BY <1>3, RoundMonotone
<1>5. \A r : IsFiniteSet(Who(r)) /\ Cardinality(Who(r)) \in Nat /\ Who(r) \subseteq Situation
  <2> SUFFICES ASSUME NEW r PROVE IsFiniteSet(Who(r)) /\ Cardinality(Who(r)) \in Nat /\ Who(r) \subseteq Situation
    OBVIOUS
  <2>1. Who(r) \in SUBSET Situation
    BY DEF Who
  <2>2. IsFiniteSet(Who(r))
    BY <1>1, <2>1, FS_Subset
  <2> QED BY <2>1, <2>2, FS_CardinalityType
\* Rounds grow.
<1>6. \A k \in 0 .. n : Who(round[k]) \subseteq Who(Round(round[k]))
  <2> DEFINE S == {k \in Nat : Who(round[k]) \subseteq Who(Round(round[k]))}
  <2>1. 0 \in S
    BY <1>2 DEF Who
  <2>2. ASSUME NEW k \in 1 .. n, k - 1 \in S PROVE k \in S
    <3>1. round[k] = Round(round[k - 1])
      BY <1>2
    <3>2. Who(round[k - 1]) \subseteq Who(round[k])
      BY <2>2, <3>1
    <3>3. Who(Round(round[k - 1])) \subseteq Who(Round(round[k]))
      BY <1>4, <3>2
    <3> QED BY <3>1, <3>3
  <2> HIDE DEF S
  <2>3. 0 .. n \subseteq S
    BY <1>1, <2>1, <2>2, UpTo
  <2> QED BY <2>3 DEF S
<1> DEFINE Reached(k) == Who(Round(round[k])) \subseteq Who(round[k])
           S == {k \in Nat : Reached(k) \/ k <= Cardinality(Who(round[k]))}
<1>7. 0 \in S
  BY <1>5
<1>8. ASSUME NEW k \in 1 .. n, k - 1 \in S PROVE k \in S
  <2>1. round[k] = Round(round[k - 1]) /\ k - 1 \in 0 .. n
    BY <1>1, <1>2
  <2>2. CASE Reached(k - 1)
    <3>1. Who(round[k]) \subseteq Who(round[k - 1])
      BY <2>1, <2>2
    <3>2. Who(Round(round[k])) \subseteq Who(Round(round[k - 1]))
      BY <1>4, <3>1
    <3>3. Reached(k)
      BY <2>1, <3>2
    <3> QED BY <3>3
  <2>3. CASE ~Reached(k - 1)
    <3> DEFINE A == Who(round[k - 1])
               B == Who(round[k])
    <3>1. A \subseteq B /\ A # B
      BY <1>6, <2>1, <2>3
    <3>2. k - 1 <= Cardinality(A)
      BY <1>8, <2>3
    <3>3. IsFiniteSet(B) /\ Cardinality(A) \in Nat /\ Cardinality(B) \in Nat
      BY <1>5
    <3> HIDE DEF A, B
    <3>4. Cardinality(A) <= Cardinality(B) /\ Cardinality(B) # Cardinality(A)
      BY <3>1, <3>3, FS_Subset
    <3>5. k <= Cardinality(B)
      BY <3>2, <3>3, <3>4
    <3> QED BY <3>5 DEF B
  <2> QED BY <2>2, <2>3
<1>9. n \in S
  <2> HIDE DEF S
  <2>1. 0 .. n \subseteq S
    BY <1>1, <1>7, <1>8, UpTo
  <2> QED BY <1>1, <2>1
<1>10. CASE Reached(n)
  BY <1>2, <1>3, <1>10
<1>11. CASE n <= Cardinality(Who(round[n]))
  <2>1. Who(round[n]) \in SUBSET Situation
    BY <1>5
  <2>2. Cardinality(Who(round[n])) <= Cardinality(Situation) /\ Cardinality(Who(round[n])) \in Nat
    BY <1>1, <1>5, <2>1, FS_Subset
  <2>3. Cardinality(Situation) = Cardinality(Who(round[n]))
    BY <1>1, <1>11, <2>2 DEF n
  <2>4. Situation = Who(round[n])
    BY <1>1, <2>1, <2>3, FS_Subset
  <2>5. Who(Round(round[n])) \subseteq Who(round[n])
    BY <1>5, <2>4
  <2> QED BY <1>2, <1>3, <2>5
<1> QED BY <1>9, <1>10, <1>11

-----------------------------------------------------------------------------
(* Rows claim nothing that is not performed.                               *)

\* The operations that f performs.
Does(f) == OpsOf(Performed, f, NoCallbacks)

LEMMA DoesIncludes ==
    ASSUME program \in Programs, FirstOrder, NEW f \in DOMAIN program
    PROVE  /\ Does(f) \subseteq Op
           /\ program[f].annotated => program[f].declared.ops \subseteq Does(f)
           /\ ~program[f].annotated => BodyPerforms(Performed, f, NoCallbacks) \subseteq Does(f)
<1> DEFINE does == IF program[f].annotated THEN program[f].declared.ops
                   ELSE BodyPerforms(Performed, f, NoCallbacks)
<1>1. OpsOf(Round(Performed), f, NoCallbacks) = does
  BY RoundIs
<1>2. does \subseteq Op
  BY <1>1 DEF OpsOf
<1>3. does \subseteq Does(f)
  <2> SUFFICES ASSUME NEW o \in does PROVE o \in Does(f)
    OBVIOUS
  <2> HIDE DEF does
  <2>1. o \in Op /\ Fewer(Round(Performed), Performed, o)
    BY <1>2, PerformedClosed
  <2> QED BY <1>1, <2>1 DEF Fewer, Does
<1>4. Does(f) \subseteq Op
  BY DEF Does, OpsOf
<1> QED BY <1>3, <1>4

SoundAt(f, n) == ~IsOpen(effects[f][n])
                 /\ effects[f][n].ops \subseteq Performs(Performed, f, NoCallbacks, n)
RowSound(f) == ~IsOpen(row[f]) /\ row[f].ops \subseteq Does(f)
RowsSound ==
    /\ \A f \in DOMAIN program : RowSound(f)
    /\ \A f \in DOMAIN program : \A n \in DOMAIN Body(f) : SoundAt(f, n)

\* What is left of the row of a body when its clauses take the operations they handle
\* and give back what they perform again.
LEMMA RemainingIs ==
    ASSUME NEW f, NEW try, effects[f][try.body] \in Row
    PROVE  /\ Remaining(f, try).tail = effects[f][try.body].tail
           /\ Remaining(f, try).ops \subseteq effects[f][try.body].ops
           /\ \A o \in effects[f][try.body].ops : o \notin Remaining(f, try).ops => o \in Handled(try)
           /\ \A o \in Remaining(f, try).ops : o \in Handled(try) => o \in Reraised(f, try)
           /\ \A o \in Reraised(f, try) :
                 o \in Handled(try) /\ \E i \in DOMAIN try.clauses : o \in effects[f][try.clauses[i].body].ops
<1> DEFINE r == effects[f][try.body]
           taken == {op \in Op : \E i \in DOMAIN try.clauses :
                        try.clauses[i].op = op /\ op \notin effects[f][try.clauses[i].body].ops}
<1>1. Remaining(f, try) = [r EXCEPT !.ops = r.ops \ taken]
  BY DEF Remaining, Drop
<1>2. r \in Row
  OBVIOUS
<1> HIDE DEF r, taken
<1>3. Remaining(f, try).tail = r.tail /\ Remaining(f, try).ops = r.ops \ taken /\ r.ops \subseteq Op
  BY <1>1, <1>2 DEF Row
<1>4. \A o \in taken : o \in Handled(try)
  BY DEF taken, Handled
<1>5. \A o \in Op \ taken : o \in Handled(try) => o \in Reraised(f, try)
  BY DEF taken, Handled, Reraised
<1>6. \A o \in Reraised(f, try) :
         o \in Handled(try) /\ \E i \in DOMAIN try.clauses : o \in effects[f][try.clauses[i].body].ops
  BY DEF Handled, Reraised
<1> QED BY <1>3, <1>4, <1>5, <1>6 DEF r

\* The operands of an expression.
LEMMA OperandsIn ==
    ASSUME program \in Programs, NEW f \in DOMAIN program, NEW n \in DOMAIN Body(f)
    PROVE  LET e == Body(f)[n]
           IN  /\ e.kind = "block" => IsList(e.of) /\ \A i \in DOMAIN e.of : e.of[i] \in DOMAIN Body(f)
               /\ e.kind = "resume" => Body(f)[e.try].body \in DOMAIN Body(f)
               /\ e.kind = "try" => /\ e.body \in DOMAIN Body(f) /\ IsList(e.clauses)
                                    /\ \A i \in DOMAIN e.clauses : e.clauses[i].body \in DOMAIN Body(f)
<1> DEFINE e == Body(f)[n]
<1>1. \A k \in Operands(Body(f), n) : k \in DOMAIN Body(f)
  BY Ordered
<1>2. e.kind = "block" => IsList(e.of) /\ \A i \in DOMAIN e.of : e.of[i] \in DOMAIN Body(f)
  BY <1>1, ResolvedBody DEF Operands
<1>3. e.kind = "resume" => Body(f)[e.try].body \in DOMAIN Body(f)
  BY <1>1 DEF Operands
<1>4. ASSUME e.kind = "try"
      PROVE  /\ e.body \in DOMAIN Body(f) /\ IsList(e.clauses)
             /\ \A i \in DOMAIN e.clauses : e.clauses[i].body \in DOMAIN Body(f)
  <2>1. Operands(Body(f), n) = {e.body} \cup {e.clauses[i].body : i \in DOMAIN e.clauses}
    BY <1>4 DEF Operands
  <2> QED BY <1>1, <1>4, <2>1, ResolvedBody
<1> QED BY <1>2, <1>3, <1>4

LEMMA ContributionSound ==
    ASSUME RowsKept, FirstOrder, RowsSound, NEW f \in DOMAIN program, NEW n \in DOMAIN Body(f)
    PROVE  /\ ~IsOpen(Contribution(f, n))
           /\ Contribution(f, n).ops \subseteq Performs(Performed, f, NoCallbacks, n)
<1> DEFINE e == Body(f)[n]
           P(m) == Performs(Performed, f, NoCallbacks, m)
<1>1. program \in Programs /\ PerformsLike(Performed, f, n)
  BY FirstOrderIs DEF RowsKept
<1>2. e.kind \in {"perform", "call", "block", "resume", "try"}
  BY <1>1 DEF PerformsLike
<1>3. \A m \in DOMAIN Body(f) : effects[f][m] \in Row /\ ~IsOpen(effects[f][m]) /\ effects[f][m].ops \subseteq P(m)
  BY DEF RowsSound, SoundAt, RowsKept
<1> HIDE DEF P
<1>4. CASE e.kind = "perform"
  <2>1. P(n) = {e.op}
    BY <1>1, <1>4 DEF PerformsLike, P
  <2>2. Contribution(f, n) = [ops |-> {e.op}, tail |-> NoTail]
    BY <1>4 DEF Contribution
  <2> QED BY <2>1, <2>2 DEF IsOpen, P
<1>5. CASE e.kind = "call"
  <2>1. P(n) = Does(e.fn) /\ e.fn \in DOMAIN program
    BY <1>1, <1>5, Ordered DEF PerformsLike, P, Does
  <2>2. ~IsOpen(row[e.fn]) /\ row[e.fn].ops \subseteq Does(e.fn)
    BY <2>1 DEF RowsSound, RowSound
  <2>3. Contribution(f, n) = row[e.fn]
    BY <1>5, <2>2 DEF Contribution, CallRow
  <2> QED BY <2>1, <2>2, <2>3 DEF P
<1>6. CASE e.kind = "block"
  <2> DEFINE list == [i \in DOMAIN e.of |-> effects[f][e.of[i]]]
  <2>1. P(n) = UNION {P(e.of[i]) : i \in DOMAIN e.of}
    BY <1>1, <1>6 DEF PerformsLike, P
  <2>2. IsList(e.of) /\ \A i \in DOMAIN e.of : e.of[i] \in DOMAIN Body(f)
    BY <1>1, <1>6, OperandsIn
  <2>3. list \in [DOMAIN e.of -> Row]
    BY <1>3, <2>2
  <2>4. \A i \in DOMAIN e.of : ~IsOpen(list[i]) /\ list[i].ops \subseteq P(e.of[i])
    BY <1>3, <2>2
  <2>5. Contribution(f, n) = ComposeAll(list)
    BY <1>6 DEF Contribution
  <2> HIDE DEF list
  <2>6. IsList(list) /\ DOMAIN list = DOMAIN e.of /\ \A i \in DOMAIN list : list[i] \in Row
    BY <2>2, <2>3, ListOver
  <2>7. ComposeAll(list).ops = UNION {list[i].ops : i \in DOMAIN list} /\ ~IsOpen(ComposeAll(list))
    BY <2>4, <2>6, ComposeAllOps
  <2>8. UNION {list[i].ops : i \in DOMAIN list} \subseteq P(n)
    BY <2>1, <2>4, <2>6
  <2> QED BY <2>5, <2>7, <2>8 DEF P
<1>7. CASE e.kind = "resume"
  <2> DEFINE try == Body(f)[e.try]
  <2>1. P(n) = P(try.body) \ Handled(try)
    BY <1>1, <1>7 DEF PerformsLike, P
  <2>2. try.body \in DOMAIN Body(f)
    BY <1>1, <1>7, OperandsIn
  <2>3. Contribution(f, n) = [effects[f][try.body] EXCEPT !.ops = effects[f][try.body].ops \ Handled(try)]
    BY <1>7 DEF Contribution, Resumed, Drop
  <2>4. effects[f][try.body] \in Row /\ ~IsOpen(effects[f][try.body]) /\ effects[f][try.body].ops \subseteq P(try.body)
    BY <1>3, <2>2
  <2> HIDE DEF try
  <2>5. Contribution(f, n).ops = effects[f][try.body].ops \ Handled(try)
        /\ Contribution(f, n).tail = effects[f][try.body].tail
    BY <2>3, <2>4 DEF Row
  <2> QED BY <2>1, <2>4, <2>5 DEF IsOpen, P
<1>8. CASE e.kind = "try"
  <2> DEFINE list == [i \in DOMAIN e.clauses |-> effects[f][e.clauses[i].body]]
             rest == Remaining(f, e)
  <2>1. P(n) = (P(e.body) \ Handled(e)) \cup UNION {P(e.clauses[i].body) : i \in DOMAIN e.clauses}
    BY <1>1, <1>8 DEF PerformsLike, P
  <2>2. /\ e.body \in DOMAIN Body(f) /\ IsList(e.clauses)
        /\ \A i \in DOMAIN e.clauses : e.clauses[i].body \in DOMAIN Body(f)
    BY <1>1, <1>8, OperandsIn
  <2>3. list \in [DOMAIN e.clauses -> Row]
    BY <1>3, <2>2
  <2>4. \A i \in DOMAIN e.clauses : ~IsOpen(list[i]) /\ list[i].ops \subseteq P(e.clauses[i].body)
    BY <1>3, <2>2
  <2>5. Contribution(f, n) = Compose(rest, ComposeAll(list))
    BY <1>8 DEF Contribution, TryRow
  <2>6. rest.tail = effects[f][e.body].tail /\ rest.ops \subseteq P(n)
    <3>1. rest.tail = effects[f][e.body].tail
      BY <1>3, <2>2, RemainingIs
    <3>2. ASSUME NEW o \in rest.ops PROVE o \in P(n)
      <4>1. o \in P(e.body)
        BY <1>3, <2>2, <3>2, RemainingIs
      <4>2. CASE o \notin Handled(e)
        BY <2>1, <4>1, <4>2
      <4>3. CASE o \in Handled(e)
        <5>1. o \in Reraised(f, e)
          BY <1>3, <2>2, <3>2, <4>3, RemainingIs
        <5>2. PICK i \in DOMAIN e.clauses : o \in effects[f][e.clauses[i].body].ops
          BY <1>3, <2>2, <5>1, RemainingIs
        <5>3. o \in P(e.clauses[i].body)
          BY <1>3, <2>2, <5>2
        <5> QED BY <2>1, <5>3
      <4> QED BY <4>2, <4>3
    <3> QED BY <3>1, <3>2
  <2> HIDE DEF list, rest
  <2>7. IsList(list) /\ DOMAIN list = DOMAIN e.clauses /\ \A i \in DOMAIN list : list[i] \in Row
    BY <2>2, <2>3, ListOver
  <2>8. ComposeAll(list).ops = UNION {list[i].ops : i \in DOMAIN list} /\ ~IsOpen(ComposeAll(list))
    BY <2>4, <2>7, ComposeAllOps
  <2>9. UNION {list[i].ops : i \in DOMAIN list} \subseteq P(n)
    BY <2>1, <2>4, <2>7
  <2>10. ~IsOpen(rest)
    BY <1>3, <2>2, <2>6 DEF IsOpen
  <2>11. Contribution(f, n).ops = rest.ops \cup ComposeAll(list).ops /\ ~IsOpen(Contribution(f, n))
    BY <2>5, <2>8, <2>10 DEF Compose, IsOpen
  <2> QED BY <2>6, <2>8, <2>9, <2>11 DEF P
<1> QED BY <1>2, <1>4, <1>5, <1>6, <1>7, <1>8

\* What is refused is wrong.
LEMMA RefusedWrong ==
    ASSUME RowsKept, FirstOrder, RowsSound, NEW f \in DOMAIN program, NEW n \in DOMAIN Body(f),
           Refused(f, n)
    PROVE  ~Right(Performed, f)
<1> DEFINE e == Body(f)[n]
<1>1. program \in Programs
  BY DEF RowsKept
<1>2. ~(e.kind = "call" /\ \E i \in DOMAIN e.args : ~Fits(ArgumentRow(f, e.args[i]), CallbackRow(e.fn, i)))
  <2> SUFFICES ASSUME e.kind = "call", NEW i \in DOMAIN e.args PROVE FALSE
    OBVIOUS
  <2>1. DOMAIN e.args = DOMAIN program[e.fn].callbacks /\ e.fn \in DOMAIN program
    BY <1>1, ResolvedBody, Ordered
  <2> QED BY <2>1 DEF FirstOrder
<1>3. e.kind = "try" /\ ~e.open /\ Remaining(f, e).ops \ Reraised(f, e) # {}
  BY <1>2 DEF Refused
<1>4. PICK o \in Remaining(f, e).ops : o \notin Reraised(f, e)
  BY <1>3
<1>5. e.body \in DOMAIN Body(f)
  BY <1>1, <1>3, OperandsIn
<1>6. effects[f][e.body] \in Row /\ effects[f][e.body].ops \subseteq Performs(Performed, f, NoCallbacks, e.body)
  BY <1>5 DEF RowsKept, RowsSound, SoundAt
<1>7. o \in effects[f][e.body].ops /\ o \notin Handled(e)
  BY <1>4, <1>6, RemainingIs
<1>8. ~(Performs(Performed, f, NoCallbacks, e.body) \subseteq Handled(e))
  BY <1>6, <1>7
<1> QED BY <1>3, <1>8 DEF Right

\* An annotation that is not kept is wrong.
LEMMA UnacceptedWrong ==
    ASSUME RowsKept, FirstOrder, RowsSound, NEW f \in DOMAIN program,
           program[f].annotated => row[f] = InitialRow(f),
           ~Accepted(f)
    PROVE  ~Right(Performed, f)
<1>1. program \in Programs /\ Len(Body(f)) \in DOMAIN Body(f)
  BY Ordered DEF RowsKept
<1>2. program[f].annotated /\ ~Admits(row[f], InferredRow(f))
  BY DEF Accepted
<1>3. row[f].ops = program[f].declared.ops
  BY <1>2 DEF InitialRow, Declared
<1>4. InferredRow(f).ops \subseteq BodyPerforms(Performed, f, NoCallbacks)
  BY <1>1 DEF InferredRow, BodyPerforms, RowsSound, SoundAt
<1>5. ~(BodyPerforms(Performed, f, NoCallbacks) \subseteq program[f].declared.ops)
  BY <1>2, <1>3, <1>4 DEF Admits
<1> QED BY <1>2, <1>5 DEF Right

-----------------------------------------------------------------------------
(* Tails.                                                                  *)

\* What every tail that a row has stands for: the callback of the function, an open one,
\* whose operations the row has, too.
OwnTail(f, r) ==
    IsOpen(r) => /\ program[f].callbacks # <<>> /\ program[f].callbacks[1].open
                 /\ r.tail = <<f, 1>>
                 /\ program[f].callbacks[1].ops \subseteq r.ops

TailsOwn ==
    /\ \A f \in DOMAIN program : OwnTail(f, row[f])
    /\ \A f \in DOMAIN program : \A n \in DOMAIN Body(f) : OwnTail(f, effects[f][n])

\* A function takes one callback or none.
LEMMA OneCallback ==
    ASSUME program \in Programs, Simple, NEW f \in DOMAIN program
    PROVE  /\ program[f].callbacks = <<>> => DOMAIN program[f].callbacks = {}
           /\ program[f].callbacks # <<>> => DOMAIN program[f].callbacks = {1}
<1>1. program[f].callbacks = <<>> => DOMAIN program[f].callbacks = {}
  OBVIOUS
<1>2. ASSUME program[f].callbacks # <<>> PROVE DOMAIN program[f].callbacks = {1}
  <2>1. Len(program[f].callbacks) = 1
    BY <1>2 DEF Simple
  <2>2. DOMAIN program[f].callbacks = 1 .. 1
    BY <2>1, Resolved DEF IsList
  <2> QED BY <2>2
<1> QED BY <1>1, <1>2

\* There are finitely many situations.
LEMMA FewSituations ==
    ASSUME program \in Programs, Simple
    PROVE  IsFiniteSet(Situation) /\ Cardinality(Situation) \in Nat
<1> DEFINE Of(f) == {<<f, does>> : does \in CallbacksDo(f)}
<1>1. ASSUME NEW f \in DOMAIN program PROVE IsFiniteSet(Of(f))
  <2>1. CASE program[f].callbacks = <<>>
    <3>1. CallbacksDo(f) = [{} -> SUBSET Op]
      BY <2>1, <1>1, OneCallback DEF CallbacksDo
    <3>2. \A x, y \in CallbacksDo(f) : x = y
      BY <3>1
    <3> DEFINE x == CHOOSE d : d \in CallbacksDo(f)
    <3>3. <<>> \in [{} -> SUBSET Op]
      OBVIOUS
    <3>4. CallbacksDo(f) = {x}
      BY <3>1, <3>2, <3>3
    <3>5. Of(f) = {<<f, x>>}
      BY <3>4
    <3> HIDE DEF x
    <3> QED BY <3>5, FS_Singleton
  <2>2. CASE program[f].callbacks # <<>>
    <3> DEFINE s == [o \in SUBSET Op |-> <<f, [i \in {1} |-> o]>>]
    <3>1. CallbacksDo(f) = [{1} -> SUBSET Op]
      BY <2>2, <1>1, OneCallback DEF CallbacksDo
    <3>2. \A d \in CallbacksDo(f) : d[1] \in SUBSET Op /\ d = [i \in {1} |-> d[1]]
      BY <3>1
    <3>3. \A o \in SUBSET Op : [i \in {1} |-> o] \in CallbacksDo(f)
      BY <3>1
    <3>4. s \in Surjection(SUBSET Op, Of(f))
      <4>1. s \in [SUBSET Op -> Of(f)]
        BY <3>3
      <4>2. ASSUME NEW x \in Of(f) PROVE \E o \in SUBSET Op : s[o] = x
        <5>1. PICK d \in CallbacksDo(f) : x = <<f, d>>
          BY <4>2
        <5>2. d[1] \in SUBSET Op /\ s[d[1]] = x
          BY <3>2, <5>1
        <5> QED BY <5>2
      <4> QED BY <4>1, <4>2 DEF Surjection
    <3>5. IsFiniteSet(SUBSET Op)
      BY OperationsAreFinite, FS_SUBSET
    <3> QED BY <3>4, <3>5, FS_Surjection
  <2> QED BY <2>1, <2>2
<1> DEFINE All == {Of(f) : f \in DOMAIN program}
<1>2. Situation = UNION All
  BY DEF Situation, CallbacksDo
<1>3. IsFiniteSet(DOMAIN program)
  <2>1. Len(program) \in Nat /\ DOMAIN program = 1 .. Len(program)
    BY ProgramsAreOrdered
  <2> QED BY <2>1, FS_Interval
<1>4. IsFiniteSet(All)
  <2> DEFINE s == [f \in DOMAIN program |-> Of(f)]
  <2>1. s \in Surjection(DOMAIN program, All)
    BY DEF Surjection
  <2> HIDE DEF s, All
  <2> QED BY <1>3, <2>1, FS_Surjection
<1>5. \A T \in All : IsFiniteSet(T)
  BY <1>1
<1> HIDE DEF All
<1>6. IsFiniteSet(Situation)
  BY <1>2, <1>4, <1>5, FS_UNION
<1> QED BY <1>6, FS_CardinalityType

\* One argument substitutes on its own.
LEMMA MergeOne ==
    ASSUME NEW list, IsList(list), DOMAIN list = {1}, NEW s \in Substitution, list[1] = s
    PROVE  MergeAll(list) = s
<1>1. Len(list) = 1
  <2>1. Len(list) \in Nat /\ 1 .. Len(list) = {1}
    BY DEF IsList
  <2>2. 1 \in 1 .. Len(list) /\ Len(list) \in 1 .. Len(list)
    BY <2>1
  <2> QED BY <2>1, <2>2
<1>2. PICK h \in [0 .. Len(list) -> Substitution] :
          /\ h[0] = <<>>
          /\ \A i \in 1 .. Len(list) : h[i] = Merge(h[i - 1], list[i])
          /\ MergeAll(list) = h[Len(list)]
  BY MergeAllIs
<1>3. MergeAll(list) = Merge(<<>>, s)
  <2>1. 1 \in 1 .. Len(list) /\ 1 - 1 = 0
    BY <1>1
  <2> QED BY <1>1, <1>2, <2>1
<1>4. s = [v \in DOMAIN s |-> s[v]]
  BY SubstitutionIs
<1>5. Merge(<<>>, s) = [v \in DOMAIN s |-> s[v]]
  BY DEF Merge
<1> QED BY <1>3, <1>4, <1>5

\* What an argument that fits a callback with an open row makes of the tail of that row.
StandsFor(x, a) == [t \in {x.tail} |-> [ops |-> Lacking(x, a), tail |-> a.tail]]

LEMMA BindingsOne ==
    ASSUME NEW a, NEW x, NEW fresh, IsOpen(x), Lacking(a, x) = {},
           IsOpen(a) => Lacking(x, a) = {}
    PROVE  Bindings(a, x, fresh) = StandsFor(x, a)
<1> DEFINE missing == Lacking(a, x)
           extra == Lacking(x, a)
           shared == IsOpen(a) /\ IsOpen(x) /\ (missing # {} \/ extra # {})
           ofActual   == [ops |-> missing, tail |-> IF shared THEN fresh ELSE NoTail]
           ofExpected == [ops |-> extra, tail |-> IF shared THEN fresh ELSE a.tail]
           bound == (IF IsOpen(x) THEN {x.tail} ELSE {})
                    \cup IF IsOpen(a) /\ (shared \/ ~IsOpen(x)) THEN {a.tail} ELSE {}
<1>1. ~shared
  OBVIOUS
<1> HIDE DEF shared, missing, extra
<1>2. bound = {x.tail}
  BY <1>1
<1>3. Bindings(a, x, fresh) = [t \in bound |-> IF t = x.tail THEN ofExpected ELSE ofActual]
  BY DEF Bindings, missing, extra, shared
<1>4. ofExpected = [ops |-> extra, tail |-> a.tail]
  BY <1>1
<1> HIDE DEF ofExpected, ofActual, bound
<1>5. [t \in bound |-> IF t = x.tail THEN ofExpected ELSE ofActual] = [t \in {x.tail} |-> ofExpected]
  BY <1>2
<1> QED BY <1>3, <1>4, <1>5 DEF extra, StandsFor

LEMMA ApplyOne ==
    ASSUME NEW r, NEW x, NEW a, r.tail = x.tail
    PROVE  Apply(r, StandsFor(x, a)) = [ops |-> r.ops \cup Lacking(x, a), tail |-> a.tail]
<1> DEFINE s == StandsFor(x, a)
           q == [ops |-> r.ops \cup Lacking(x, a), tail |-> a.tail]
           v == x.tail
<1>1. DOMAIN s = {v} /\ s[v].ops = Lacking(x, a) /\ s[v].tail = a.tail
  BY DEF StandsFor
<1>2. q.ops = r.ops \cup Lacking(x, a) /\ q.tail = a.tail /\ q = [ops |-> q.ops, tail |-> q.tail]
  OBVIOUS
<1>3. q.ops \cup Lacking(x, a) = q.ops
  BY <1>2
<1> HIDE DEF s
<1>4. Replace(r, s) = q
  BY <1>1 DEF Replace
<1> HIDE DEF q
<1>5. Replace(q, s) = q
  <2>1. CASE q.tail \in DOMAIN s
    BY <1>1, <1>2, <1>3, <2>1 DEF Replace
  <2>2. CASE q.tail \notin DOMAIN s
    BY <2>2 DEF Replace
  <2> QED BY <2>1, <2>2
<1> QED BY <1>4, <1>5 DEF Apply, s, q

-----------------------------------------------------------------------------
(* Tails and callbacks.                                                    *)

\* What the callbacks may perform.
Allowed(f, does) ==
    \A i \in DOMAIN does : program[f].callbacks[i].open \/ does[i] \subseteq program[f].callbacks[i].ops

\* What a row admits when the callback performs does[1].
Upto(r, does) == IF IsOpen(r) THEN r.ops \cup does[1] ELSE r.ops

\* The argument for a callback.
LEMMA ArgumentIs ==
    ASSUME RowsKept, Simple, TailsOwn, NEW f \in DOMAIN program, NEW n \in DOMAIN Body(f),
           Body(f)[n].kind = "call", NEW i \in DOMAIN Body(f)[n].args, ~Refused(f, n)
    PROVE  LET e == Body(f)[n]
               a == ArgumentRow(f, e.args[i])
               d == program[e.fn].callbacks[i]
           IN  /\ e.fn \in DOMAIN program /\ i = 1 /\ DOMAIN e.args = {1} /\ 1 \in DOMAIN program[e.fn].callbacks
               /\ DOMAIN e.args = DOMAIN program[e.fn].callbacks
               /\ OwnTail(f, a)
               /\ \/ e.args[i].kind = "lambda" /\ e.args[i].at \in Operands(Body(f), n)
                     /\ e.args[i].at \in DOMAIN Body(f)
                  \/ e.args[i].kind # "lambda" /\ e.args[i].at = 1 /\ 1 \in DOMAIN program[f].callbacks
               /\ d.open => d.ops \subseteq a.ops
               /\ ~d.open => a.ops \subseteq d.ops
               /\ IsOpen(a) => d.open /\ a.ops = d.ops
<1> DEFINE e == Body(f)[n]
           b == e.args[i]
           a == ArgumentRow(f, b)
           d == program[e.fn].callbacks[i]
           c == program[f].callbacks[1]
           x == CallbackRow(e.fn, i)
<1>1. program \in Programs /\ e.fn \in DOMAIN program
  BY Ordered DEF RowsKept
<1>2. DOMAIN e.args = DOMAIN program[e.fn].callbacks
  BY <1>1, ResolvedBody
<1>3. i = 1 /\ DOMAIN e.args = {1}
  BY <1>1, <1>2, OneCallback
<1>4. \/ b.kind = "lambda" /\ b.at \in Operands(Body(f), n) /\ b.at \in DOMAIN Body(f)
      \/ b.kind # "lambda" /\ b.at = 1 /\ 1 \in DOMAIN program[f].callbacks
  <2>1. CASE b.kind = "lambda"
    <3>1. b.at \in Operands(Body(f), n)
      BY <2>1 DEF Operands
    <3> QED BY <1>1, <2>1, <3>1, Ordered
  <2>2. CASE b.kind # "lambda"
    <3>1. b.at \in DOMAIN program[f].callbacks
      BY <1>1, <2>2, ResolvedBody
    <3> QED BY <1>1, <2>2, <3>1, OneCallback
  <2> QED BY <2>1, <2>2
<1>5. OwnTail(f, a)
  <2>1. CASE b.kind = "lambda"
    BY <1>4, <2>1 DEF ArgumentRow, TailsOwn
  <2>2. CASE b.kind # "lambda"
    <3>1. a = Declared(c, <<f, 1>>) /\ program[f].callbacks # <<>>
      BY <1>4, <2>2 DEF ArgumentRow, CallbackRow
    <3> QED BY <3>1 DEF OwnTail, Declared, IsOpen, NoTail
  <2> QED BY <2>1, <2>2
<1>6. Fits(a, x)
  BY DEF Refused
<1>7. x.ops = d.ops /\ (IsOpen(x) <=> d.open)
  BY DEF CallbackRow, Declared, IsOpen, NoTail
<1>8. ASSUME IsOpen(a) PROVE d.open /\ a.ops = d.ops
  <2>1. program[f].callbacks # <<>> /\ c.open
    BY <1>5, <1>8 DEF OwnTail
  <2>2. b.kind = "own" /\ d = c
    BY <2>1 DEF Simple
  <2>3. a = CallbackRow(f, 1)
    BY <1>4, <2>2 DEF ArgumentRow
  <2>4. a.ops = c.ops
    BY <2>3 DEF CallbackRow, Declared
  <2> QED BY <2>1, <2>2, <2>4
<1>9. d.open => d.ops \subseteq a.ops
  BY <1>6, <1>7, <1>8 DEF Fits, Lacking
<1>10. ~d.open => a.ops \subseteq d.ops
  BY <1>6, <1>7, <1>8 DEF Fits, Lacking
<1> QED BY <1>1, <1>2, <1>3, <1>4, <1>5, <1>8, <1>9, <1>10

\* The row of a call is that of the function, with the argument's row in place of the tail.
LEMMA CallRowIs ==
    ASSUME RowsKept, Simple, TailsOwn, NEW f \in DOMAIN program, NEW n \in DOMAIN Body(f),
           Body(f)[n].kind = "call", ~Refused(f, n), IsOpen(row[Body(f)[n].fn])
    PROVE  LET e == Body(f)[n]
               a == ArgumentRow(f, e.args[1])
               d == program[e.fn].callbacks[1]
           IN  /\ DOMAIN e.args = {1} /\ d.open /\ d.ops \subseteq row[e.fn].ops
               /\ CallRow(f, n) = [ops |-> row[e.fn].ops \cup (a.ops \ d.ops), tail |-> a.tail]
<1> DEFINE e == Body(f)[n]
           g == e.fn
           a == ArgumentRow(f, e.args[1])
           d == program[g].callbacks[1]
           x == CallbackRow(g, 1)
           Sub(i) == IF Fits(ArgumentRow(f, e.args[i]), CallbackRow(g, i))
                     THEN Bindings(ArgumentRow(f, e.args[i]), CallbackRow(g, i), <<f, n, i>>) ELSE <<>>
           list == [i \in DOMAIN e.args |-> Sub(i)]
           s == StandsFor(x, a)
<1>1. program \in Programs /\ g \in DOMAIN program /\ row[g] \in Row
  BY Ordered DEF RowsKept
<1>2. OwnTail(g, row[g]) /\ program[g].callbacks # <<>> /\ d.open /\ row[g].tail = <<g, 1>>
      /\ d.ops \subseteq row[g].ops
  BY <1>1 DEF TailsOwn, OwnTail
<1>3. IsList(e.args) /\ DOMAIN e.args = {1}
  BY <1>1, <1>2, OneCallback, ResolvedBody
<1>4. a \in Row
  BY <1>3, ArgumentRowIsRow
<1>5. d.ops \subseteq a.ops /\ (IsOpen(a) => a.ops = d.ops)
  BY <1>2, <1>3, ArgumentIs
<1>6. x = [ops |-> d.ops, tail |-> <<g, 1>>]
  BY <1>2 DEF CallbackRow, Declared
<1>7. x.ops = d.ops /\ x.tail = <<g, 1>> /\ IsOpen(x)
  <2>1. <<g, 1>> # NoTail
    BY DEF NoTail
  <2> HIDE DEF x
  <2> QED BY <1>6, <2>1 DEF IsOpen
<1>8. Fits(a, x)
  BY <1>3 DEF Refused
<1>9. Sub(1) = s
  <2>1. Lacking(a, x) = {} /\ IsOpen(x) /\ (IsOpen(a) => Lacking(x, a) = {})
    BY <1>5, <1>7 DEF Lacking
  <2> HIDE DEF a, x
  <2>2. Bindings(a, x, <<f, n, 1>>) = s
    BY <2>1, BindingsOne
  <2> QED BY <1>8, <2>2 DEF a, x
<1>10. s \in Substitution
  <2> DEFINE v == x.tail
             b == [ops |-> Lacking(x, a), tail |-> a.tail]
  <2>1. b \in Row
    BY <1>4, <1>7, CallbackRowIsRow, <1>1, <1>2, OneCallback DEF Row, Lacking
  <2>2. v \in Seq(Nat)
    BY <1>1, <1>2, OneCallback, CallbackRowIsRow DEF Row
  <2>3. s = [t \in {v} |-> b]
    BY DEF StandsFor
  <2> HIDE DEF b, v, s
  <2>4. s \in [{v} -> Row] /\ {v} \in SUBSET Seq(Nat)
    BY <2>1, <2>2, <2>3
  <2> QED BY <2>4 DEF Substitution
<1>11. CallRow(f, n) = Apply(row[g], MergeAll(list))
  BY DEF CallRow
<1> HIDE DEF Sub
<1>12. list \in [DOMAIN e.args -> Substitution] /\ list[1] = s /\ DOMAIN list = {1}
  BY <1>3, <1>9, <1>10
<1> HIDE DEF list, s
<1>13. IsList(list)
  BY <1>3, <1>12, ListOver
<1>14. MergeAll(list) = s
  BY <1>10, <1>12, <1>13, MergeOne
<1>15. Apply(row[g], s) = [ops |-> row[g].ops \cup Lacking(x, a), tail |-> a.tail]
  <2>1. row[g].tail = x.tail
    BY <1>2, <1>7
  <2> DEFINE r == row[g]
  <2> HIDE DEF a, x, r
  <2>2. Apply(r, StandsFor(x, a)) = [ops |-> r.ops \cup Lacking(x, a), tail |-> a.tail]
    <3>1. r.tail = x.tail
      BY <2>1 DEF r
    <3> QED BY <3>1, ApplyOne
  <2> QED BY <2>2 DEF s, r
<1>16. Lacking(x, a) = a.ops \ d.ops
  BY <1>7 DEF Lacking
<1> QED BY <1>2, <1>3, <1>11, <1>14, <1>15, <1>16

LEMMA ComposeOwn ==
    ASSUME NEW f, NEW a, NEW b, OwnTail(f, a), OwnTail(f, b)
    PROVE  OwnTail(f, Compose(a, b))
<1>1. Compose(a, b).ops = a.ops \cup b.ops /\ Compose(a, b).tail = IF IsOpen(a) THEN a.tail ELSE b.tail
  BY DEF Compose
<1> QED BY <1>1 DEF OwnTail, IsOpen

LEMMA ComposeAllOwn ==
    ASSUME NEW f, NEW rows, IsList(rows), \A i \in DOMAIN rows : rows[i] \in Row /\ OwnTail(f, rows[i])
    PROVE  /\ OwnTail(f, ComposeAll(rows))
           /\ \A i \in DOMAIN rows : IsOpen(rows[i]) => IsOpen(ComposeAll(rows))
<1> DEFINE n == Len(rows)
<1>1. n \in Nat /\ DOMAIN rows = 1 .. n
  BY DEF IsList
<1>2. PICK h \in [0 .. n -> Row] :
          /\ h[0] = Empty
          /\ \A i \in 1 .. n : h[i] = Compose(h[i - 1], rows[i])
          /\ ComposeAll(rows) = h[n]
  BY ComposeAllIs
<1> HIDE DEF n
<1> DEFINE Fine(k) == OwnTail(f, h[k]) /\ \A i \in 1 .. k : IsOpen(rows[i]) => IsOpen(h[k])
           S == {k \in Nat : Fine(k)}
<1>3. 0 \in S
  BY <1>2 DEF OwnTail, IsOpen, Empty
<1>4. ASSUME NEW k \in 1 .. n, k - 1 \in S PROVE k \in S
  <2>1. h[k] = Compose(h[k - 1], rows[k]) /\ k \in Nat /\ OwnTail(f, rows[k])
    BY <1>1, <1>2
  <2>2. OwnTail(f, h[k - 1])
    BY <1>4
  <2>3. OwnTail(f, h[k])
    BY <2>1, <2>2, ComposeOwn
  <2>4. (IsOpen(h[k - 1]) => IsOpen(h[k])) /\ (IsOpen(rows[k]) => IsOpen(h[k]))
    BY <2>1 DEF Compose, IsOpen
  <2>5. \A i \in 1 .. k : i = k \/ i \in 1 .. k - 1
    BY <2>1
  <2> QED BY <1>4, <2>1, <2>3, <2>4, <2>5
<1> HIDE DEF S
<1>5. n \in S
  <2>1. 0 .. n \subseteq S
    BY <1>1, <1>3, <1>4, UpTo
  <2> QED BY <1>1, <2>1
<1> QED BY <1>1, <1>2, <1>5 DEF S

\* A handler keeps the tail of its body.
LEMMA HandlersArePlain ==
    ASSUME program \in Programs, Simple, NEW f \in DOMAIN program, NEW n \in DOMAIN Body(f),
           Body(f)[n].kind \in {"resume", "try"}
    PROVE  program[f].callbacks = <<>>
<1>1. \E m \in DOMAIN Body(f) : Body(f)[m].kind = "try"
  BY ResolvedBody
<1> QED BY <1>1 DEF Simple

LEMMA PlainIsClosed ==
    ASSUME NEW f, NEW r, program[f].callbacks = <<>>, OwnTail(f, r)
    PROVE  ~IsOpen(r)
BY DEF OwnTail

LEMMA ContributionOwn ==
    ASSUME RowsKept, Simple, TailsOwn, NEW f \in DOMAIN program, NEW n \in DOMAIN Body(f), ~Refused(f, n)
    PROVE  OwnTail(f, Contribution(f, n))
<1> DEFINE e == Body(f)[n]
<1>1. program \in Programs /\ e.kind \in {"perform", "invoke", "call", "block", "resume", "try"}
  BY ResolvedBody DEF RowsKept
<1>2. \A m \in DOMAIN Body(f) : effects[f][m] \in Row /\ OwnTail(f, effects[f][m])
  BY DEF RowsKept, TailsOwn
<1>3. CASE e.kind = "perform"
  <2>1. Contribution(f, n) = [ops |-> {e.op}, tail |-> NoTail]
    BY <1>3 DEF Contribution
  <2> QED BY <2>1 DEF OwnTail, IsOpen
<1>4. CASE e.kind = "invoke"
  <2>1. Contribution(f, n) = CallbackRow(f, e.callback) /\ e.callback \in DOMAIN program[f].callbacks
    BY <1>1, <1>4, ResolvedBody DEF Contribution
  <2>2. e.callback = 1 /\ program[f].callbacks # <<>>
    BY <1>1, <2>1, OneCallback
  <2> QED BY <2>1, <2>2 DEF OwnTail, CallbackRow, Declared, IsOpen
<1>5. CASE e.kind = "call"
  <2> DEFINE g == e.fn
             a == ArgumentRow(f, e.args[1])
             d == program[g].callbacks[1]
  <2>1. Contribution(f, n) = CallRow(f, n) /\ g \in DOMAIN program
    BY <1>1, <1>5, Ordered DEF Contribution
  <2>2. CASE ~IsOpen(row[g])
    <3>1. Contribution(f, n) = row[g]
      BY <2>1, <2>2 DEF CallRow
    <3> QED BY <2>2, <3>1 DEF OwnTail
  <2>3. CASE IsOpen(row[g])
    <3>1. /\ DOMAIN e.args = {1} /\ d.ops \subseteq row[g].ops
          /\ Contribution(f, n) = [ops |-> row[g].ops \cup (a.ops \ d.ops), tail |-> a.tail]
      BY <1>5, <2>1, <2>3, CallRowIs
    <3>2. OwnTail(f, a)
      BY <1>5, <3>1, ArgumentIs
    <3>3. a.ops \subseteq Contribution(f, n).ops /\ Contribution(f, n).tail = a.tail
      BY <3>1
    <3> HIDE DEF a
    <3> QED BY <3>2, <3>3 DEF OwnTail, IsOpen
  <2> QED BY <2>2, <2>3
<1>6. CASE e.kind = "block"
  <2> DEFINE list == [i \in DOMAIN e.of |-> effects[f][e.of[i]]]
  <2>1. IsList(e.of) /\ \A i \in DOMAIN e.of : e.of[i] \in DOMAIN Body(f)
    BY <1>1, <1>6, OperandsIn
  <2>2. list \in [DOMAIN e.of -> Row] /\ \A i \in DOMAIN e.of : OwnTail(f, list[i])
    BY <1>2, <2>1
  <2>3. Contribution(f, n) = ComposeAll(list)
    BY <1>6 DEF Contribution
  <2> HIDE DEF list
  <2>4. IsList(list) /\ DOMAIN list = DOMAIN e.of /\ \A i \in DOMAIN list : list[i] \in Row
    BY <2>1, <2>2, ListOver
  <2> QED BY <2>2, <2>3, <2>4, ComposeAllOwn
<1>7. CASE e.kind = "resume"
  <2> DEFINE try == Body(f)[e.try]
  <2>1. try.body \in DOMAIN Body(f) /\ program[f].callbacks = <<>>
    BY <1>1, <1>7, OperandsIn, HandlersArePlain
  <2>2. ~IsOpen(effects[f][try.body]) /\ effects[f][try.body] \in Row
    BY <1>2, <2>1, PlainIsClosed
  <2>3. Contribution(f, n) = [effects[f][try.body] EXCEPT !.ops = effects[f][try.body].ops \ Handled(try)]
    BY <1>7 DEF Contribution, Resumed, Drop
  <2> HIDE DEF try
  <2>4. Contribution(f, n).tail = effects[f][try.body].tail
    BY <2>2, <2>3 DEF Row
  <2> QED BY <2>2, <2>4 DEF OwnTail, IsOpen
<1>8. CASE e.kind = "try"
  <2> DEFINE list == [i \in DOMAIN e.clauses |-> effects[f][e.clauses[i].body]]
             rest == Remaining(f, e)
  <2>1. /\ e.body \in DOMAIN Body(f) /\ IsList(e.clauses) /\ program[f].callbacks = <<>>
        /\ \A i \in DOMAIN e.clauses : e.clauses[i].body \in DOMAIN Body(f)
    BY <1>1, <1>8, OperandsIn, HandlersArePlain
  <2>2. list \in [DOMAIN e.clauses -> Row] /\ \A i \in DOMAIN e.clauses : OwnTail(f, list[i])
    BY <1>2, <2>1
  <2>3. Contribution(f, n) = Compose(rest, ComposeAll(list))
    BY <1>8 DEF Contribution, TryRow
  <2>4. rest.tail = effects[f][e.body].tail
    BY <1>2, <2>1, RemainingIs
  <2> HIDE DEF list, rest
  <2>5. ~IsOpen(rest)
    <3>1. ~IsOpen(effects[f][e.body])
      BY <1>2, <2>1, PlainIsClosed
    <3> QED BY <2>4, <3>1 DEF IsOpen
  <2>6. IsList(list) /\ DOMAIN list = DOMAIN e.clauses /\ \A i \in DOMAIN list : list[i] \in Row
    BY <2>1, <2>2, ListOver
  <2>7. OwnTail(f, ComposeAll(list))
    BY <2>2, <2>6, ComposeAllOwn
  <2>8. OwnTail(f, rest)
    BY <2>5 DEF OwnTail
  <2> QED BY <2>3, <2>7, <2>8, ComposeOwn
<1> QED BY <1>1, <1>3, <1>4, <1>5, <1>6, <1>7, <1>8

-----------------------------------------------------------------------------
(* A solution covers all that is performed, whatever callbacks perform.    *)

SolvedSimple ==
    /\ RowsKept /\ Simple /\ TailsOwn
    /\ \A f \in DOMAIN program : Solved(f) /\ (program[f].annotated => row[f] = InitialRow(f))

\* The rows of the functions cover a relation.
RowsBound(r) ==
    \A g \in DOMAIN program : \A does \in CallbacksDo(g) :
        Allowed(g, does) => OpsOf(r, g, does) \subseteq Upto(row[g], does)

\* Argument i of a call, when lambdas perform ops and callbacks does.
Argument(ops, does, b) == IF b.kind = "lambda" THEN ops[b.at] ELSE does[b.at]

LEMMA CallBounds ==
    ASSUME SolvedSimple, NEW f \in DOMAIN program, NEW n \in DOMAIN Body(f), Body(f)[n].kind = "call",
           NEW does \in CallbacksDo(f), Allowed(f, does), NEW r, RowsBound(r),
           NEW ops \in [DOMAIN Body(f) -> SUBSET Op],
           \A m \in Operands(Body(f), n) : ops[m] \subseteq Upto(effects[f][m], does)
    PROVE  Operations(r, f, does, ops, n) \subseteq Upto(Contribution(f, n), does)
<1> DEFINE e == Body(f)[n]
           g == e.fn
           d == program[g].callbacks[1]
           c == program[f].callbacks[1]
           a == ArgumentRow(f, e.args[1])
           w == [i \in DOMAIN e.args |-> Argument(ops, does, e.args[i])]
<1>1. /\ program \in Programs /\ RowsKept /\ Simple /\ TailsOwn /\ ~Refused(f, n)
      /\ g \in DOMAIN program /\ DOMAIN e.args = DOMAIN program[g].callbacks
  <2>1. program \in Programs
    BY DEF SolvedSimple, RowsKept
  <2>2. ~Refused(f, n)
    BY DEF SolvedSimple, Solved, Settled
  <2> QED BY <2>1, <2>2, Ordered, ResolvedBody DEF SolvedSimple
<1>2. Operations(r, f, does, ops, n) = OpsOf(r, g, w) /\ Contribution(f, n) = CallRow(f, n)
  BY DEF Operations, Argument, Contribution
<1>3. ASSUME NEW i \in DOMAIN e.args
      PROVE  /\ i = 1 /\ DOMAIN e.args = {1} /\ w[1] \in SUBSET Op
             /\ w[1] \subseteq Upto(a, does)
             /\ ~d.open => a.ops \subseteq d.ops /\ ~IsOpen(a)
             /\ d.ops \subseteq a.ops \/ ~d.open
  <2> DEFINE b == e.args[1]
  <2>1. /\ i = 1 /\ DOMAIN e.args = {1} /\ OwnTail(f, a)
        /\ \/ b.kind = "lambda" /\ b.at \in Operands(Body(f), n) /\ b.at \in DOMAIN Body(f)
           \/ b.kind # "lambda" /\ b.at = 1 /\ 1 \in DOMAIN program[f].callbacks
        /\ d.open => d.ops \subseteq a.ops
        /\ ~d.open => a.ops \subseteq d.ops
        /\ IsOpen(a) => d.open
    BY <1>1, <1>3, ArgumentIs
  <2>2. w[1] = Argument(ops, does, b)
    BY <2>1
  <2> HIDE DEF w
  <2>3. CASE b.kind = "lambda"
    <3>1. w[1] = ops[b.at] /\ a = effects[f][b.at]
      BY <2>2, <2>3 DEF Argument, ArgumentRow
    <3>2. ops[b.at] \in SUBSET Op
      BY <2>1, <2>3
    <3> HIDE DEF a, b
    <3> QED BY <2>1, <2>3, <3>1, <3>2
  <2>4. CASE b.kind # "lambda"
    <3>1. w[1] = does[1] /\ a = CallbackRow(f, 1) /\ 1 \in DOMAIN program[f].callbacks
      BY <2>1, <2>2, <2>4 DEF Argument, ArgumentRow
    <3>2. does[1] \in SUBSET Op /\ DOMAIN does = DOMAIN program[f].callbacks
      BY <3>1 DEF CallbacksDo
    <3>3. a.ops = c.ops /\ (IsOpen(a) <=> c.open)
      BY <3>1 DEF CallbackRow, Declared, IsOpen, NoTail
    <3>4. c.open \/ does[1] \subseteq c.ops
      BY <3>1, <3>2 DEF Allowed
    <3>5. does[1] \subseteq Upto(a, does)
      BY <3>3, <3>4 DEF Upto
    <3> HIDE DEF a, b
    <3> QED BY <2>1, <3>1, <3>2, <3>5
  <2> QED BY <2>3, <2>4
<1>4. w \in CallbacksDo(g)
  <2>1. \A i \in DOMAIN e.args : w[i] \in SUBSET Op
    BY <1>3
  <2> QED BY <1>1, <2>1 DEF CallbacksDo
<1>5. Allowed(g, w)
  <2>1. ASSUME NEW i \in DOMAIN e.args
        PROVE  program[g].callbacks[i].open \/ w[i] \subseteq program[g].callbacks[i].ops
    <3>1. i = 1
      BY <1>3, <2>1
    <3>2. w[1] \subseteq Upto(a, does) /\ (~d.open => a.ops \subseteq d.ops /\ ~IsOpen(a))
      BY <1>3, <2>1
    <3> HIDE DEF w, a
    <3>3. d.open \/ w[1] \subseteq d.ops
      BY <3>2 DEF Upto
    <3> QED BY <3>1, <3>3
  <2>2. DOMAIN w = DOMAIN e.args
    OBVIOUS
  <2> HIDE DEF w
  <2> QED BY <2>1, <2>2 DEF Allowed
<1>6. OpsOf(r, g, w) \subseteq Upto(row[g], w)
  BY <1>1, <1>4, <1>5 DEF RowsBound
<1>7. CASE ~IsOpen(row[g])
  <2>1. CallRow(f, n) = row[g]
    BY <1>7 DEF CallRow
  <2> HIDE DEF w
  <2> QED BY <1>2, <1>6, <1>7, <2>1 DEF Upto
<1>8. CASE IsOpen(row[g])
  <2>1. /\ DOMAIN e.args = {1} /\ d.open /\ d.ops \subseteq row[g].ops
        /\ CallRow(f, n) = [ops |-> row[g].ops \cup (a.ops \ d.ops), tail |-> a.tail]
    BY <1>1, <1>8, CallRowIs
  <2>2. w[1] \subseteq Upto(a, does) /\ d.ops \subseteq a.ops
    BY <1>3, <2>1
  <2> HIDE DEF w, a
  <2>3. CallRow(f, n).ops = row[g].ops \cup (a.ops \ d.ops) /\ CallRow(f, n).tail = a.tail
    BY <2>1
  <2>4. a.ops \subseteq CallRow(f, n).ops /\ row[g].ops \subseteq CallRow(f, n).ops
    BY <2>1, <2>3
  <2>5. Upto(a, does) \subseteq Upto(CallRow(f, n), does) /\ row[g].ops \subseteq Upto(CallRow(f, n), does)
    BY <2>3, <2>4 DEF Upto, IsOpen
  <2>6. Upto(row[g], w) = row[g].ops \cup w[1]
    BY <1>8 DEF Upto
  <2> QED BY <1>2, <1>6, <2>2, <2>5, <2>6
<1> QED BY <1>7, <1>8

LEMMA ContributionBounds ==
    ASSUME SolvedSimple, NEW f \in DOMAIN program, NEW n \in DOMAIN Body(f),
           NEW does \in CallbacksDo(f), Allowed(f, does), NEW r, RowsBound(r),
           NEW ops \in [DOMAIN Body(f) -> SUBSET Op],
           \A m \in Operands(Body(f), n) : ops[m] \subseteq Upto(effects[f][m], does)
    PROVE  Operations(r, f, does, ops, n) \subseteq Upto(Contribution(f, n), does)
<1> DEFINE e == Body(f)[n]
           all == Operations(r, f, does, ops, n)
<1>1. program \in Programs /\ e.kind \in {"perform", "invoke", "call", "block", "resume", "try"}
  BY ResolvedBody DEF SolvedSimple, RowsKept
<1>2. \A m \in DOMAIN Body(f) : effects[f][m] \in Row /\ OwnTail(f, effects[f][m])
  BY DEF SolvedSimple, RowsKept, TailsOwn
<1>3. CASE e.kind = "perform"
  <2>1. all = {e.op}
    BY <1>3 DEF Operations
  <2>2. Contribution(f, n) = [ops |-> {e.op}, tail |-> NoTail]
    BY <1>3 DEF Contribution
  <2> QED BY <2>1, <2>2 DEF Upto, IsOpen
<1>4. CASE e.kind = "invoke"
  <2> DEFINE c == program[f].callbacks[1]
  <2>1. Contribution(f, n) = CallbackRow(f, e.callback) /\ all = does[e.callback]
    BY <1>4 DEF Contribution, Operations
  <2>2. e.callback = 1 /\ 1 \in DOMAIN program[f].callbacks
    BY <1>1, <1>4, ResolvedBody, OneCallback DEF SolvedSimple
  <2>3. DOMAIN does = DOMAIN program[f].callbacks
    BY DEF CallbacksDo
  <2>4. c.open \/ does[1] \subseteq c.ops
    BY <2>2, <2>3 DEF Allowed
  <2>5. CallbackRow(f, 1).ops = c.ops /\ (IsOpen(CallbackRow(f, 1)) <=> c.open)
    BY DEF CallbackRow, Declared, IsOpen, NoTail
  <2> QED BY <2>1, <2>2, <2>4, <2>5 DEF Upto
<1>5. CASE e.kind = "call"
  BY <1>5, CallBounds
<1>6. CASE e.kind = "block"
  <2> DEFINE list == [i \in DOMAIN e.of |-> effects[f][e.of[i]]]
  <2>1. all = UNION {ops[e.of[i]] : i \in DOMAIN e.of}
    BY <1>6 DEF Operations
  <2>2. IsList(e.of) /\ \A i \in DOMAIN e.of : e.of[i] \in DOMAIN Body(f)
    BY <1>1, <1>6, OperandsIn
  <2>3. list \in [DOMAIN e.of -> Row] /\ \A i \in DOMAIN e.of : OwnTail(f, list[i])
    BY <1>2, <2>2
  <2>4. \A i \in DOMAIN e.of : ops[e.of[i]] \subseteq Upto(list[i], does)
    BY <1>6 DEF Operands
  <2>5. Contribution(f, n) = ComposeAll(list)
    BY <1>6 DEF Contribution
  <2> HIDE DEF list
  <2>6. IsList(list) /\ DOMAIN list = DOMAIN e.of /\ \A i \in DOMAIN list : list[i] \in Row
    BY <2>2, <2>3, ListOver
  <2>7. ComposeAll(list).ops = UNION {list[i].ops : i \in DOMAIN list}
    BY <2>6, ComposeAllOps
  <2>8. \A i \in DOMAIN list : IsOpen(list[i]) => IsOpen(ComposeAll(list))
    BY <2>3, <2>6, ComposeAllOwn
  <2>9. \A i \in DOMAIN list : Upto(list[i], does) \subseteq Upto(ComposeAll(list), does)
    BY <2>7, <2>8 DEF Upto
  <2> QED BY <2>1, <2>4, <2>5, <2>6, <2>9
<1>7. CASE e.kind = "resume"
  <2> DEFINE try == Body(f)[e.try]
  <2>1. all = ops[try.body] \ Handled(try)
    BY <1>7 DEF Operations
  <2>2. try.body \in DOMAIN Body(f) /\ program[f].callbacks = <<>>
    BY <1>1, <1>7, OperandsIn, HandlersArePlain DEF SolvedSimple
  <2>3. effects[f][try.body] \in Row /\ ~IsOpen(effects[f][try.body])
    BY <1>2, <2>2, PlainIsClosed
  <2>4. ops[try.body] \subseteq effects[f][try.body].ops
    BY <1>7, <2>3 DEF Operands, Upto
  <2>5. Contribution(f, n) = [effects[f][try.body] EXCEPT !.ops = effects[f][try.body].ops \ Handled(try)]
    BY <1>7 DEF Contribution, Resumed, Drop
  <2> HIDE DEF try
  <2>6. Contribution(f, n).ops = effects[f][try.body].ops \ Handled(try)
        /\ Contribution(f, n).tail = effects[f][try.body].tail
    BY <2>3, <2>5 DEF Row
  <2> QED BY <2>1, <2>3, <2>4, <2>6 DEF Upto, IsOpen
<1>8. CASE e.kind = "try"
  <2> DEFINE list == [i \in DOMAIN e.clauses |-> effects[f][e.clauses[i].body]]
             rest == Remaining(f, e)
  <2>1. all = (ops[e.body] \ Handled(e)) \cup UNION {ops[e.clauses[i].body] : i \in DOMAIN e.clauses}
    BY <1>8 DEF Operations
  <2>2. /\ e.body \in DOMAIN Body(f) /\ IsList(e.clauses) /\ program[f].callbacks = <<>>
        /\ \A i \in DOMAIN e.clauses : e.clauses[i].body \in DOMAIN Body(f)
    BY <1>1, <1>8, OperandsIn, HandlersArePlain DEF SolvedSimple
  <2>3. \A m \in DOMAIN Body(f) : ~IsOpen(effects[f][m])
    BY <1>2, <2>2, PlainIsClosed
  <2>4. Operands(Body(f), n) = {e.body} \cup {e.clauses[i].body : i \in DOMAIN e.clauses}
    BY <1>8 DEF Operands
  <2>5. /\ ops[e.body] \subseteq effects[f][e.body].ops
        /\ \A i \in DOMAIN e.clauses : ops[e.clauses[i].body] \subseteq list[i].ops
    BY <2>2, <2>3, <2>4 DEF Upto
  <2>6. list \in [DOMAIN e.clauses -> Row] /\ \A i \in DOMAIN e.clauses : ~IsOpen(list[i])
    BY <1>2, <2>2, <2>3
  <2>7. Contribution(f, n) = Compose(rest, ComposeAll(list))
    BY <1>8 DEF Contribution, TryRow
  <2>8. ops[e.body] \ Handled(e) \subseteq rest.ops
    BY <1>2, <2>2, <2>5, RemainingIs
  <2> HIDE DEF list, rest
  <2>9. IsList(list) /\ DOMAIN list = DOMAIN e.clauses /\ \A i \in DOMAIN list : list[i] \in Row
    BY <2>2, <2>6, ListOver
  <2>10. ComposeAll(list).ops = UNION {list[i].ops : i \in DOMAIN list}
    BY <2>9, ComposeAllOps
  <2>11. UNION {ops[e.clauses[i].body] : i \in DOMAIN e.clauses} \subseteq ComposeAll(list).ops
    BY <2>5, <2>9, <2>10
  <2>12. Contribution(f, n).ops = rest.ops \cup ComposeAll(list).ops
    BY <2>7 DEF Compose
  <2> QED BY <2>1, <2>8, <2>11, <2>12 DEF Upto
<1> QED BY <1>1, <1>3, <1>4, <1>5, <1>6, <1>7, <1>8

LEMMA EffectsBound ==
    ASSUME SolvedSimple, NEW f \in DOMAIN program, NEW n \in DOMAIN Body(f),
           NEW does \in CallbacksDo(f), Allowed(f, does), NEW r, RowsBound(r)
    PROVE  Performs(r, f, does, n) \subseteq Upto(effects[f][n], does)
<1>1. program \in Programs
  BY DEF SolvedSimple, RowsKept
<1>2. PICK ops \in [DOMAIN Body(f) -> SUBSET Op] :
          \A m \in DOMAIN Body(f) : /\ ops[m] = Operations(r, f, does, ops, m)
                                    /\ ops[m] = Performs(r, f, does, m)
  BY <1>1, PerformsIs
<1> DEFINE S == {m \in DOMAIN Body(f) : ops[m] \subseteq Upto(effects[f][m], does)}
<1>3. ASSUME NEW m \in DOMAIN Body(f), Operands(Body(f), m) \subseteq S PROVE m \in S
  <2>1. Operations(r, f, does, ops, m) \subseteq Upto(Contribution(f, m), does)
    BY <1>3, ContributionBounds
  <2>2. Compose(effects[f][m], Contribution(f, m)) = effects[f][m]
    BY DEF SolvedSimple, Solved, Settled
  <2>3. /\ Compose(effects[f][m], Contribution(f, m)).ops = effects[f][m].ops \cup Contribution(f, m).ops
        /\ IsOpen(Contribution(f, m)) => IsOpen(Compose(effects[f][m], Contribution(f, m)))
    BY DEF Compose, IsOpen
  <2>4. Upto(Contribution(f, m), does) \subseteq Upto(effects[f][m], does)
    BY <2>2, <2>3 DEF Upto
  <2> QED BY <1>2, <2>1, <2>4
<1> HIDE DEF S
<1>4. DOMAIN Body(f) \subseteq S
  BY <1>1, <1>3, OperandInduction
<1> QED BY <1>2, <1>4 DEF S

\* One round more.
LEMMA RoundBound ==
    ASSUME SolvedSimple, NEW r, RowsBound(r)
    PROVE  RowsBound(Round(r))
<1> SUFFICES ASSUME NEW f \in DOMAIN program, NEW does \in CallbacksDo(f), Allowed(f, does),
                    NEW o \in OpsOf(Round(r), f, does)
             PROVE  o \in Upto(row[f], does)
  BY DEF RowsBound
<1>1. program \in Programs /\ Len(Body(f)) \in DOMAIN Body(f)
  BY Ordered DEF SolvedSimple, RowsKept
<1>2. o \in IF program[f].annotated THEN program[f].declared.ops ELSE BodyPerforms(r, f, does)
  <2>1. <<<<f, does>>, o>> \in Round(r)
    BY DEF OpsOf
  <2> DEFINE x == <<<<f, does>>, o>>
  <2>2. x[2] = o /\ x[1][1] = f /\ x[1][2] = does
    OBVIOUS
  <2>3. x[2] \in IF program[x[1][1]].annotated THEN program[x[1][1]].declared.ops
                 ELSE BodyPerforms(r, x[1][1], x[1][2])
    BY <2>1 DEF Round
  <2> HIDE DEF x
  <2> QED BY <2>2, <2>3
<1>3. CASE program[f].annotated
  <2>1. row[f] = InitialRow(f)
    BY <1>3 DEF SolvedSimple
  <2>2. row[f].ops = program[f].declared.ops
    BY <1>3, <2>1 DEF InitialRow, Declared
  <2> QED BY <1>2, <1>3, <2>2 DEF Upto
<1>4. CASE ~program[f].annotated
  <2>1. row[f] = effects[f][Len(Body(f))]
    BY <1>4 DEF SolvedSimple, Solved, NewRow, InferredRow
  <2>2. BodyPerforms(r, f, does) \subseteq Upto(effects[f][Len(Body(f))], does)
    BY <1>1, EffectsBound DEF BodyPerforms
  <2> QED BY <1>2, <1>4, <2>1, <2>2
<1> QED BY <1>3, <1>4

LEMMA PerformedBound ==
    ASSUME SolvedSimple
    PROVE  RowsBound(Performed)
<1> DEFINE n == Cardinality(Situation)
<1>1. program \in Programs /\ n \in Nat
  BY FewSituations DEF SolvedSimple, RowsKept
<1>2. PICK round : /\ round[0] = {}
                   /\ \A k \in 1 .. n : round[k] = Round(round[k - 1])
                   /\ Performed = round[n]
  BY <1>1, PerformedIs
<1> HIDE DEF n
<1> DEFINE S == {k \in Nat : RowsBound(round[k])}
<1>3. 0 \in S
  BY <1>2 DEF RowsBound, OpsOf
<1>4. ASSUME NEW k \in 1 .. n, k - 1 \in S PROVE k \in S
  <2>1. RowsBound(round[k - 1]) /\ round[k] = Round(round[k - 1]) /\ k \in Nat
    BY <1>1, <1>2, <1>4
  <2> QED BY <2>1, RoundBound
<1> HIDE DEF S
<1>5. n \in S
  <2>1. 0 .. n \subseteq S
    BY <1>1, <1>3, <1>4, UpTo
  <2> QED BY <1>1, <2>1
<1> QED BY <1>2, <1>5 DEF S

LEMMA SolvedCovers == SolvedSimple => CallbacksCovered
<1> SUFFICES ASSUME SolvedSimple, NEW p \in Situation,
                    \A i \in DOMAIN p[2] :
                        program[p[1]].callbacks[i].open \/ p[2][i] \subseteq program[p[1]].callbacks[i].ops
             PROVE  OpsOf(Performed, p[1], p[2]) \subseteq
                        row[p[1]].ops
                        \cup UNION {p[2][i] : i \in {j \in DOMAIN p[2] : row[p[1]].tail = <<p[1], j>>}}
  BY DEF CallbacksCovered
<1>1. PICK f \in DOMAIN program : p \in {<<f, does>> : does \in CallbacksDo(f)}
  BY DEF Situation, CallbacksDo
<1>2. PICK does \in CallbacksDo(f) : p[1] = f /\ p[2] = does
  BY <1>1
<1>3. Allowed(f, does)
  BY <1>2 DEF Allowed
<1>4. OpsOf(Performed, f, does) \subseteq Upto(row[f], does)
  BY <1>3, PerformedBound DEF RowsBound
<1>5. CASE ~IsOpen(row[f])
  BY <1>2, <1>4, <1>5 DEF Upto
<1>6. CASE IsOpen(row[f])
  <2>1. program[f].callbacks # <<>> /\ row[f].tail = <<f, 1>>
    BY <1>6 DEF SolvedSimple, TailsOwn, OwnTail
  <2>2. 1 \in DOMAIN does
    BY <2>1, OneCallback DEF SolvedSimple, RowsKept, CallbacksDo
  <2>3. does[1] \subseteq UNION {does[i] : i \in {j \in DOMAIN does : row[f].tail = <<f, j>>}}
    BY <2>1, <2>2
  <2> QED BY <1>2, <1>4, <1>6, <2>3 DEF Upto
<1> QED BY <1>5, <1>6

\* Without callbacks: what is solved is right and claims all that is performed.
LEMMA SolvedRight ==
    ASSUME SolvedSimple, FirstOrder, NEW f \in DOMAIN program
    PROVE  Right(Performed, f) /\ Does(f) \subseteq row[f].ops
<1>1. /\ program \in Programs /\ program[f].callbacks = <<>>
      /\ NoCallbacks \in CallbacksDo(f) /\ Allowed(f, NoCallbacks)
  <2>1. program \in Programs
    BY DEF SolvedSimple, RowsKept
  <2> QED BY <2>1, NoSituations DEF FirstOrder, Allowed, NoCallbacks
<1>2. ~IsOpen(row[f]) /\ \A n \in DOMAIN Body(f) : ~IsOpen(effects[f][n])
  BY <1>1, PlainIsClosed DEF SolvedSimple, TailsOwn
<1>3. Does(f) \subseteq row[f].ops
  <2>1. OpsOf(Performed, f, NoCallbacks) \subseteq Upto(row[f], NoCallbacks)
    BY <1>1, PerformedBound DEF RowsBound
  <2> QED BY <1>2, <2>1 DEF Does, Upto
<1>4. \A n \in DOMAIN Body(f) : Performs(Performed, f, NoCallbacks, n) \subseteq effects[f][n].ops
  <2> SUFFICES ASSUME NEW n \in DOMAIN Body(f)
               PROVE  Performs(Performed, f, NoCallbacks, n) \subseteq effects[f][n].ops
    OBVIOUS
  <2>1. Performs(Performed, f, NoCallbacks, n) \subseteq Upto(effects[f][n], NoCallbacks)
    BY <1>1, PerformedBound, EffectsBound
  <2> QED BY <1>2, <2>1 DEF Upto
<1>5. ASSUME program[f].annotated
      PROVE  BodyPerforms(Performed, f, NoCallbacks) \subseteq program[f].declared.ops
  <2>1. Len(Body(f)) \in DOMAIN Body(f)
    BY <1>1, Ordered
  <2>2. BodyPerforms(Performed, f, NoCallbacks) \subseteq InferredRow(f).ops
    BY <1>4, <2>1 DEF BodyPerforms, InferredRow
  <2>3. Admits(row[f], InferredRow(f)) /\ row[f] = InitialRow(f)
    BY <1>5 DEF SolvedSimple, Solved, Accepted
  <2>4. row[f].ops = program[f].declared.ops
    BY <1>5, <2>3 DEF InitialRow, Declared
  <2> QED BY <1>2, <2>2, <2>3, <2>4 DEF Admits
<1>6. ASSUME NEW n \in DOMAIN Body(f), Body(f)[n].kind = "try", ~Body(f)[n].open
      PROVE  Performs(Performed, f, NoCallbacks, Body(f)[n].body) \subseteq Handled(Body(f)[n])
  <2> DEFINE e == Body(f)[n]
  <2>1. e.body \in DOMAIN Body(f)
    BY <1>1, <1>6, OperandsIn
  <2>2. Performs(Performed, f, NoCallbacks, e.body) \subseteq effects[f][e.body].ops
    BY <1>4, <2>1
  <2>3. effects[f][e.body] \in Row /\ ~IsOpen(effects[f][e.body])
    BY <1>2, <2>1 DEF SolvedSimple, RowsKept
  <2>4. ~IsOpen(Remaining(f, e))
    BY <2>3, RemainingIs DEF IsOpen
  <2>5. ~Refused(f, n)
    BY DEF SolvedSimple, Solved, Settled
  <2>6. Remaining(f, e).ops \subseteq Reraised(f, e)
    BY <1>6, <2>4, <2>5 DEF Refused
  <2>7. effects[f][e.body].ops \subseteq Handled(e)
    BY <2>3, <2>6, RemainingIs
  <2> QED BY <2>2, <2>7
<1> QED BY <1>3, <1>5, <1>6 DEF Right

-----------------------------------------------------------------------------
(* The verdict.                                                            *)

\* Annotated functions have the row that they declare, tails stand for callbacks, no row claims
\* too much, and what is rejected is wrong.
Claims ==
    /\ RowTypes
    /\ \A f \in DOMAIN program : program[f].annotated => row[f] = InitialRow(f)
    /\ Simple => TailsOwn
    /\ FirstOrder => /\ RowsSound
                     /\ mode = "rejected" =>
                          untyped # {} \/ \E f \in DOMAIN program : ~Right(Performed, f)

\* What a program performs is a matter of the program only.
LEMMA ProgramFixes ==
    ASSUME program' = program
    PROVE  /\ FirstOrder' = FirstOrder /\ Simple' = Simple
           /\ \A f, r : OwnTail(f, r)' = OwnTail(f, r)
           /\ \A f : Does(f)' = Does(f) /\ Right(Performed, f)' = Right(Performed, f)
                     /\ InitialRow(f)' = InitialRow(f) /\ Body(f)' = Body(f)
           /\ \A f, n : Performs(Performed, f, NoCallbacks, n)' = Performs(Performed, f, NoCallbacks, n)
<1>1. FirstOrder' = FirstOrder
  BY DEF FirstOrder
<1>2. \A f : InitialRow(f)' = InitialRow(f) /\ Body(f)' = Body(f)
  BY DEF InitialRow, Body
<1>3. Performed' = Performed
  BY DEF Performed, Situation, BodyPerforms, Performs, Body, Handled, OpsOf
<1>4. \A f, n : Performs(Performed, f, NoCallbacks, n)' = Performs(Performed, f, NoCallbacks, n)
  BY <1>3 DEF Performs, Body, Handled, OpsOf
<1>5. \A f : Does(f)' = Does(f)
  BY <1>3 DEF Does, OpsOf
<1>6. \A f : Right(Performed, f)' = Right(Performed, f)
  BY <1>3 DEF Right, BodyPerforms, Performs, Body, Handled, OpsOf
<1>7. Simple' = Simple
  BY <1>2 DEF Simple, GenericFree
<1>8. \A f, r : OwnTail(f, r)' = OwnTail(f, r)
  BY DEF OwnTail, IsOpen, NoTail
<1> QED BY <1>1, <1>2, <1>4, <1>5, <1>6, <1>7, <1>8

\* A step that leaves the rows alone.
LEMMA ClaimsKept ==
    ASSUME Claims, RowTypes', UNCHANGED <<program, row, effects>>,
           FirstOrder /\ mode' = "rejected" =>
               untyped' # {} \/ \E f \in DOMAIN program : ~Right(Performed, f)
    PROVE  Claims'
<1>1. \A f \in DOMAIN program' : program'[f].annotated => row'[f] = InitialRow(f)'
  BY ProgramFixes DEF Claims
<1>2. ASSUME FirstOrder' PROVE RowsSound'
  <2>1. RowsSound
    BY <1>2, ProgramFixes DEF Claims
  <2>2. ASSUME NEW f \in DOMAIN program PROVE RowSound(f)'
    BY <2>1, ProgramFixes DEF RowsSound, RowSound, IsOpen, NoTail
  <2>3. ASSUME NEW f \in DOMAIN program, NEW n \in DOMAIN Body(f) PROVE SoundAt(f, n)'
    BY <2>1, ProgramFixes DEF RowsSound, SoundAt, IsOpen, NoTail
  <2> QED BY <2>2, <2>3, ProgramFixes DEF RowsSound
<1>3. ASSUME FirstOrder', mode' = "rejected"
      PROVE  untyped' # {} \/ \E f \in DOMAIN program' : ~Right(Performed, f)'
  BY <1>3, ProgramFixes
<1>4. ASSUME Simple' PROVE TailsOwn'
  <2>1. TailsOwn
    BY <1>4, ProgramFixes DEF Claims
  <2>2. ASSUME NEW f \in DOMAIN program PROVE OwnTail(f, row[f])'
    BY <2>1 DEF TailsOwn, OwnTail, IsOpen, NoTail
  <2>3. ASSUME NEW f \in DOMAIN program, NEW n \in DOMAIN Body(f) PROVE OwnTail(f, effects[f][n])'
    BY <2>1 DEF TailsOwn, OwnTail, IsOpen, NoTail
  <2> QED BY <2>2, <2>3, ProgramFixes DEF TailsOwn
<1> QED BY <1>1, <1>2, <1>3, <1>4 DEF Claims

LEMMA ClaimsInit == Init => Claims
<1> SUFFICES ASSUME Init PROVE Claims
  OBVIOUS
<1>1. RowTypes /\ program \in Programs /\ mode = "relaxed"
  BY TypesInit DEF Init
<1>2. \A f \in DOMAIN program : row[f] = InitialRow(f)
  BY DEF Init
<1>3. ASSUME FirstOrder, NEW f \in DOMAIN program PROVE RowSound(f)
  <2>1. CASE program[f].annotated
    <3>1. ~program[f].declared.open
      BY <1>3 DEF FirstOrder
    <3>2. row[f] = [ops |-> program[f].declared.ops, tail |-> NoTail]
      BY <1>2, <2>1, <3>1 DEF InitialRow, Declared
    <3>3. program[f].declared.ops \subseteq Does(f)
      BY <1>1, <1>3, <2>1, DoesIncludes
    <3>4. row[f].ops = program[f].declared.ops /\ row[f].tail = NoTail
      BY <3>2
    <3> QED BY <3>3, <3>4 DEF RowSound, IsOpen
  <2>2. CASE ~program[f].annotated
    <3>1. row[f] = Empty
      BY <1>2, <2>2 DEF InitialRow
    <3>2. row[f].ops = {} /\ row[f].tail = NoTail
      BY <3>1 DEF Empty
    <3> QED BY <3>2 DEF RowSound, IsOpen
  <2> QED BY <2>1, <2>2
<1>4. ASSUME NEW f \in DOMAIN program, NEW n \in DOMAIN Body(f) PROVE SoundAt(f, n)
  <2>1. effects[f][n] = Empty
    BY DEF Init
  <2> QED BY <2>1 DEF Empty, SoundAt, IsOpen
<1>5. ASSUME Simple PROVE TailsOwn
  <2>1. ASSUME NEW f \in DOMAIN program PROVE ~IsOpen(row[f])
    <3>1. ~program[f].declared.open
      BY <1>5, <2>1 DEF Simple
    <3>2. row[f] = [ops |-> program[f].declared.ops, tail |-> NoTail] \/ row[f] = [ops |-> {}, tail |-> NoTail]
      BY <1>2, <3>1 DEF InitialRow, Declared, Empty
    <3>3. row[f].tail = NoTail
      BY <3>2
    <3> QED BY <3>3 DEF IsOpen
  <2>2. ASSUME NEW f \in DOMAIN program, NEW n \in DOMAIN Body(f) PROVE ~IsOpen(effects[f][n])
    BY <1>4, <2>2 DEF SoundAt
  <2> QED BY <2>1, <2>2 DEF TailsOwn, OwnTail
<1> QED BY <1>1, <1>2, <1>3, <1>4, <1>5 DEF Claims, RowsSound

LEMMA ClaimsBegins == Claims /\ BeginFunction => Claims'
<1> SUFFICES ASSUME Claims, BeginFunction PROVE Claims'
  OBVIOUS
<1>1. RowTypes' /\ UNCHANGED <<program, row, effects>> /\ mode' # "rejected"
  BY TypesBegins DEF Claims, BeginFunction, Working
<1> QED BY <1>1, ClaimsKept

LEMMA ClaimsPasses == Claims /\ (EndRelaxedPass \/ EndStrictPass) => Claims'
<1> SUFFICES ASSUME Claims, EndRelaxedPass \/ EndStrictPass PROVE Claims'
  OBVIOUS
<1>1. RowTypes' /\ UNCHANGED <<program, row, effects, untyped>>
      /\ (mode' = "rejected" => untyped # {})
  BY TypesPasses DEF Claims, EndRelaxedPass, EndStrictPass
<1> QED BY <1>1, ClaimsKept

LEMMA ClaimsRejects ==
    ASSUME Claims, Reject, FirstOrder => \E f \in DOMAIN program : ~Right(Performed, f)
    PROVE  Claims'
<1>1. RowTypes' /\ UNCHANGED <<program, row, effects>>
  BY TypesRejects DEF Claims, Reject
<1> QED BY <1>1, ClaimsKept

LEMMA ClaimsTypes == Claims /\ TypeExpression => Claims'
<1> SUFFICES ASSUME Claims, TypeExpression PROVE Claims'
  OBVIOUS
<1> DEFINE g == Top.fn
           k == Top.at
<1>1. RowTypes /\ RowsKept /\ frames # <<>> /\ k <= Len(Body(g)) /\ mode \in {"relaxed", "strict"}
  BY RowTypesKept DEF Claims, TypeExpression, Working
<1>2. g \in DOMAIN program /\ k \in DOMAIN Body(g)
  <2>1. g \in DOMAIN program /\ k \in 1 .. Len(Body(g)) + 1
    BY <1>1, TopFrame
  <2>2. Len(Body(g)) \in Nat /\ DOMAIN Body(g) = 1 .. Len(Body(g))
    BY <1>1, <2>1, Ordered DEF RowsKept
  <2> QED BY <1>1, <2>1, <2>2
<1>3. CASE Refused(g, k)
  <2>1. Reject
    BY <1>3 DEF TypeExpression
  <2>2. FirstOrder => ~Right(Performed, g)
    BY <1>1, <1>2, <1>3, RefusedWrong DEF Claims
  <2> QED BY <1>2, <2>1, <2>2, ClaimsRejects
<1>4. CASE ~Refused(g, k)
  <2>1. /\ RowTypes' /\ UNCHANGED <<program, mode, row, untyped>>
        /\ effects' = [effects EXCEPT ![g][k] = Compose(@, Contribution(g, k))]
    BY <1>4, TypesTypes DEF Claims, TypeExpression
  <2>2. \A f \in DOMAIN program' : program'[f].annotated => row'[f] = InitialRow(f)'
    BY <2>1, ProgramFixes DEF Claims
  <2> HIDE DEF g, k
  <2>3. effects' = [f \in DOMAIN program |-> [n \in DOMAIN Body(f) |->
            IF f = g /\ n = k THEN Compose(effects[g][k], Contribution(g, k)) ELSE effects[f][n]]]
    <3>1. Shape
      BY <1>1 DEF RowTypes
    <3>2. effects' = [effects EXCEPT ![g][k] = Compose(effects[g][k], Contribution(g, k))]
      BY <2>1
    <3> QED BY <1>2, <3>1, <3>2 DEF Shape
  <2>4. ASSUME FirstOrder PROVE RowsSound'
    <3>1. RowsSound
      BY <2>4 DEF Claims
    <3>2. ASSUME NEW f \in DOMAIN program PROVE RowSound(f)'
      BY <2>1, <3>1, ProgramFixes DEF RowsSound, RowSound, IsOpen, NoTail
    <3>3. ASSUME NEW f \in DOMAIN program, NEW n \in DOMAIN Body(f) PROVE SoundAt(f, n)'
      <4>1. ~IsOpen(effects'[f][n]) /\ effects'[f][n].ops \subseteq Performs(Performed, f, NoCallbacks, n)
        <5>1. SoundAt(f, n) /\ SoundAt(g, k)
          BY <1>2, <3>1, <3>3 DEF RowsSound
        <5>2. CASE f = g /\ n = k
          <6>1. effects'[f][n] = Compose(effects[g][k], Contribution(g, k))
            BY <2>3, <3>3, <5>2
          <6>2. ~IsOpen(Contribution(g, k)) /\ Contribution(g, k).ops \subseteq Performs(Performed, g, NoCallbacks, k)
            BY <1>1, <1>2, <2>4, <3>1, ContributionSound
          <6> QED BY <5>1, <5>2, <6>1, <6>2 DEF SoundAt, Compose, IsOpen
        <5>3. CASE ~(f = g /\ n = k)
          <6>1. effects'[f][n] = effects[f][n]
            BY <2>3, <3>3, <5>3
          <6> QED BY <5>1, <6>1 DEF SoundAt
        <5> QED BY <5>2, <5>3
      <4> QED BY <2>1, <4>1, ProgramFixes DEF SoundAt, IsOpen, NoTail
    <3> QED BY <2>1, <3>2, <3>3, ProgramFixes DEF RowsSound
  <2>5. mode' # "rejected"
    BY <1>1, <2>1
  <2>6. ASSUME Simple PROVE TailsOwn'
    <3>1. TailsOwn
      BY <2>6 DEF Claims
    <3>2. ASSUME NEW f \in DOMAIN program PROVE OwnTail(f, row[f])'
      BY <2>1, <3>1 DEF TailsOwn, OwnTail, IsOpen, NoTail
    <3>3. ASSUME NEW f \in DOMAIN program, NEW n \in DOMAIN Body(f) PROVE OwnTail(f, effects[f][n])'
      <4>1. OwnTail(f, effects'[f][n])
        <5>1. CASE f = g /\ n = k
          <6>1. effects'[f][n] = Compose(effects[g][k], Contribution(g, k))
            BY <2>3, <3>3, <5>1
          <6>2. OwnTail(g, effects[g][k])
            BY <1>2, <3>1 DEF TailsOwn
          <6>3. OwnTail(g, Contribution(g, k))
            <7>1. ~Refused(g, k)
              BY <1>4 DEF g, k
            <7> QED BY <1>1, <1>2, <2>6, <3>1, <7>1, ContributionOwn
          <6> QED BY <5>1, <6>1, <6>2, <6>3, ComposeOwn
        <5>2. CASE ~(f = g /\ n = k)
          <6>1. effects'[f][n] = effects[f][n]
            BY <2>3, <3>3, <5>2
          <6> QED BY <3>1, <3>3, <6>1 DEF TailsOwn
        <5> QED BY <5>1, <5>2
      <4> QED BY <2>1, <4>1 DEF OwnTail, IsOpen, NoTail
    <3> QED BY <2>1, <3>2, <3>3, ProgramFixes DEF TailsOwn
  <2> QED BY <2>1, <2>2, <2>4, <2>5, <2>6, ProgramFixes DEF Claims
<1> QED BY <1>3, <1>4

LEMMA ClaimsEnds == Claims /\ EndBody => Claims'
<1> SUFFICES ASSUME Claims, NEW g \in DOMAIN program, EndFunction(g) \/ EndGeneric(g)
             PROVE  Claims'
  BY DEF EndBody
<1>1. RowTypes /\ RowsKept /\ mode \in {"relaxed", "strict"}
  BY RowTypesKept DEF Claims, EndFunction, EndGeneric, BodyTyped, Working
<1>2. CASE ~Accepted(g)
  <2>1. Reject
    BY <1>2 DEF EndFunction, EndGeneric
  <2>2. FirstOrder => ~Right(Performed, g)
    BY <1>1, <1>2, UnacceptedWrong DEF Claims
  <2> QED BY <2>1, <2>2, ClaimsRejects
<1>3. CASE Accepted(g)
  <2>1. RowTypes' /\ UNCHANGED <<program, mode, effects>> /\ row' = [row EXCEPT ![g] = NewRow(g)]
    <3>1. RowTypes'
      BY <1>1, TypesEnds DEF EndBody
    <3> QED BY <1>3, <3>1 DEF EndFunction, EndGeneric
  <2>2. \A f \in DOMAIN program : row'[f] = IF f = g THEN NewRow(g) ELSE row[f]
    BY <1>1, <2>1 DEF RowTypes, Shape
  <2>3. \A f \in DOMAIN program' : program'[f].annotated => row'[f] = InitialRow(f)'
    BY <2>1, <2>2, ProgramFixes DEF Claims, NewRow
  <2>4. ASSUME FirstOrder PROVE RowsSound'
    <3>1. RowsSound
      BY <2>4 DEF Claims
    <3>2. ~IsOpen(NewRow(g)) /\ NewRow(g).ops \subseteq Does(g)
      <4>1. CASE program[g].annotated
        BY <3>1, <4>1 DEF RowsSound, RowSound, NewRow
      <4>2. CASE ~program[g].annotated
        <5>1. program \in Programs /\ Len(Body(g)) \in DOMAIN Body(g)
          BY <1>1, Ordered DEF RowsKept
        <5>2. SoundAt(g, Len(Body(g)))
          BY <3>1, <5>1 DEF RowsSound
        <5>3. BodyPerforms(Performed, g, NoCallbacks) \subseteq Does(g)
          BY <2>4, <4>2, <5>1, DoesIncludes
        <5> QED BY <4>2, <5>2, <5>3 DEF NewRow, InferredRow, SoundAt, BodyPerforms
      <4> QED BY <4>1, <4>2
    <3>3. ASSUME NEW f \in DOMAIN program PROVE RowSound(f)'
      <4>1. ~IsOpen(row'[f]) /\ row'[f].ops \subseteq Does(f)
        BY <2>2, <3>1, <3>2 DEF RowsSound, RowSound
      <4> QED BY <2>1, <4>1, ProgramFixes DEF RowSound, IsOpen, NoTail
    <3>4. ASSUME NEW f \in DOMAIN program, NEW n \in DOMAIN Body(f) PROVE SoundAt(f, n)'
      BY <2>1, <3>1, ProgramFixes DEF RowsSound, SoundAt, IsOpen, NoTail
    <3> QED BY <2>1, <3>3, <3>4, ProgramFixes DEF RowsSound
  <2>5. mode' # "rejected"
    BY <1>1, <2>1
  <2>6. ASSUME Simple PROVE TailsOwn'
    <3>1. TailsOwn
      BY <2>6 DEF Claims
    <3>2. OwnTail(g, NewRow(g))
      <4>1. Len(Body(g)) \in DOMAIN Body(g)
        BY <1>1, Ordered DEF RowsKept
      <4> QED BY <3>1, <4>1 DEF TailsOwn, NewRow, InferredRow
    <3>3. ASSUME NEW f \in DOMAIN program PROVE OwnTail(f, row[f])'
      <4>1. OwnTail(f, row'[f])
        BY <2>2, <3>1, <3>2 DEF TailsOwn
      <4> QED BY <2>1, <4>1 DEF OwnTail, IsOpen, NoTail
    <3>4. ASSUME NEW f \in DOMAIN program, NEW n \in DOMAIN Body(f) PROVE OwnTail(f, effects[f][n])'
      BY <2>1, <3>1 DEF TailsOwn, OwnTail, IsOpen, NoTail
    <3> QED BY <2>1, <3>3, <3>4, ProgramFixes DEF TailsOwn
  <2> QED BY <2>1, <2>3, <2>4, <2>5, <2>6, ProgramFixes DEF Claims
<1> QED BY <1>2, <1>3

LEMMA ClaimsStutters == Claims /\ UNCHANGED vars => Claims'
<1> SUFFICES ASSUME Claims, UNCHANGED vars PROVE Claims'
  OBVIOUS
<1>1. RowTypes' /\ UNCHANGED <<program, mode, row, effects, untyped>>
  BY TypesStutters DEF Claims, vars
<1> QED BY <1>1, ClaimsKept DEF Claims

\* Rows that solve the equations of a program are a solution in the sense above.
LEMMA DoneIsSolved ==
    ASSUME Claims, RowsSolve, Simple, mode = "done"
    PROVE  SolvedSimple
<1>1. RowsKept /\ TailsOwn /\ GenericFree
  BY RowTypesKept DEF Claims, Simple
<1> QED BY <1>1 DEF SolvedSimple, RowsSolve, Claims

LEMMA ClaimsDecide == Claims /\ RowsSolve => VerdictRight /\ CallbacksCovered
<1> SUFFICES ASSUME Claims, RowsSolve PROVE VerdictRight /\ CallbacksCovered
  OBVIOUS
<1>1. CallbacksCovered
  <2>1. CASE mode = "done" /\ Simple
    BY <2>1, DoneIsSolved, SolvedCovers
  <2>2. CASE ~(mode = "done" /\ Simple)
    BY <2>2 DEF CallbacksCovered
  <2> QED BY <2>1, <2>2
<1>2. ASSUME FirstOrder, mode = "done"
      PROVE  \A f \in DOMAIN program : row[f].ops \subseteq Does(f) /\ ~IsOpen(row[f])
  BY <1>2 DEF Claims, RowsSound, RowSound
<1>3. ASSUME FirstOrder, mode = "done", GenericFree
      PROVE  \A f \in DOMAIN program : Right(Performed, f) /\ Does(f) \subseteq row[f].ops
  <2>1. Simple
    BY <1>3 DEF Simple, FirstOrder
  <2>2. SolvedSimple
    BY <1>3, <2>1, DoneIsSolved
  <2> QED BY <1>3, <2>2, SolvedRight
<1>4. FirstOrder /\ mode = "rejected" /\ untyped = {} => \E f \in DOMAIN program : ~Right(Performed, f)
  BY DEF Claims
<1>5. VerdictRight
  BY <1>2, <1>3, <1>4 DEF VerdictRight, Does
<1> QED BY <1>1, <1>5

LEMMA ClaimsHold == Spec => []Claims
<1>1. Init => Claims
  BY ClaimsInit
<1>2. Claims /\ [Next]_vars => Claims'
  BY ClaimsBegins, ClaimsTypes, ClaimsEnds, ClaimsPasses, ClaimsStutters DEF Next
<1> QED BY <1>1, <1>2, PTL DEF Spec

\* A module without callbacks is judged by what its functions perform: what inference accepts
\* keeps its annotations and handles what its handlers promise to, every row names what the
\* function performs and nothing else, and what inference refuses is wrong, whatever the order
\* of the functions.
THEOREM VerdictAlwaysRight == Spec => []VerdictRight
<1>1. Claims /\ RowsSolve => VerdictRight
  BY ClaimsDecide
<1> QED BY <1>1, ClaimsHold, RowsAlwaysSolve, PTL

\* A function that calls its callback or passes it on performs what its row names, and what
\* the callback performs if its row has a tail: no caller meets an operation that the type of
\* the function does not show.
THEOREM CallbacksAlwaysCovered == Spec => []CallbacksCovered
<1>1. Claims /\ RowsSolve => CallbacksCovered
  BY ClaimsDecide
<1> QED BY <1>1, ClaimsHold, RowsAlwaysSolve, PTL

=============================================================================
