------------------------------- MODULE MCDsl -------------------------------
(***************************************************************************)
(* Sources printed from every workflow of up to three tasks, from variants *)
(* of a small one, and cut off or damaged copies of one with every         *)
(* construct.                                                              *)
(***************************************************************************)
EXTENDS Dsl

W(w) == Lexeme("word", w)
M(c) == Lexeme("mark", c)
S(s) == Lexeme("string", s)
N(n) == Lexeme("number", n)
Blank == Lexeme("blank", "")
Comment == Lexeme("comment", "")

\* Dependencies as names and as strings, with a comma after each.
PrintDepends(deps) ==
    IF deps = << >> THEN << >>
    ELSE <<W("depends"), M(":"), M("[")>>
         \o FlattenSeq([k \in 1..Len(deps) |->
                          <<IF k = 1 THEN S(deps[k]) ELSE W(deps[k]), M(",")>>])
         \o <<M("]")>>

PrintTask(t) ==
    <<W("task"), W(t.id), M(":"), M("{"), Blank, W("handler"), M(":"), S(t.handler),
      W("timeout"), M(":"), N(t.timeoutMs)>>
    \o PrintDepends(t.dependsOn)
    \o (IF t.optional THEN <<W("optional")>> ELSE << >>) \o <<M("}")>>

PrintConstraint(c) ==
    <<W("constraint"), W(c.id), M(":"), M("{"), W("expr"), M(":"), S(c.expr), W(c.severity), M("}")>>

PrintWorkflow(w) ==
    <<Comment, W("workflow"), W(w.name), M(":"), M("{"), W("version"), M(":"), N(w.version)>>
    \o FlattenSeq([k \in 1..Len(w.tasks) |-> PrintTask(w.tasks[k])])
    \o FlattenSeq([k \in 1..Len(w.constraints) |-> PrintConstraint(w.constraints[k])])
    \o <<M("}")>>

\* A timeout of one is below the limit of the handler, two meets and three exceeds it.
TheDefaults == [h |-> 1]

Task(id, deps) == [NewTask(id) EXCEPT !.handler = "h", !.dependsOn = deps,
                                      !.timeoutMs = CASE id = "a" -> 1 [] id = "b" -> 2 [] OTHER -> 3]
Flow(tasks, constraints) ==
    [name |-> "w", version |-> 1, tasks |-> tasks, constraints |-> constraints]

Printed(w) == [lexemes |-> PrintWorkflow(w), meant |-> w]

DepLists == {<< >>, <<"a">>, <<"b">>, <<"c", "a">>, <<"d">>}
Graphs ==
    {<<Task(x, d), Task(y, e), Task(z, f)>> :
        x \in {"a", "b"}, y \in {"a", "b"}, z \in {"b", "c"},
        d \in DepLists, e \in DepLists, f \in DepLists}

Stop == [NewConstraint("k") EXCEPT !.expr = "always"]
Tell == [NewConstraint("l") EXCEPT !.expr = "ctx.a", !.severity = "warn"]

Variants ==
    {Flow(<< >>, << >>), Flow(<<Task("a", << >>)>>, <<Stop, Tell>>),
     [Flow(<<Task("a", << >>)>>, << >>) EXCEPT !.version = 0],
     Flow(<<[Task("a", << >>) EXCEPT !.timeoutMs = 0]>>, << >>),
     Flow(<<[Task("a", << >>) EXCEPT !.handler = "g"]>>, << >>),
     Flow(<<[Task("a", << >>) EXCEPT !.optional = TRUE], Task("b", <<"a">>)>>, <<Tell>>)}

Whole == PrintWorkflow(Flow(<<Task("a", << >>), [Task("b", <<"a", "a">>) EXCEPT !.optional = TRUE]>>,
                            <<Stop>>))
Damaged(lexemes) == [lexemes |-> lexemes, meant |-> NoFlow]

AllSources ==
    {Printed(Flow(tasks, << >>)) : tasks \in Graphs} \cup {Printed(w) : w \in Variants}
      \cup {Damaged(SubSeq(Whole, 1, k)) : k \in 0..Len(Whole)}
      \cup {Damaged(RemoveAt(Whole, k)) : k \in 1..Len(Whole)}
      \cup {Damaged(ReplaceAt(Whole, k, x)) :
              k \in 1..Len(Whole), x \in {W("x"), W("task"), M("->"), Lexeme("other", "")}}

FewSources == {Printed(w) : w \in Variants} \cup {Damaged(SubSeq(Whole, 1, k)) : k \in 0..Len(Whole)}
=============================================================================
