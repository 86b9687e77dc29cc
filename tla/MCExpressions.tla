---------------------------- MODULE MCExpressions ----------------------------
(***************************************************************************)
(* Trees of up to three levels with every precedence, their texts with as  *)
(* few parentheses as the grammar allows.                                  *)
(***************************************************************************)
EXTENDS Expressions

TheWords == {"ctx", "output", "a", "t", "x", "f", "true", "false", "null",
             "isempty", "length", "contains", "coalesce"}

\* The levels of parseOr .. parseMul, then parseUnary, then parsePrimary.
LevelOf(node) ==
    CASE node.kind = "binary" -> CHOOSE k \in 1..Len(OpsAt) : node.op \in OpsAt[k]
      [] node.kind = "unary"  -> Len(OpsAt) + 1
      [] OTHER -> Len(OpsAt) + 2

RenderValue(v) ==
    CASE v.kind = "number"  -> <<ToString(CHOOSE n \in v.value : TRUE)>>
      [] v.kind = "string"  -> <<"'">> \o v.value \o <<"'">>
      [] v.kind = "boolean" -> IF v.value THEN <<"true">> ELSE <<"false">>
      [] v.kind = "null"    -> <<"null">>

RECURSIVE Render(_), Within(_, _)
Within(level, node) ==
    IF LevelOf(node) < level THEN <<"(">> \o Render(node) \o <<")">> ELSE Render(node)

Render(node) ==
    CASE node.kind = "literal" -> RenderValue(node.value)
      [] node.kind = "ident"   -> node.name
      [] node.kind = "unary"   ->
           (IF node.op = "not" THEN <<"!">> ELSE <<"-">>) \o Within(LevelOf(node), node.arg)
      [] node.kind = "binary"  ->
           LET k == LevelOf(node)
           IN  Within(IF k = Comparison THEN k + 1 ELSE k, node.left)
               \o node.op \o Within(k + 1, node.right)
      [] node.kind = "call"    ->
           node.name \o <<"(">>
           \o FlattenSeq([i \in 1..Len(node.args) |->
                            IF i = 1 THEN Render(node.args[i])
                                     ELSE <<",", " ">> \o Render(node.args[i])])
           \o <<")">>

A == Ident(<<"ctx", ".", "a">>)
Leaves == {A, Ident(<<"output", ".", "t", ".", "x">>), Literal(Num({1})), Literal(Str(<<"x">>)),
           Literal(Str(<<"-">>)), Literal(Bool(TRUE)), Literal(Null),
           Call(<<"isempty">>, <<A>>), Call(<<"f">>, << >>),
           Call(<<"coalesce">>, <<A, Literal(Str(<<"x">>))>>),
           Call(<<"contains">>, <<Literal(Str(<<"x", " ", "1">>)), A>>)}
Ops == UNION {OpsAt[k] : k \in 1..Len(OpsAt)} \ {<<"/">>}
OneOfEach == {<<"|", "|">>, <<"&", "&">>, <<"=", "=">>, <<"<", "=">>, <<"-">>, <<"+">>, <<"*">>}

Flat  == {Binary(op, l, r) : op \in Ops, l \in Leaves, r \in Leaves}
           \cup {Unary(op, x) : op \in {"not", "neg"}, x \in Leaves}
Small == {Binary(op, A, Literal(Num({1}))) : op \in OneOfEach}
           \cup {Unary(op, A) : op \in {"not", "neg"}} \cup {A}
Deep  == {Binary(op, l, r) : op \in OneOfEach, l \in Small, r \in Small}
Trees == Flat \cup Deep \cup {Unary(op, x) : op \in {"not", "neg"}, x \in Deep}
           \cup {Binary(op, Binary(p, A, x), y) :
                    op \in OneOfEach, p \in OneOfEach, x \in Small, y \in {A}}

ConstraintOf(tree, severity) ==
    [text |-> Render(tree), severity |-> severity, meant |-> tree]

Broken == [text |-> <<"x", "=", "=", "?">>, severity |-> "block",
           meant |-> Call(<<"f">>, << >>)]

MeantLists ==
    {<<ConstraintOf(tree, "block")>> : tree \in Trees}
      \cup {<<Broken, ConstraintOf(tree, s)>> : tree \in Small, s \in {"warn", "block"}}

Env(a) == [context |-> ("a" :> a), taskOutputs |-> ("t" :> Obj("x" :> Num({1})))]
MeantEnvironments ==
    {Env(Num({1})), Env(Str(<<"x">>)),
     [context |-> ("t" :> Null), taskOutputs |-> ("a" :> Obj("x" :> Null))]}
=============================================================================
