-------------------------------- MODULE Dsl --------------------------------
(***************************************************************************)
(* The workflow language: WorkflowDslLexer, WorkflowDslParser,             *)
(* WorkflowDslOptimizer and WorkflowDslCompiler, and the registration of   *)
(* what they produce (DslService).                                         *)
(*                                                                         *)
(* A source is a sequence of lexemes; what a lexeme is spelled with, and   *)
(* its line and column, are left out.  The parser is a machine that takes  *)
(* one round of one of its loops at a time, so that a loop that never ends *)
(* is a behaviour of the model.  An error that is thrown is where =        *)
(* "error"; the server answers it and keeps nothing.                       *)
(***************************************************************************)
EXTENDS Integers, SequencesExt

CONSTANTS
    Names,          \* identifiers a source may use
    DefaultTimeout, \* the registry: handler -> the timeout of its manifest
    Sources,        \* the sources that are posted, each with the workflow it was
                    \* written for
    NoFlow          \* the source was not written for any

VARIABLES
    source,     \* the request
    tokens, i,  \* what the lexer returned, and the parser's position in it
    where,      \* the loop the parser is in, or how it was left
    ast,        \* the workflow node as far as it is built
    node        \* the task or constraint node under construction

vars == <<source, tokens, i, where, ast, node>>

-----------------------------------------------------------------------------
(* WorkflowDslLexer.                                                       *)

Keywords == {"workflow", "task", "constraint", "depends", "optional", "warn", "block",
             "timeout", "version", "handler", "expr"}

Punctuation == ("{" :> "lbrace" @@ "}" :> "rbrace" @@ "[" :> "lbracket" @@ "]" :> "rbracket"
                @@ ":" :> "colon" @@ "," :> "comma" @@ "->" :> "arrow")

Lexeme(form, value) == [form |-> form, value |-> value]

\* The type of the token a lexeme becomes.
TokenType(x) ==
    CASE x.form = "mark" -> Punctuation[x.value]
      [] x.form = "word" -> IF x.value \in Keywords THEN "keyword" ELSE "ident"
      [] x.form \in {"string", "number"} -> x.form

\* Blanks and comments are skipped and eof is added.  A source with any other
\* character throws: it has no tokens at all.
Tokenize(lexemes) ==
    IF \E k \in 1..Len(lexemes) : lexemes[k].form = "other" THEN << >>
    ELSE LET kept == SelectSeq(lexemes, LAMBDA x : x.form \notin {"blank", "comment"})
         IN  Append([k \in 1..Len(kept) |->
                        [type |-> TokenType(kept[k]), value |-> kept[k].value]],
                    [type |-> "eof", value |-> ""])

-----------------------------------------------------------------------------
(* WorkflowDslParser.                                                      *)

EmptyNode == [kind |-> "none"]
NewTask(id) == [kind |-> "task", id |-> id, handler |-> "", timeoutMs |-> 30000,
                dependsOn |-> << >>, optional |-> FALSE]
NewConstraint(id) == [kind |-> "constraint", id |-> id, expr |-> "", severity |-> "block"]

Type(k) == IF k <= Len(tokens) THEN tokens[k].type ELSE "eof"
Value(k) == tokens[k].value

\* The tokens from k on have these types.
Types(k, types) == \A n \in 1..Len(types) : Type(k + n - 1) = types[n]

IsKeyword(k, word) == Type(k) = "keyword" /\ Value(k) = word

Fail == where' = "error" /\ UNCHANGED <<tokens, i, ast, node>>

Init ==
    /\ source \in Sources
    /\ tokens = << >> /\ i = 1 /\ where = "posted"
    /\ ast = [name |-> "", version |-> 0, tasks |-> << >>, constraints |-> << >>]
    /\ node = EmptyNode

\* POST /api/v1/dsl/compile: the lexer runs over the whole source first.
Lex ==
    /\ where = "posted"
    /\ tokens' = Tokenize(source.lexemes)
    /\ where' = IF tokens' = << >> THEN "error" ELSE "header"
    /\ UNCHANGED <<source, i, ast, node>>

\* workflow <name>: { version: <number>
Header ==
    /\ where = "header"
    /\ IF /\ Types(1, <<"keyword", "ident", "colon", "lbrace", "keyword", "colon", "number">>)
          /\ Value(1) = "workflow" /\ Value(5) = "version"
       THEN /\ i' = 8
            /\ ast' = [ast EXCEPT !.name = Value(2), !.version = Value(7)]
            /\ where' = "workflow"
            /\ UNCHANGED <<tokens, node>>
       ELSE Fail
    /\ UNCHANGED source

\* A round of parse's loop: a task or a constraint begins.
Begin(word, new) ==
    /\ where = "workflow" /\ IsKeyword(i, word)
    /\ IF Types(i, <<"keyword", "ident", "colon", "lbrace">>)
       THEN /\ i' = i + 4
            /\ node' = [new EXCEPT !.id = Value(i + 1)]
            /\ where' = word
            /\ UNCHANGED <<tokens, ast>>
       ELSE Fail
    /\ UNCHANGED source

BeginTask == Begin("task", NewTask(""))
BeginConstraint == Begin("constraint", NewConstraint(""))

\* The loop ends at a brace; nothing looks at what follows it.  Anything else throws.
EndWorkflow ==
    /\ where = "workflow" /\ ~ IsKeyword(i, "task") /\ ~ IsKeyword(i, "constraint")
    /\ where' = IF Type(i) = "rbrace" THEN "parsed" ELSE "error"
    /\ UNCHANGED <<source, tokens, i, ast, node>>

\* handler: "<name>", timeout: <number>, expr: "<text>": a keyword, a colon, a value.
Field(loop, word, type, field) ==
    /\ where = loop /\ IsKeyword(i, word)
    /\ IF Types(i + 1, <<"colon", type>>)
       THEN /\ i' = i + 3
            /\ node' = [node EXCEPT ![field] = Value(i + 2)]
            /\ UNCHANGED <<tokens, where, ast>>
       ELSE Fail
    /\ UNCHANGED source

\* optional, warn, block: a keyword alone.
Flag(loop, word, field, value) ==
    /\ where = loop /\ IsKeyword(i, word)
    /\ i' = i + 1
    /\ node' = [node EXCEPT ![field] = value]
    /\ UNCHANGED <<source, tokens, where, ast>>

TaskField ==
    \/ Field("task", "handler", "string", "handler")
    \/ Field("task", "timeout", "number", "timeoutMs")
    \/ Flag("task", "optional", "optional", TRUE)

\* depends: [
BeginDepends ==
    /\ where = "task" /\ IsKeyword(i, "depends")
    /\ IF Types(i + 1, <<"colon", "lbracket">>)
       THEN i' = i + 3 /\ where' = "depends" /\ UNCHANGED <<tokens, ast, node>>
       ELSE Fail
    /\ UNCHANGED source

\* A round of the loop over the list: a name or a string, and a comma if there is one.
Dependency ==
    /\ where = "depends" /\ Type(i) # "rbracket"
    /\ IF Type(i) \in {"ident", "string"}
       THEN /\ i' = IF Type(i + 1) = "comma" THEN i + 2 ELSE i + 1
            /\ node' = [node EXCEPT !.dependsOn = Append(@, Value(i))]
            /\ UNCHANGED <<tokens, where, ast>>
       ELSE Fail
    /\ UNCHANGED source

EndDepends ==
    /\ where = "depends" /\ Type(i) = "rbracket"
    /\ i' = i + 1 /\ where' = "task"
    /\ UNCHANGED <<source, tokens, ast, node>>

\* The brace that ends a task; a task needs a handler.  Any other token throws.
EndTask ==
    /\ where = "task"
    /\ \A word \in {"handler", "timeout", "depends", "optional"} : ~ IsKeyword(i, word)
    /\ IF Type(i) = "rbrace" /\ node.handler # ""
       THEN /\ i' = i + 1 /\ where' = "workflow"
            /\ ast' = [ast EXCEPT !.tasks = Append(@, node)]
            /\ UNCHANGED <<tokens, node>>
       ELSE Fail
    /\ UNCHANGED source

ConstraintField ==
    \/ Field("constraint", "expr", "string", "expr")
    \/ Flag("constraint", "warn", "severity", "warn")
    \/ Flag("constraint", "block", "severity", "block")

EndConstraint ==
    /\ where = "constraint" /\ Type(i) = "rbrace"
    /\ i' = i + 1 /\ where' = "workflow"
    /\ ast' = [ast EXCEPT !.constraints = Append(@, node)]
    /\ UNCHANGED <<source, tokens, node>>

\* The loop of parseConstraint has no branch for any other token: it goes round
\* without taking one.
Spin ==
    /\ where = "constraint" /\ Type(i) # "rbrace"
    /\ \A word \in {"expr", "warn", "block"} : ~ IsKeyword(i, word)
    /\ UNCHANGED vars

ParserStep ==
    \/ Header \/ BeginTask \/ BeginConstraint \/ EndWorkflow
    \/ TaskField \/ BeginDepends \/ Dependency \/ EndDepends \/ EndTask
    \/ ConstraintField \/ EndConstraint

-----------------------------------------------------------------------------
(* WorkflowDslOptimizer.                                                   *)

Ids(tasks) == {tasks[k].id : k \in 1..Len(tasks)}

\* byId: of several tasks with one id the map keeps the last.
ById(tasks) ==
    [id \in Ids(tasks) |-> tasks[Max({k \in 1..Len(tasks) : tasks[k].id = id})]]

\* Faulty variant: a task is put out before the tasks it depends on.
RECURSIVE VisitTooEarly(_, _, _)
VisitTooEarly(id, byId, st) ==
    IF id \in st.visited \/ id \notin DOMAIN byId THEN st
    ELSE FoldLeft(LAMBDA s, d : VisitTooEarly(d, byId, s),
                  [visited |-> st.visited \cup {id}, out |-> Append(st.out, byId[id])],
                  byId[id].dependsOn)

\* visit: the ids seen so far and the list built so far.
RECURSIVE Visit(_, _, _)
Visit(id, byId, st) ==
    LET seen == [st EXCEPT !.visited = @ \cup {id}]
    IN  IF id \in st.visited THEN st
        ELSE IF id \notin DOMAIN byId THEN seen
        ELSE LET deps == FoldLeft(LAMBDA s, d : Visit(d, byId, s), seen, byId[id].dependsOn)
             IN  [deps EXCEPT !.out = Append(@, byId[id])]

SortTasksTopologically(tasks) ==
    FoldLeft(LAMBDA st, t : Visit(t.id, ById(tasks), st),
             [visited |-> {}, out |-> << >>], tasks).out

\* Longest chain of dependencies among the tasks listed before.
Depths(tasks) ==
    FoldLeft(LAMBDA f, t :
                (t.id :> 1 + Max({0} \cup {f[d] : d \in ToSet(t.dependsOn) \cap DOMAIN f})) @@ f,
             << >>, tasks)

\* Faulty variant: the deepest level of a chain through all tasks is forgotten.
MergeWithoutDeepest(tasks) ==
    LET depth == Depths(tasks)
    IN  FlattenSeq([n \in 1..(Len(tasks) - 1) |-> SelectSeq(tasks, LAMBDA t : depth[t.id] = n)])

\* A stable sort by depth.
MergeParallelTasks(tasks) ==
    LET depth == Depths(tasks)
    IN  FlattenSeq([n \in 1..Len(tasks) |-> SelectSeq(tasks, LAMBDA t : depth[t.id] = n)])

Optimize(tasks) == MergeParallelTasks(SortTasksTopologically(tasks))

-----------------------------------------------------------------------------
(* WorkflowDslCompiler and JobService.register.                            *)

Validator == INSTANCE Scheduling WITH TaskIds <- Names

DefaultMaxAttempts == 3

\* The definition as the validator reads it.
ToJobDefinition(tasks, constraints) ==
    [tasks       |-> [k \in 1..Len(tasks) |-> tasks[k].id],
     dependsOn   |-> [t \in Names |->
                        IF t \in Ids(tasks) THEN ToSet(ById(tasks)[t].dependsOn) ELSE {}],
     optional    |-> {tasks[k].id : k \in {n \in 1..Len(tasks) : tasks[n].optional}},
     maxAttempts |-> DefaultMaxAttempts,
     blocks      |-> \E k \in 1..Len(constraints) : constraints[k].severity = "block"]

\* What the input schema, the registry and the validator accept.
Acceptable(version, tasks, constraints) ==
    /\ version >= 1
    /\ \A k \in 1..Len(tasks) : tasks[k].timeoutMs >= 1 /\ tasks[k].handler \in DOMAIN DefaultTimeout
    /\ Validator!ValidDefinition(ToJobDefinition(tasks, constraints))

Compile ==
    /\ where = "parsed"
    /\ ast' = [ast EXCEPT !.tasks = Optimize(@)]
    /\ where' = "compiled"
    /\ UNCHANGED <<source, tokens, i, node>>

\* HandlerResolver.resolveTasks: a timeout is cut to twice the default of its handler.
Capped(task) ==
    LET cap == 2 * DefaultTimeout[task.handler]
    IN  [task EXCEPT !.timeoutMs = IF @ > cap THEN cap ELSE @]

\* Faulty variant: the timeouts are not cut.
RegisterUncapped ==
    /\ where = "compiled"
    /\ where' = IF Acceptable(ast.version, ast.tasks, ast.constraints) THEN "registered" ELSE "error"
    /\ UNCHANGED <<source, tokens, i, ast, node>>

Register ==
    /\ where = "compiled"
    /\ IF Acceptable(ast.version, ast.tasks, ast.constraints)
       THEN /\ where' = "registered"
            /\ ast' = [ast EXCEPT !.tasks = [k \in DOMAIN @ |-> Capped(@[k])]]
            /\ UNCHANGED <<tokens, i, node>>
       ELSE Fail
    /\ UNCHANGED source

Answered == where \in {"registered", "error"} /\ UNCHANGED vars

Next == Lex \/ ParserStep \/ Spin \/ Compile \/ Register \/ Answered

Spec == Init /\ [][Next]_vars

\* The parser is plain synchronous code: it goes on until it returns or throws.
FairSpec == Spec /\ WF_vars(Next)

-----------------------------------------------------------------------------
(* Properties.  source.meant is the workflow the source was written for.   *)

\* A task as it is to be stored: at most twice its handler's default remains of the
\* timeout.
Stored(t) == [t EXCEPT !.timeoutMs = Min({@, 2 * DefaultTimeout[t.handler]})]

\* What is registered is what was written, if no two tasks have the same id: every
\* task once, with its handler, dependencies, flag and its timeout up to the limit of
\* its handler, every constraint in its order, nothing else; and a source is refused
\* exactly if what it says is not acceptable.
RegisteredIsWritten ==
    LET m == source.meant
    IN  /\ m # NoFlow /\ Cardinality(Ids(m.tasks)) = Len(m.tasks)
        /\ where \in {"registered", "error"}
        =>  /\ where = "registered" =>
                 /\ Len(ast.tasks) = Len(m.tasks)
                 /\ ToSet(ast.tasks) = {Stored(t) : t \in ToSet(m.tasks)}
                 /\ ast.constraints = m.constraints
                 /\ ast.version = m.version
            /\ where = "registered" <=> Acceptable(m.version, m.tasks, m.constraints)

\* The list that is registered has every task after the tasks it depends on, in
\* whatever order the source has them and whichever task the search starts from.
DependenciesListedFirst ==
    where = "registered" =>
        \A k, n \in 1..Len(ast.tasks) :
            ast.tasks[k].id \in ToSet(ast.tasks[n].dependsOn) => k < n

\* The compiler answers: it returns a definition or throws.
CompilerAnswers == <>(where \in {"registered", "error"})
=============================================================================
