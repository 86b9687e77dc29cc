---------------------------- MODULE MCDefinitions ----------------------------
(***************************************************************************)
(* Small instances of what reads, stores and interprets job definitions:   *)
(* the catalog with its import, the DSL compiler, the expressions of the   *)
(* constraints, and the handlers a definition strings together.            *)
(*                                                                         *)
(* As modelled they share no state, so a property of one of them holds of  *)
(* all if it holds of that one alone.  `part` says which of them this      *)
(* behaviour is about; the others wait before their first step.            *)
(***************************************************************************)
EXTENDS MCCatalog, MCPipeline

CONSTANT NoFlow     \* of Dsl

VARIABLES
    part,                                               \* the component that is running
    source, tokens, position, where, ast, node,         \* Dsl
    constraints, context, outcome                       \* Expressions

catalogVars    == vars
dslVars        == <<source, tokens, position, where, ast, node>>
expressionVars == <<constraints, context, outcome>>

allVars == <<part, catalogVars, dslVars, expressionVars, pipelineVars>>

-----------------------------------------------------------------------------
(* The sources, expressions and runs come from the MC modules of the       *)
(* components.                                                             *)

ExpressionData == INSTANCE MCExpressions WITH Words <- {}, Lists <- {}, Environments <- {}
DslData        == INSTANCE MCDsl WITH Names <- {}, DefaultTimeout <- << >>, Sources <- {}, i <- position

D == INSTANCE Dsl WITH
    Names <- {"a", "b", "c", "d", "x"}, DefaultTimeout <- DslData!TheDefaults,
    Sources <- DslData!AllSources, i <- position

E == INSTANCE Expressions WITH
    Words <- ExpressionData!TheWords, Lists <- ExpressionData!MeantLists,
    Environments <- ExpressionData!MeantEnvironments

-----------------------------------------------------------------------------
(* A component that is not the one running waits before its first step,    *)
(* with an empty input.                                                    *)

DslWaits ==
    /\ source = [lexemes |-> << >>, meant |-> NoFlow]
    /\ tokens = << >> /\ position = 1 /\ where = "posted" /\ ast = << >> /\ node = D!EmptyNode

ExpressionsWait == constraints = << >> /\ context = << >> /\ outcome = [done |-> FALSE]

PipelineWaits ==
    /\ job = NoJob /\ input = << >> /\ task = 1 /\ attempt = 0
    /\ outputs = << >> /\ status = "none"

MCInit ==
    /\ Init
    /\ \/ part = "catalog"     /\ DslWaits /\ ExpressionsWait /\ PipelineWaits
       \/ part = "dsl"         /\ D!Init   /\ ExpressionsWait /\ PipelineWaits
       \/ part = "expressions" /\ DslWaits /\ E!Init          /\ PipelineWaits
       \/ part = "pipeline"    /\ DslWaits /\ ExpressionsWait /\ PipelineInit

\* A list of constraints is judged once.
Judged == part = "expressions" /\ outcome.done /\ UNCHANGED allVars

MCNext ==
    \/ part = "catalog"     /\ Next   /\ UNCHANGED <<part, dslVars, expressionVars, pipelineVars>>
    \/ part = "dsl"         /\ D!Next /\ UNCHANGED <<part, catalogVars, expressionVars, pipelineVars>>
    \/ part = "expressions" /\ E!Next /\ UNCHANGED <<part, catalogVars, dslVars, pipelineVars>>
    \/ part = "pipeline"    /\ PipelineNext /\ UNCHANGED <<part, catalogVars, dslVars, expressionVars>>
    \/ Judged

MCSpec == MCInit /\ [][MCNext]_allVars

-----------------------------------------------------------------------------
(* The properties of the instances; those of Catalog and Pipeline are      *)
(* their own.                                                              *)

\* What is registered is what was written (Dsl).
RegisteredIsWritten == D!RegisteredIsWritten

\* A registered list has every task after its dependencies (Dsl).
DependenciesListedFirst == D!DependenciesListedFirst

\* A constraint decides by what its text says (Expressions).
VerdictIsMeaning == E!VerdictIsMeaning
=============================================================================
