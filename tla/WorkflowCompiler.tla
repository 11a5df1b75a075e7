-------------------------- MODULE WorkflowCompiler --------------------------
(***************************************************************************)
(* Workflows of an agent file up to the IR: the grammar's statements and   *)
(* expressions, the checker (auwgent-checker, workflow.rs) and the         *)
(* lowering (auwgent-ir, lib.rs).                                          *)
(*                                                                         *)
(* A value is a record whose one field names its kind, and so is a type.   *)
(* Left out: prompts used as values, array literals, the other arithmetic  *)
(* operators (which the evaluator refuses).                                *)
(***************************************************************************)
EXTENDS Integers, Sequences, FiniteSets, SequencesExt, Functions

CONSTANTS
    Tools,        \* the agent's tools: name -> [params, returns]
    ScopedTools,  \* the workflow's own tools: name -> [params, returns]
    Helpers,      \* the helpers, with text input and text output
    Context,      \* the agent's context fields: name -> type
    Input         \* its input fields: name -> type, or ("input" :> TText) for a direct one

ASSUME ToolsAssumption == DOMAIN Tools \cap DOMAIN ScopedTools = {}

-----------------------------------------------------------------------------
(* Values, expressions, conditions and statements.                         *)

Text(s) == [text |-> s]
Num(n)  == [num |-> n]
Bool(b) == [bool |-> b]
Obj(f)  == [obj |-> f]
List(s) == [list |-> s]
Null    == [null |-> {}]
IsKind(v, kind) == kind \in DOMAIN v

Lit(v)             == [e |-> "literal", value |-> v]
Var(name)          == [e |-> "varRef", name |-> name]
Member(name, path) == [e |-> "memberAccess", object |-> name, path |-> path]
Index(name, at, path) == [e |-> "indexAccess", object |-> name, index |-> at, path |-> path]
Ctx(field)         == [e |-> "contextRef", property |-> field]
Call(tool, args)   == [e |-> "functionCall", callee |-> tool, args |-> args]
Ask(helper, args)  == [e |-> "helperCall", callee |-> helper, args |-> args]
Plus(a, b)         == [e |-> "binaryOp", left |-> a, right |-> b]
Object(fields)     == [e |-> "object", fields |-> fields]

Holds(x)             == [c |-> "boolean", value |-> x]
Compare(op, a, b)    == [c |-> "comparison", op |-> op, left |-> a, right |-> b]
Logical(op, c, d)    == [c |-> "logical", op |-> op, left |-> c, right |-> d]

Let(name, x)         == [s |-> "let", name |-> name, value |-> x]
Assign(name, x)      == [s |-> "assign", name |-> name, value |-> x]
Return(x)            == [s |-> "return", value |-> x]
If(cond, then, else) == [s |-> "if", cond |-> cond, then |-> then, orelse |-> else]
Transfer(helper)     == [s |-> "transfer", helper |-> helper]
Parallel(body)       == [s |-> "parallel", body |-> body]

-----------------------------------------------------------------------------
(* Types (state.rs).                                                       *)

TText    == [const |-> "string"]
TNum     == [const |-> "number"]
TBool    == [const |-> "boolean"]
TList(t) == [array |-> t]
TRecord(fields, optional) == [record |-> fields, optional |-> optional]
TError   == [error |-> {}]

RECURSIVE TypesCompatible(_, _)
TypesCompatible(expected, actual) ==
    \/ IsKind(expected, "error") \/ IsKind(actual, "error")
    \/ IsKind(expected, "const") /\ expected = actual
    \/ /\ IsKind(expected, "array") /\ IsKind(actual, "array")
       /\ TypesCompatible(expected.array, actual.array)
    \/ /\ IsKind(expected, "record") /\ IsKind(actual, "record")
       /\ \A name \in DOMAIN expected.record \cap DOMAIN actual.record :
            TypesCompatible(expected.record[name], actual.record[name])

\* Comparing values of one kind; ordering only numbers.
ValidComparison(op, left, right) ==
    \/ IsKind(left, "error") \/ IsKind(right, "error")
    \/ op \in {"==", "!="} /\ left = right
    \/ op \in {"<", ">"} /\ left = TNum /\ right = TNum

-----------------------------------------------------------------------------
(* infer_expression: the type, and whether nothing was diagnosed.          *)

Inferred(ty, ok) == [ty |-> ty, ok |-> ok]

\* Mutant: an unknown field is of unknown type, as an unknown object is.
FieldTypeUnchecked(ty, path) ==
    Inferred(IF IsKind(ty, "record") /\ path[1] \in DOMAIN ty.record THEN ty.record[path[1]] ELSE TError,
             TRUE)

\* A member access: the fields of a path, each of a record that has it.
RECURSIVE FieldType(_, _)
FieldType(ty, path) ==
    IF path = <<>> THEN Inferred(ty, TRUE)
    ELSE IF IsKind(ty, "record") /\ Head(path) \in DOMAIN ty.record
         THEN FieldType(ty.record[Head(path)], Tail(path))
         ELSE Inferred(TError, FALSE)

LiteralType(v) ==
    CASE IsKind(v, "text") -> TText
      [] IsKind(v, "num")  -> TNum
      [] IsKind(v, "bool") -> TBool

\* The element of a list: neither the index nor the fields after it are
\* looked at.
InferIndexAccess(x, env) ==
    IF x.object \in DOMAIN env /\ IsKind(env[x.object], "array")
    THEN Inferred(env[x.object].array, TRUE)
    ELSE Inferred(TError, FALSE)

InferContextRef(x, env) ==
    CASE x.property \in DOMAIN Context -> Inferred(Context[x.property], TRUE)
      [] x.property \notin DOMAIN Context ->
           Inferred(IF x.property \in DOMAIN env THEN env[x.property] ELSE TText,
                    DOMAIN Context = {})

\* Arguments against declared parameters, position by position.
CheckCallArgs(types, params) ==
    \A i \in DOMAIN types \cap DOMAIN params : TypesCompatible(params[i].ty, types[i])

RECURSIVE InferExpression(_, _)

InferAll(xs, env) == [i \in DOMAIN xs |-> InferExpression(xs[i], env)]
AllOk(inferred) == \A i \in DOMAIN inferred : inferred[i].ok
TypesOf(inferred) == [i \in DOMAIN inferred |-> inferred[i].ty]

\* A call whose callee is no tool of the agent is taken for a scoped tool,
\* whatever its name is.
InferFunctionCall(x, env) ==
    LET args == InferAll(x.args, env)
    IN IF x.callee \in DOMAIN Tools
       THEN Inferred(Tools[x.callee].returns,
                     /\ Len(x.args) = Len(Tools[x.callee].params) /\ AllOk(args)
                     /\ CheckCallArgs(TypesOf(args), Tools[x.callee].params))
       ELSE Inferred(TError, AllOk(args))

\* A helper of text input: one text.
InferHelperCall(x, env) ==
    LET args == InferAll(x.args, env)
    IN IF x.callee \in Helpers
       THEN Inferred(TText, /\ Len(args) = 1 /\ AllOk(args)
                            /\ TypesCompatible(TText, args[1].ty))
       ELSE Inferred(TError, FALSE)

InferExpression(x, env) ==
    LET sides == InferAll(<<x.left, x.right>>, env)
    IN CASE x.e = "literal" -> Inferred(LiteralType(x.value), TRUE)
         [] x.e = "varRef" ->
              IF x.name \in DOMAIN env THEN Inferred(env[x.name], TRUE)
              ELSE Inferred(TError, FALSE)
         [] x.e = "memberAccess" ->
              \* an object nobody declared is not reported
              IF x.object \in DOMAIN env THEN FieldType(env[x.object], x.path)
              ELSE Inferred(TError, TRUE)
         [] x.e = "indexAccess"  -> InferIndexAccess(x, env)
         [] x.e = "contextRef"   -> InferContextRef(x, env)
         [] x.e = "functionCall" -> InferFunctionCall(x, env)
         [] x.e = "helperCall"   -> InferHelperCall(x, env)
         [] x.e = "object" ->
              LET fields == InferAll(x.fields, env)
              IN Inferred(TRecord(TypesOf(fields), {}), AllOk(fields))
         [] x.e = "binaryOp" ->
              Inferred(IF TText \in Range(TypesOf(sides)) THEN TText ELSE TNum, AllOk(sides))

RECURSIVE CheckCondition(_, _)
CheckCondition(cond, env) ==
    LET infer(y) == InferExpression(y, env)
    IN CASE cond.c = "comparison" ->
              /\ infer(cond.left).ok /\ infer(cond.right).ok
              /\ ValidComparison(cond.op, infer(cond.left).ty, infer(cond.right).ty)
         [] cond.c = "logical" -> CheckCondition(cond.left, env) /\ CheckCondition(cond.right, env)
         [] cond.c = "boolean" ->
              infer(cond.value).ok /\ TypesCompatible(TBool, infer(cond.value).ty)

-----------------------------------------------------------------------------
(* check_statements: the environment and the declared names after the      *)
(* statements, and whether nothing was diagnosed.                          *)

Checked(env, names, ok) == [env |-> env, names |-> names, ok |-> ok]

\* A name may be declared once in the scopes around it.
DeclareScopeName(names, name) == name \notin names

Set(env, name, value) ==
    [n \in DOMAIN env \cup {name} |-> IF n = name THEN value ELSE env[n]]

RECURSIVE CheckStatements(_, _, _)
CheckStatements(stmts, at, returns) ==
    IF stmts = <<>> THEN at
    ELSE
    LET stmt  == Head(stmts)
        value == InferExpression(stmt.value, at.env)
        arm(body) == CheckStatements(body, Checked(at.env, at.names, TRUE), returns).ok
        isNew == DeclareScopeName(at.names, stmt.name)
        after ==
          CASE stmt.s = "let" ->
                 Checked(IF isNew THEN Set(at.env, stmt.name, value.ty) ELSE at.env,
                         at.names \cup {stmt.name}, value.ok /\ isNew)
            [] stmt.s = "assign" ->
                 Checked(Set(at.env, stmt.name, value.ty), at.names,
                         value.ok /\ stmt.name \in DOMAIN at.env)
            [] stmt.s = "return" ->
                 Checked(at.env, at.names, value.ok /\ TypesCompatible(returns, value.ty))
            [] stmt.s = "if" ->
                 Checked(at.env, at.names, /\ CheckCondition(stmt.cond, at.env)
                                           /\ arm(stmt.then) /\ arm(stmt.orelse))
            [] stmt.s = "transfer" -> Checked(at.env, at.names, TRUE)
            \* the branches see, and leave behind, each other's declarations
            [] stmt.s = "parallel" -> CheckStatements(stmt.body, at, returns)
    IN CheckStatements(Tail(stmts), [after EXCEPT !.ok = @ /\ at.ok], returns)

\* The fields of the agent's input, then those of its context, then the workflow's
\* parameters are in scope by their bare names.
CheckWorkflow(wf) ==
    LET params == [p \in {q.name : q \in Range(wf.params)} |->
                     (CHOOSE q \in Range(wf.params) : q.name = p).ty]
    IN /\ DOMAIN Input \cap DOMAIN Context = {}
       /\ IsInjective([i \in DOMAIN wf.params |-> wf.params[i].name])
       /\ \A p \in DOMAIN params : DeclareScopeName(DOMAIN Input \cup DOMAIN Context, p)
       /\ LET env == Input @@ Context @@ params
          IN CheckStatements(wf.body, Checked(env, DOMAIN env, TRUE), wf.returns).ok

-----------------------------------------------------------------------------
(* The lowering.  What it writes must be read back as the IR's types, or   *)
(* the compiler panics: an object literal is written without its tag, and  *)
(* a transfer with other fields than those of the IR.                      *)

Panic == [e |-> "panic"]

RECURSIVE LowerExpression(_)
LowerExpression(x) ==
    CASE x.e = "object" -> Panic
      [] x.e = "indexAccess" -> [x EXCEPT !.index = LowerExpression(@), !.path = <<>>]
      [] x.e \in {"functionCall", "helperCall"} ->
           [x EXCEPT !.args = [i \in DOMAIN x.args |-> LowerExpression(x.args[i])]]
      [] x.e = "binaryOp" -> [x EXCEPT !.left = LowerExpression(@), !.right = LowerExpression(@)]
      [] OTHER -> x

RECURSIVE LowerCondition(_)
LowerCondition(cond) ==
    CASE cond.c = "boolean" -> [cond EXCEPT !.value = LowerExpression(@)]
      [] cond.c = "comparison" ->
           [cond EXCEPT !.left = LowerExpression(@), !.right = LowerExpression(@)]
      [] cond.c = "logical" ->
           [cond EXCEPT !.left = LowerCondition(@), !.right = LowerCondition(@)]

RECURSIVE LowerStatement(_)
LowerStatement(stmt) ==
    LET lower(body) == [i \in DOMAIN body |-> LowerStatement(body[i])]
    IN CASE stmt.s \in {"let", "assign", "return"} -> [stmt EXCEPT !.value = LowerExpression(@)]
         [] stmt.s = "if" -> [stmt EXCEPT !.cond = LowerCondition(@),
                                          !.then = lower(@), !.orelse = lower(@)]
         [] stmt.s = "parallel" -> [stmt EXCEPT !.body = lower(@)]
         [] stmt.s = "transfer" -> [s |-> "panic"]

\* Whether the lowered body can be read back.  A condition is kept as JSON
\* and read only when it is evaluated.
RECURSIVE ReadsBack(_)
ReadsBack(node) ==
    IF IsKind(node, "s")
    THEN CASE node.s = "panic" -> FALSE
           [] node.s = "if" -> /\ \A i \in DOMAIN node.then : ReadsBack(node.then[i])
                               /\ \A i \in DOMAIN node.orelse : ReadsBack(node.orelse[i])
           [] node.s = "parallel" -> \A i \in DOMAIN node.body : ReadsBack(node.body[i])
           [] OTHER -> ReadsBack(node.value)
    ELSE CASE node.e = "panic" -> FALSE
           [] node.e = "indexAccess" -> ReadsBack(node.index)
           [] node.e \in {"functionCall", "helperCall"} ->
                \A i \in DOMAIN node.args : ReadsBack(node.args[i])
           [] node.e = "binaryOp" -> ReadsBack(node.left) /\ ReadsBack(node.right)
           [] OTHER -> TRUE

LowerWorkflow(wf) == [i \in DOMAIN wf.body |-> LowerStatement(wf.body[i])]
=============================================================================
