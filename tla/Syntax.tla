------------------------------- MODULE Syntax -------------------------------
(***************************************************************************)
(* The nodes of a Sydney program (ast/ast.go), as records with a field     *)
(* "kind" named after the Go type.  The parser builds them; the checker    *)
(* fills in what the code keeps in the same node: resolved (ResolvedType), *)
(* mangled (MangledName), order (the fields of a struct's type) and a      *)
(* Cast around a node (CastTo).  Tokens, positions and printing are left   *)
(* out.                                                                    *)
(***************************************************************************)
EXTENDS Types

LOCAL INSTANCE SequencesExt

\* The nil of an optional child.
None == [kind |-> "None"]

IntegerLiteral(v) == [kind |-> "IntegerLiteral", literal |-> v]
BooleanLiteral(v) == [kind |-> "BooleanLiteral", literal |-> v]
StringLiteral(v)  == [kind |-> "StringLiteral", literal |-> v]
NullLiteral       == [kind |-> "NullLiteral"]

ArrayLiteral(es) == [kind |-> "ArrayLiteral", elements |-> es, resolved |-> NilType]

\* pairs: a sequence of <<key, value>> in the order in which checker and
\* compiler visit them (sorted by the text of the key).
HashLiteral(pairs) == [kind |-> "HashLiteral", pairs |-> pairs, resolved |-> NilType]

StructLiteral(t, targs, fields, values) ==
    [kind |-> "StructLiteral", name |-> t, targs |-> targs, fields |-> fields, values |-> values,
     order |-> <<>>, resolved |-> NilType]

\* name is "" unless the literal initialises a variable.
FunctionLiteral(name, params, type, body) ==
    [kind |-> "FunctionLiteral", name |-> name, params |-> params, type |-> type, body |-> body]

Identifier(x)        == [kind |-> "Identifier", name |-> x, resolved |-> NilType]
PrefixExpr(op, r)    == [kind |-> "PrefixExpr", op |-> op, right |-> r]
InfixExpr(op, l, r)  == [kind |-> "InfixExpr", op |-> op, left |-> l, right |-> r]
IndexExpr(l, i)      == [kind |-> "IndexExpr", left |-> l, index |-> i, resolved |-> NilType]
SliceExpr(l, s, e)   == [kind |-> "SliceExpr", left |-> l, start |-> s, end |-> e, resolved |-> NilType]

SelectorExpr(l, field) ==
    [kind |-> "SelectorExpr", left |-> l, field |-> field, order |-> <<>>, resolved |-> NilType]

CallExpr(f, targs, args) ==
    [kind |-> "CallExpr", function |-> f, targs |-> targs, args |-> args, mangled |-> "",
     resolved |-> NilType]

\* An expression of struct type t used where interface i is expected.
Cast(e, t, i) == [kind |-> "Cast", expr |-> e, struct |-> t, iface |-> i]

IfExpr(c, a, b) ==
    [kind |-> "IfExpr", condition |-> c, consequence |-> a, alternative |-> b, resolved |-> NilType]

\* An arm of a match: on an option or a result ("" binds nothing), or on the
\* dynamic type.
Arm(x, body)             == [kind |-> "Arm", binding |-> x, body |-> body]
TypeMatchArm(t, x, body) == [kind |-> "TypeMatchArm", type |-> t, binding |-> x, body |-> body]

\* of: "option" or "result", the patterns of the two arms.
MatchExpr(of, s, yes, no) ==
    [kind |-> "MatchExpr", of |-> of, subject |-> s, yes |-> yes, no |-> no, resolved |-> NilType]

MatchTypeExpr(s, arms, default) ==
    [kind |-> "MatchTypeExpr", subject |-> s, arms |-> arms, default |-> default, resolved |-> NilType]

BlockStmt(ss)         == [kind |-> "BlockStmt", stmts |-> ss]
ExpressionStmt(e)     == [kind |-> "ExpressionStmt", expr |-> e]
VarAssignmentStmt(x, e) == [kind |-> "VarAssignmentStmt", name |-> x, value |-> e]
ReturnStmt(e)         == [kind |-> "ReturnStmt", value |-> e]
BreakStmt             == [kind |-> "BreakStmt"]
ContinueStmt          == [kind |-> "ContinueStmt"]

\* type is NilType without an annotation.
VarDeclarationStmt(const, x, e, t) ==
    [kind |-> "VarDeclarationStmt", constant |-> const, name |-> x, value |-> e, type |-> t]

IndexAssignmentStmt(l, i, e) ==
    [kind |-> "IndexAssignmentStmt", left |-> l, index |-> i, value |-> e]

SelectorAssignmentStmt(l, field, e) ==
    [kind |-> "SelectorAssignmentStmt", left |-> l, field |-> field, order |-> <<>>, value |-> e]

ForStmt(init, c, post, body) ==
    [kind |-> "ForStmt", init |-> init, condition |-> c, post |-> post, body |-> body]

\* key is "" when absent.
ForInStmt(key, val, e, body) ==
    [kind |-> "ForInStmt", key |-> key, val |-> val, iterable |-> e, body |-> body]

\* tparams: the names of the type parameters.
FunctionDeclarationStmt(name, tparams, params, type, body) ==
    [kind |-> "FunctionDeclarationStmt", name |-> name, tparams |-> tparams, params |-> params,
     type |-> type, body |-> body, mangled |-> ""]

\* interfaces: the names of the interfaces that the struct satisfies, found by
\* the checker.
StructDefinitionStmt(name, tparams, fields, types) ==
    [kind |-> "StructDefinitionStmt", name |-> name, tparams |-> tparams, fields |-> fields,
     types |-> types, interfaces |-> <<>>]

InterfaceDefinitionStmt(name, methods, types) ==
    [kind |-> "InterfaceDefinitionStmt", name |-> name, methods |-> methods, types |-> types]

Program(ss) == [kind |-> "Program", stmts |-> ss]

\* The builtins in these programs (object.Builtins).
Builtins == {"len", "print", "append", "keys", "values", "ok", "err", "some", "none", "panic"}

-----------------------------------------------------------------------------
(* Traversals                                                              *)

ChildFields == {"left", "right", "expr", "value", "condition", "consequence", "alternative", "body",
                "subject", "index", "start", "end", "function", "init", "post", "iterable",
                "yes", "no", "default"}
ListFields  == {"elements", "values", "args", "stmts", "arms"}

\* The node with f applied to the children in the given fields.
MapFields(n, fields, f(_)) ==
    [x \in DOMAIN n |->
        CASE x \in fields \cap ChildFields -> f(n[x])
          [] x \in fields \cap ListFields  -> [i \in DOMAIN n[x] |-> f(n[x][i])]
          [] x \in fields \cap {"pairs"}   -> [i \in DOMAIN n[x] |-> <<f(n[x][i][1]), f(n[x][i][2])>>]
          [] OTHER                         -> n[x]]

\* The child nodes of a node.
Children(n) ==
    {n[x] : x \in ChildFields \cap DOMAIN n}
    \cup (UNION {ToSet(n[x]) : x \in ListFields \cap DOMAIN n})
    \cup (IF n.kind = "HashLiteral" THEN ToSet(FlattenSeq(n.pairs)) ELSE {})

\* The node with f applied to each of its children.
MapChildren(n, f(_)) == MapFields(n, ChildFields \cup ListFields \cup {"pairs"}, f)

=============================================================================
