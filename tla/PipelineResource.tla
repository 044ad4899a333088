-------------------------- MODULE PipelineResource --------------------------
(***************************************************************************)
(* What churro-ctl's handlers do to the resource of their pipeline, as     *)
(* operators on its content.  The code is internal/ctl.                    *)
(*                                                                         *)
(* The lists of the resource are sets of records, an id is a number, and   *)
(* of a source or a rule the fields are kept that a handler compares.  A   *)
(* column path is the syntax it is written in.  The form's checks for      *)
(* blank fields, made by the page's handler and again here, are left out:  *)
(* a call has all its fields.                                              *)
(***************************************************************************)
EXTENDS Naturals

Schemes == {"csv", "xml", "jsonpath", "api"}
Texts == {"column number", "xpath", "json path"}

\* The calls of churro-ctl that write the resource.
SourceEdits == {"createExtractSource", "updateExtractSource", "deleteExtractSource"}
RuleEdits == {"createExtractRule", "updateExtractRule", "deleteExtractRule"}
ExtensionEdits == {"createExtension", "updateExtension", "deleteExtension"}
FunctionEdits == {"createTransformFunction", "updateTransformFunction",
                  "deleteTransformFunction"}
Edits == SourceEdits \cup RuleEdits \cup ExtensionEdits \cup FunctionEdits

With(items, id) == {x \in items : x.id = id}
Without(items, id) == items \ With(items, id)

(***************************************************************************)
(* validateRulePath.  A source that is not there has no scheme, and no     *)
(* path is refused for it.                                                 *)
(***************************************************************************)
ValidRulePath(text, scheme) ==
    CASE scheme = "csv" -> text = "column number"
      [] scheme = "xml" -> text = "xpath"
      [] scheme = "jsonpath" -> text = "json path"
      [] OTHER -> TRUE

RulePathFits(c, q) == \A s \in With(c.sources, q.source) : ValidRulePath(q.text, s.scheme)

PathTaken(c, path) == \E s \in c.sources : s.path = path

\* Not the code: the path is not looked for, a rule is not validated.
RefusesWithoutPathCheck(c, q) ==
    q.op \in {"updateExtractSource", "deleteExtractSource"} /\ c.sources = {}
RefusesUpdateUnchecked(c, q) ==
    CASE q.op = "createExtractRule" -> ~RulePathFits(c, q)
      [] OTHER -> c.rules = {}

(***************************************************************************)
(* The errors of a handler on the resource it has read.                    *)
(***************************************************************************)
RefusesSourceEdit(c, q) ==
    \/ q.op = "createExtractSource" /\ PathTaken(c, q.path)
    \/ /\ q.op = "updateExtractSource"
       /\ PathTaken(c, q.path) /\ ~PathTaken([sources |-> With(c.sources, q.item)], q.path)
    \/ q.op # "createExtractSource" /\ c.sources = {}

RefusesRuleEdit(c, q) ==
    \/ q.op # "deleteExtractRule" /\ ~RulePathFits(c, q)
    \/ q.op # "createExtractRule" /\ c.rules = {}

RefusesExtensionEdit(c, q) == q.op # "createExtension" /\ c.extensions = {}
RefusesFunctionEdit(c, q) == q.op # "createTransformFunction" /\ c.functions = {}

Refuses(c, q) ==
    \/ q.op \in SourceEdits /\ RefusesSourceEdit(c, q)
    \/ q.op \in RuleEdits /\ RefusesRuleEdit(c, q)
    \/ q.op \in ExtensionEdits /\ RefusesExtensionEdit(c, q)
    \/ q.op \in FunctionEdits /\ RefusesFunctionEdit(c, q)

(***************************************************************************)
(* The content a handler leaves.  An update or a deletion of an item that  *)
(* is not there changes nothing and is no error.  The rules and extensions *)
(* of a source that is deleted stay; so do the rules that name a function. *)
(* An update of a rule overwrites its function by that of the call.        *)
(***************************************************************************)
CreateExtractSource(c, q) ==
    [c EXCEPT !.sources = @ \cup {[id |-> q.id, path |-> q.path, scheme |-> q.scheme]}]
UpdateExtractSource(c, q) ==
    [c EXCEPT !.sources = {IF s.id = q.item
                           THEN [s EXCEPT !.path = q.path, !.scheme = q.scheme]
                           ELSE s : s \in @}]
DeleteExtractSource(c, q) == [c EXCEPT !.sources = Without(@, q.item)]

CreateExtractRule(c, q) ==
    [c EXCEPT !.rules = @ \cup {[id |-> q.id, source |-> q.source, text |-> q.text,
                                 function |-> q.function]}]
UpdateExtractRule(c, q) ==
    [c EXCEPT !.rules = {IF x.id = q.item
                         THEN [x EXCEPT !.text = q.text, !.function = q.function]
                         ELSE x : x \in @}]
DeleteExtractRule(c, q) == [c EXCEPT !.rules = Without(@, q.item)]

CreateExtension(c, q) ==
    [c EXCEPT !.extensions = @ \cup {[id |-> q.id, source |-> q.source, edit |-> 0]}]
UpdateExtension(c, q) ==
    [c EXCEPT !.extensions = {IF x.id = q.item THEN [x EXCEPT !.edit = q.id]
                              ELSE x : x \in @}]
DeleteExtension(c, q) == [c EXCEPT !.extensions = Without(@, q.item)]

CreateTransformFunction(c, q) ==
    [c EXCEPT !.functions = @ \cup {[id |-> q.id, edit |-> 0]}]
UpdateTransformFunction(c, q) ==
    [c EXCEPT !.functions = {IF x.id = q.item THEN [x EXCEPT !.edit = q.id]
                             ELSE x : x \in @}]
DeleteTransformFunction(c, q) == [c EXCEPT !.functions = Without(@, q.item)]

Effect(c, q) ==
    CASE q.op = "createExtractSource" -> CreateExtractSource(c, q)
      [] q.op = "updateExtractSource" -> UpdateExtractSource(c, q)
      [] q.op = "deleteExtractSource" -> DeleteExtractSource(c, q)
      [] q.op = "createExtractRule" -> CreateExtractRule(c, q)
      [] q.op = "updateExtractRule" -> UpdateExtractRule(c, q)
      [] q.op = "deleteExtractRule" -> DeleteExtractRule(c, q)
      [] q.op = "createExtension" -> CreateExtension(c, q)
      [] q.op = "updateExtension" -> UpdateExtension(c, q)
      [] q.op = "deleteExtension" -> DeleteExtension(c, q)
      [] q.op = "createTransformFunction" -> CreateTransformFunction(c, q)
      [] q.op = "updateTransformFunction" -> UpdateTransformFunction(c, q)
      [] q.op = "deleteTransformFunction" -> DeleteTransformFunction(c, q)

\* An update writes once for the item it finds, and not at all without one.
Writes(c, q) ==
    CASE q.op = "updateExtractSource" -> With(c.sources, q.item) # {}
      [] q.op = "updateExtractRule" -> With(c.rules, q.item) # {}
      [] q.op = "updateExtension" -> With(c.extensions, q.item) # {}
      [] q.op = "updateTransformFunction" -> With(c.functions, q.item) # {}
      [] OTHER -> TRUE
=============================================================================
