------------------------------- MODULE Hazards -------------------------------
(***************************************************************************)
(* What a tool is declared to do, and whether a call may be run on a       *)
(* guess: core/effects.py and core/hazards.py as operators.  A call is a   *)
(* tool's name and its arguments, a function from names to values; some    *)
(* values are placeholders of what a staged write has yet to return.  A    *)
(* resource key is a template's text followed by the arguments it names.   *)
(***************************************************************************)
EXTENDS Integers, Sequences

CONSTANT Placeholders  \* the values that stand for the result of a staged write

(***************************************************************************)
(* Declarations.                                                           *)
(***************************************************************************)

Effects == {"read", "write", "compensable", "irreversible"}
Mutates(effect) == effect # "read"

Template(text, refs) == [declared |-> TRUE, text |-> text, refs |-> refs]
NoTemplate == [declared |-> FALSE, text |-> "", refs |-> <<>>]

ToolSpec(effect, keys) ==
  [effect |-> effect, keys |-> keys, idempotent |-> FALSE, compensator |-> "none",
   witness |-> FALSE, synthesised |-> FALSE]

\* What a declaration may say of itself.
WellDeclared(spec) ==
  /\ (spec.effect = "compensable") <=> (spec.compensator # "none")
  /\ spec.witness => spec.effect = "read"

\* A name nobody declared is a write.  Never a read: that would be guessed on.
Synthesised == [ToolSpec("write", NoTemplate) EXCEPT !.synthesised = TRUE]
SpecOf(registry, name) ==
  IF name \in DOMAIN registry THEN registry[name] ELSE Synthesised

\* A server's hints about a tool: those it gives, each true or false.
Says(hints, hint, value) == hint \in DOMAIN hints /\ hints[hint] = value
EffectFromHints(hints) ==
  CASE Says(hints, "readOnlyHint", TRUE) -> ToolSpec("read", NoTemplate)
    [] ~Says(hints, "readOnlyHint", TRUE) /\ Says(hints, "destructiveHint", TRUE) ->
         ToolSpec("irreversible", NoTemplate)
    [] OTHER ->
         [ToolSpec("write", NoTemplate) EXCEPT
            !.idempotent = Says(hints, "destructiveHint", FALSE)
                           /\ Says(hints, "idempotentHint", TRUE)]

\* The developer's own table wins over the server's hints.
RegistryFromTools(tools, overrides) ==
  [name \in DOMAIN tools \cup DOMAIN overrides |->
     IF name \in DOMAIN overrides THEN overrides[name] ELSE EffectFromHints(tools[name])]

(***************************************************************************)
(* What a call touches, and whether two calls may touch the same thing.    *)
(***************************************************************************)

\* A template naming an argument the call does not pass names nothing.
NamedKeys(keys, args) ==
  IF \E i \in DOMAIN keys.refs : keys.refs[i] \notin DOMAIN args THEN {}
  ELSE {<<keys.text>> \o [i \in DOMAIN keys.refs |-> args[keys.refs[i]]]}

\* "This call touches something I cannot name."
Wildcard == <<"*">>
KeysTouched(spec, args) ==
  LET named == IF spec.keys.declared THEN NamedKeys(spec.keys, args) ELSE {}
  IN  IF named = {} THEN {Wildcard} ELSE named

\* Defect: only names held in common conflict.
SharedKeys(left, right) == left \cap right # {}
KeysConflict(left, right) ==
  Wildcard \in left \cup right \/ left \cap right # {}

HasHandle(args) == \E name \in DOMAIN args : args[name] \in Placeholders

(***************************************************************************)
(* analyse(): the first hazard that applies to a call on a branch, data    *)
(* hazards before limits.  A branch is a guess while it is speculative;    *)
(* the limits bind nothing else.                                           *)
(***************************************************************************)

ReadsBehind(spec, args, stagedKeys) ==
  /\ ~Mutates(spec.effect)
  /\ \E keys \in stagedKeys : KeysConflict(KeysTouched(spec, args), keys)

Analyse(branch, call, spec, policy, stagedKeys) ==
  LET guess == branch.speculative
      hazards ==
        <<<<spec.synthesised, "UNDECLARED_TOOL">>,
          <<HasHandle(call.args), "RETURN_VALUE_DEPENDENCY">>,
          <<guess /\ spec.effect = "irreversible" /\ ~policy.stageIrreversible,
            "IRREVERSIBLE_ON_PATH">>,
          <<guess /\ branch.predicted /\ Mutates(spec.effect) /\ ~policy.speculateWrites,
            "WRITE_ON_PATH">>,
          <<ReadsBehind(spec, call.args, stagedKeys), "READ_AFTER_STAGED_WRITE">>,
          <<guess /\ (branch.depth >= policy.maxDepth \/ branch.inflight >= policy.maxInflight),
            "BUDGET">>,
          <<TRUE, "none">>>>
      first == CHOOSE i \in DOMAIN hazards :
                 hazards[i][1] /\ \A j \in 1 .. i - 1 : ~hazards[j][1]
  IN  hazards[first][2]
=============================================================================
