-------------------------------- MODULE State --------------------------------
(***************************************************************************)
(* Committed state and the patches that carry it: a JSON document, the     *)
(* differ and the patcher of core/state.py, the named reducers, and what a *)
(* retiring branch does to the state of its run.  Values are tagged, so    *)
(* that two of different kinds compare as JSON tokens do.  Only numbers,   *)
(* lists and objects are built: strings, booleans and floats take the      *)
(* branches that numbers take.                                             *)
(***************************************************************************)
EXTENDS Integers, SequencesExt

CONSTANTS KeyOrder, \* the keys of every object, in the order the differ sorts them
          Reducers  \* the reducer of each key that has one

Num(n) == <<"num", n>>
List(s) == <<"list", s>>
Obj(f) == <<"obj", f>>

\* Raised: a patch that does not fit its document, a reducer handed a value it
\* cannot combine.  None is Python's None.
PatchError == <<"error">>
None == <<"null">>

IsNum(v) == v[1] = "num"
IsList(v) == v[1] = "list"
IsObj(v) == v[1] = "obj"
Body(v) == v[2]
Members(v) == DOMAIN v[2]

NewOp(kind, path, value) == [op |-> kind, path |-> path, value |-> value]

\* Removals from the end of a list, the last first: none moves another.
Falling(from, to) == [i \in 1 .. to - from + 1 |-> to - i + 1]

\* Depth first, keys in sorted order, a list by position: the common part, then
\* what was added, then what was cut off.
RECURSIVE DiffAt(_, _, _)
DiffAt(path, before, after) ==
  CASE before = after -> <<>>
    [] before # after /\ IsObj(before) /\ IsObj(after) ->
         LET sorted == SelectSeq(KeyOrder,
                         LAMBDA k : k \in Members(before) \cup Members(after))
             At(k) == CASE k \notin Members(after) ->
                             <<NewOp("remove", Append(path, k), None)>>
                        [] k \notin Members(before) ->
                             <<NewOp("add", Append(path, k), Body(after)[k])>>
                        [] OTHER -> DiffAt(Append(path, k), Body(before)[k], Body(after)[k])
         IN  FlattenSeq([i \in DOMAIN sorted |-> At(sorted[i])])
    [] before # after /\ IsList(before) /\ IsList(after) ->
         LET old == Body(before)
             new == Body(after)
             common == IF Len(old) < Len(new) THEN Len(old) ELSE Len(new)
             cut == Falling(common + 1, Len(old))
         IN  FlattenSeq([i \in 1 .. common |-> DiffAt(Append(path, i), old[i], new[i])])
             \o [i \in 1 .. Len(new) - common |->
                   NewOp("add", Append(path, common + i), new[common + i])]
             \o [i \in DOMAIN cut |-> NewOp("remove", Append(path, cut[i]), None)]
    [] OTHER -> <<NewOp("replace", path, after)>>

Diff(before, after) == DiffAt(<<>>, before, after)

EditObject(members, op, last) ==
  CASE op.op # "add" /\ last \notin DOMAIN members -> PatchError
    [] op.op = "remove" /\ last \in DOMAIN members ->
         Obj([k \in DOMAIN members \ {last} |-> members[k]])
    [] OTHER ->
         Obj([k \in DOMAIN members \cup {last} |->
                IF k = last THEN op.value ELSE members[k]])

EditList(items, op, at) ==
  CASE at > Len(items) + (IF op.op = "add" THEN 1 ELSE 0) -> PatchError
    [] at <= Len(items) /\ op.op = "remove" -> List(RemoveAt(items, at))
    [] at <= Len(items) /\ op.op = "replace" -> List([items EXCEPT ![at] = op.value])
    [] OTHER -> List(InsertAt(items, at, op.value))

\* One operation of a patch, at the end of its path.  The document is rebuilt
\* along the path, where the code edits a fresh copy in place.
RECURSIVE ApplyAt(_, _, _)
ApplyAt(document, path, op) ==
  IF path = <<>> THEN IF op.op = "remove" THEN PatchError ELSE op.value
  ELSE IF Len(path) = 1
  THEN CASE IsObj(document) -> EditObject(Body(document), op, path[1])
         [] IsList(document) -> EditList(Body(document), op, path[1])
         [] OTHER -> PatchError
  ELSE LET inside == CASE IsObj(document) -> Members(document)
                       [] IsList(document) -> DOMAIN Body(document)
                       [] OTHER -> {}
       IN  IF path[1] \notin inside THEN PatchError
           ELSE LET child == ApplyAt(Body(document)[path[1]], Tail(path), op)
                IN  IF child = PatchError THEN PatchError
                    ELSE <<document[1], [Body(document) EXCEPT ![path[1]] = child]>>

ApplyOne(document, op) ==
  IF document = PatchError THEN PatchError ELSE ApplyAt(document, op.path, op)

Apply(document, patch) == FoldLeft(ApplyOne, document, patch)

(***************************************************************************)
(* Reducers: the committed value of a key and an incoming one.             *)
(***************************************************************************)

AppendTo(current, incoming) ==
  IF current # None /\ ~IsList(current) THEN PatchError
  ELSE List((IF current = None THEN <<>> ELSE Body(current))
            \o (IF IsList(incoming) THEN Body(incoming) ELSE <<incoming>>))

Extreme(name, current, incoming) ==
  CASE current = None -> incoming
    [] current # None /\ ~(IsNum(current) /\ IsNum(incoming)) -> PatchError
    [] OTHER -> LET wins == IF name = "max" THEN Body(incoming) > Body(current)
                                            ELSE Body(incoming) < Body(current)
                IN  IF wins THEN incoming ELSE current

Reduce(name, current, incoming) ==
  CASE name = "append" -> AppendTo(current, incoming)
    [] name = "last_write" -> incoming
    [] OTHER -> Extreme(name, current, incoming)

At(members, key) == IF key \in DOMAIN members THEN members[key] ELSE None
HasReducer(key) == key \in DOMAIN Reducers

(***************************************************************************)
(* A branch's state is a copy; its delta is the patch from the fork to now.*)
(***************************************************************************)

Touched(patch) == {patch[i].path[1] : i \in DOMAIN patch}

Committed(before, after) == [state |-> after, patch |-> Diff(before, after)]

\* Apply the delta, and hand each key it touched and kept to its reducer.
Commit(before, delta) ==
  LET after == Body(Apply(before, delta))
      reduced == {k \in Touched(delta) \cap DOMAIN after : HasReducer(k)}
  IN  Committed(before,
        Obj([k \in DOMAIN after |->
               IF k \in reduced
               THEN Reduce(Reducers[k], At(Body(before), k), after[k])
               ELSE after[k]]))

\* A lane of a group commits the value it wrote for each key it touched, on top
\* of what its siblings have committed since the fork.  Defect: it replays its
\* patch instead, which was taken against the state they forked from.
CommitPatch(before, delta, wrote) == Commit(before, delta)
CommitValues(before, delta, wrote) ==
  LET kept == Touched(delta) \cap Members(wrote)
      gone == Touched(delta) \ Members(wrote)
  IN  Committed(before,
        Obj([k \in (Members(before) \ gone) \cup kept |->
               CASE k \in kept /\ HasReducer(k) ->
                      Reduce(Reducers[k], At(Body(before), k), Body(wrote)[k])
                 [] k \in kept /\ ~HasReducer(k) -> Body(wrote)[k]
                 [] OTHER -> Body(before)[k]]))
=============================================================================
