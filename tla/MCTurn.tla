------------------------------- MODULE MCTurn -------------------------------
(* A reply of four calls: a charge, a lookup of another account, which       *)
(* commutes with it and may be issued early or guessed, a credit of a third, *)
(* and a listing that does not say what it reads -- and reads what the       *)
(* charge changes.  The server's hints make the listing a read; what the     *)
(* developer declares wins.  Wrong guesses are of writes, and of reads: a    *)
(* lookup of the third account may be guessed at until the credit; the other *)
(* two reads are refused after the charge.                                   *)
EXTENDS Turn

MCPlaceholders == {"$handle"}
Account(name) == Template("account", <<name>>)
MCHints ==
  [list |-> [readOnlyHint |-> TRUE],
   notify |-> [destructiveHint |-> FALSE, idempotentHint |-> TRUE],
   charge |-> [readOnlyHint |-> TRUE],
   wipe |-> [destructiveHint |-> TRUE]]
MCOverrides ==
  [charge |-> ToolSpec("write", Account("of")), credit |-> ToolSpec("write", Account("of")),
   lookup |-> ToolSpec("read", Account("of"))]
MCRegistry == RegistryFromTools(MCHints, MCOverrides)
MCPolicy == [stageIrreversible |-> FALSE, speculateWrites |-> TRUE, maxDepth |-> 3, maxInflight |-> 1]

On(tool, account) == [tool |-> tool, args |-> [of |-> account]]
MCReply == <<On("charge", "ann"), On("lookup", "bob"), On("credit", "cid"), On("list", "all")>>
MCTouches == <<{<<"account", "ann">>}, {<<"account", "bob">>}, {<<"account", "cid">>}, {<<"account", "ann">>}>>
MCMisguesses ==
  {On("charge", "bob"), On("lookup", "cid"), On("lookup", "ann"), On("list", "all"),
   On("refund", "ann"), On("wipe", "ann"), On("charge", "$handle")}

\* A shorter reply: a read and a write that a guess may make.
MCShortReply == <<On("lookup", "bob"), On("notify", "ann")>>
MCShortTouches == <<{<<"account", "bob">>}, {<<"mail">>}>>
=============================================================================
