-------------------------- MODULE MCCommandDispatch --------------------------
(***************************************************************************)
(* Two clients; a command with an alias, one with a prefix of its own that *)
(* the usual one begins, two under one word for a client each, and a group *)
(* with a default and a subcommand.                                        *)
(***************************************************************************)
EXTENDS CommandDispatch

CONSTANTS c1, c2

MCClients  == {c1, c2}
MCDefaultPrefix == <<"!">>
MCPrefixes == {<<"!">>, <<"bot", " ">>}
MCLowerOf  == [PING |-> "ping"]

Decl(kind, ws, prefix, parent, only, group) ==
  [kind |-> kind, words |-> ws, prefix |-> prefix, parent |-> parent,
   only |-> only, group |-> group]

MCDeclared ==
  {Decl("command", << <<"ping">>, <<"p">> >>, None, None, None, None),
   Decl("command", << <<"ping">>, <<"x">> >>, <<"!", "!">>, None, None, None),
   Decl("command", << <<"x">> >>, None, None, {c1}, None),
   Decl("command", << <<"x">> >>, None, None, {c2}, None),
   Decl("default", << <<"cfg">> >>, None, None, {c1}, {c1}),
   Decl("sub", << <<"x">>, <<"p">> >>, None, <<"cfg">>, None, {c1})}

MCBodies ==
  {<<"!", "PING", " ", "x">>, <<"!", "!", "p">>, <<"!", "!", "ping", " ", " ", "x">>, <<"!", "x", " ">>,
   <<"!", "cfg">>, <<"!", "cfg", " ", "p", " ", "x">>, <<"bot", " ", "p">>,
   <<"!", "!", "cfg", " ", "x">>}
=============================================================================
