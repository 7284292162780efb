------------------------------ MODULE MCEslSend ------------------------------
(* A small instance of EslSend.                                            *)
EXTENDS EslSend

MCChar == Words \cup {"h", "v", "u", "a", "b"}

MCExecute(uuid, app, arg) ==
  [op |-> "execute", uuid |-> uuid, app |-> app, arg |-> arg, flags |-> {}]

(* A raw command that has its blank line, one with the mutex that gets it  *)
(* from esl_send, two more that have it and just fit into their arrays,    *)
(* and one too many of everything.                                         *)
MCRequest ==
  {[op |-> "send", text |-> <<LF, LF>>],
   [op |-> "sendmsg", uuid |-> None, event |-> <<"h">>],
   [op |-> "filter", first |-> <<"h">>, second |-> <<"v">>],
   [op |-> "filter", first |-> <<"h">>, second |-> <<"v", "v">>],
   MCExecute(<<"u">>, <<"a">>, None),
   MCExecute(<<"u", "u">>, None, None),
   MCExecute(None, <<"a", "a">>, None),
   MCExecute(None, None, <<"b", "b">>)}
=============================================================================
